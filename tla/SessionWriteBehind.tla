-------------------------- MODULE SessionWriteBehind --------------------------
(***************************************************************************)
(* The durability path of one live session: the write-behind controller    *)
(* (session-persistence/src/write-behind.ts), the part of the coordinator  *)
(* that owns it (coordinator.ts: flush, retire, appendLiveBatch,           *)
(* appendCore) and the store the backend writes to.                        *)
(*                                                                         *)
(* An event is its sequence number: the n-th event of the session is n-1.  *)
(* JavaScript runs one job at a time; every action is one synchronous      *)
(* stretch of it, from one await to the next.  A timer is a macrotask: it  *)
(* fires only when no continuation is queued (Quiet).  Session events and  *)
(* flush calls come from any job.                                          *)
(***************************************************************************)
EXTENDS Integers, Sequences, FiniteSets

CONSTANTS
  Callers,         \* callers of session/flush
  MaxPending,      \* options.maxPendingEvents
  MaxEvents,       \* bound: events the session emits, its seed included
  MaxSeed,         \* bound: length of the constructor seed
  Materializing,   \* events for which materializesSession holds
  Gateway,         \* the store is the Gateway (replies can be lost), not SQLite
  MaxStray         \* bound: timed-out requests still on their way to the store

Retirer == "retire"
FlushCallers == Callers \cup {Retirer}

ASSUME WriteBehindAssumption ==
  /\ MaxPending \in Nat \ {0}
  /\ MaxEvents \in Nat
  /\ MaxSeed \in Nat
  /\ MaxSeed <= MaxEvents
  /\ MaxStray \in Nat
  /\ Gateway \in BOOLEAN
  /\ Retirer \notin Callers
  /\ Materializing \subseteq Nat

VARIABLES
  emitted,           \* events the session holds; the next seq it emits
  accepted,          \* history: events the seed or enqueue took over
  pending,           \* this.pending
  batch,             \* the prefix spliced by the write in progress
  active,            \* this.active: where that write is
  background,        \* the write was started by the timer, not by a barrier
  activeBatchSize,   \* this.activeBatchSize
  timer,             \* this.timer is armed
  barrier,           \* this.barrier: where drainBarrier is
  auto,              \* continueAutomatic is queued behind a finished write
  deadlineExpired, automaticPaused, admissionFailure,
  init,              \* LiveSessionState.init
  seed,              \* length of the seed that init persists
  cursor,            \* SessionState.cursor
  deferred,          \* SessionState.pendingEvents of a draft
  materialized,      \* SessionState.materialized
  draft,             \* SessionState.storage.meta.draft at creation
  life,              \* the Session lifecycle: open, retiring, released
  caller,            \* per flush caller: what its call is waiting for
  mark,              \* per flush caller: emitted when it called
  store,             \* the durable log
  batches,           \* conversation_append_batches: idempotency keys
  stray              \* timed-out requests the store may still execute

control == <<active, background, activeBatchSize, timer, auto,
             deadlineExpired, automaticPaused>>
queue == <<pending, batch>>
session == <<emitted, accepted, admissionFailure, life>>
state == <<init, seed, cursor, deferred, materialized, draft>>
flushes == <<barrier, caller, mark>>
remote == <<store, batches, stray>>
vars == <<control, queue, session, state, flushes, remote>>

WriteStages == {"none", "queued", "writing", "resolved", "rejected", "caught"}
BarrierStages == {"none", "overlap", "overlapped", "write", "wrote", "failed"}
CallerStages == {"idle", "init", "barrier", "ok", "error"}

\* The events from..to-1, as the session numbers them.
Run(from, to) == [i \in 1..(to - from) |-> from + i - 1]

----------------------------------------------------------------------------
\* Timers and continuations

Quiet ==
  /\ ~auto
  /\ barrier \notin {"overlapped", "wrote", "failed"}
  /\ active \notin {"resolved", "rejected", "caught"}
  /\ \A c \in FlushCallers : ~(caller[c] = "init" /\ init # "pending")

CancelWait == timer' = FALSE /\ deadlineExpired' = FALSE

StartWrite(isBackground) ==
  /\ batch' = pending
  /\ pending' = <<>>
  /\ activeBatchSize' = Len(pending)
  /\ active' = "queued"
  /\ background' = isBackground
  /\ CancelWait

----------------------------------------------------------------------------
\* session/event: SessionWriteBehind.enqueue

Full == Len(pending) + activeBatchSize >= MaxPending

\* Mutant of ArmOnEnqueue: an event that ends a pause starts no deadline.
ArmOnEnqueueM ==
  IF barrier # "none" THEN UNCHANGED <<timer, deadlineExpired, automaticPaused>>
  ELSE /\ timer' = (timer \/ pending = <<>>)
       /\ automaticPaused' = FALSE
       /\ UNCHANGED deadlineExpired

\* When the automatic path is idle the event starts its deadline.
ArmOnEnqueue ==
  IF barrier # "none" THEN UNCHANGED <<timer, deadlineExpired, automaticPaused>>
  ELSE IF automaticPaused
  THEN timer' = TRUE /\ deadlineExpired' = FALSE /\ automaticPaused' = FALSE
  ELSE /\ timer' = (timer \/ pending = <<>>)
       /\ UNCHANGED <<deadlineExpired, automaticPaused>>

Emit == life = "open" /\ emitted < MaxEvents /\ emitted' = emitted + 1

Enqueue ==
  /\ Emit
  /\ ~admissionFailure /\ ~Full
  /\ pending' = Append(pending, emitted)
  /\ accepted' = accepted + 1
  /\ ArmOnEnqueue
  /\ UNCHANGED <<batch, active, background, activeBatchSize, auto,
                 admissionFailure, life, state, flushes, remote>>

\* The queue is full, or the event does not fit maxPendingBytes: an event of
\* any size may come, so the byte limit can refuse any event.
EnqueueRefused ==
  /\ Emit
  /\ admissionFailure' = TRUE
  /\ UNCHANGED <<accepted, life, control, queue, state, flushes, remote>>

----------------------------------------------------------------------------
\* Initialization: initFor / onCreated

Materializes(events) == \E i \in DOMAIN events : events[i] \in Materializing

\* appendCore keeps these events of an unmaterialized draft in memory.
Defers(events) == draft /\ ~materialized /\ ~Materializes(events)

\* The part of the seed the store does not hold yet.
SeedSuffix == Run(Len(store), seed)

\* ConversationRepository.append and SqliteStore.appendBatch: one transaction
\* that takes a batch at the end of the log; the Gateway also recognizes a
\* batch it has already applied.
Duplicate(events) == Gateway /\ events \in batches
\* Mutant of Accepts: the store takes a batch wherever it starts.
AcceptsM(events) == TRUE

Accepts(events) == Duplicate(events) \/ Head(events) = Len(store)
Apply(events) ==
  IF events = <<>> \/ Duplicate(events) THEN UNCHANGED <<store, batches>>
  ELSE /\ store' = store \o events
       /\ batches' = IF Gateway THEN batches \cup {events} ELSE batches

\* A new session persists or defers its seed; one the store already holds a
\* prefix of adopts the prefix and appends the rest of the seed.
InitSucceeds ==
  /\ init = "pending"
  /\ init' = "ok"
  /\ IF store = <<>> /\ Defers(SeedSuffix)
     THEN /\ deferred' = SeedSuffix
          /\ UNCHANGED <<cursor, materialized, store, batches>>
     ELSE /\ Apply(SeedSuffix)
          /\ cursor' = seed
          /\ materialized' = (seed # 0)
          /\ UNCHANGED deferred
  /\ UNCHANGED <<seed, draft, stray, control, queue, session, flushes>>

\* An id collision, an unreadable log or a failed seed append, whose
\* transaction may have committed at the Gateway.
InitFails ==
  /\ init = "pending"
  /\ init' = "failed"
  /\ \/ UNCHANGED <<store, batches>>
     \/ Gateway /\ ~Defers(SeedSuffix) /\ Apply(SeedSuffix)
  /\ UNCHANGED <<seed, cursor, deferred, materialized, draft, stray, control,
                 queue, session, flushes>>

----------------------------------------------------------------------------
\* The write: createWriteBehind's closure, appendLiveBatch, appendCore

\* batch.filter(e => e.seq >= cursor + pending): batches ascend, so the
\* events that are already taken lead.
Fresh ==
  LET next == cursor + Len(deferred)
      taken == Cardinality({i \in DOMAIN batch : batch[i] < next})
  IN SubSeq(batch, taken + 1, Len(batch))

Contiguous ==
  \A i \in DOMAIN Fresh : Fresh[i] = cursor + Len(deferred) + i - 1

durableEvents == deferred \o Fresh

\* The closure runs in a later job than a continueAutomatic already queued;
\* it awaits init, then its turn in the per-session chain.
WriteBegins ==
  /\ active = "queued" /\ init # "pending" /\ ~auto
  /\ CASE init = "failed" -> active' = "rejected" /\ UNCHANGED deferred
       [] init = "ok" /\ Fresh = <<>> -> active' = "resolved" /\ UNCHANGED deferred
       [] init = "ok" /\ Fresh # <<>> /\ ~Contiguous ->
            active' = "rejected" /\ UNCHANGED deferred
       [] init = "ok" /\ Fresh # <<>> /\ Contiguous /\ Defers(Fresh) ->
            active' = "resolved" /\ deferred' = deferred \o Fresh
       [] OTHER -> active' = "writing" /\ UNCHANGED deferred
  /\ UNCHANGED <<background, activeBatchSize, timer, auto, deadlineExpired,
                 automaticPaused, queue, session, init, seed, cursor,
                 materialized, draft, flushes, remote>>

BackendCommits ==
  /\ active = "writing"
  /\ Accepts(durableEvents)
  /\ Apply(durableEvents)
  /\ active' = "resolved"
  /\ cursor' = cursor + Len(durableEvents)
  /\ deferred' = <<>>
  /\ materialized' = TRUE
  /\ UNCHANGED <<background, activeBatchSize, timer, auto, deadlineExpired,
                 automaticPaused, queue, session, init, seed, draft, flushes,
                 stray>>

\* The transaction rolled back: a sequence mismatch or an I/O error.
BackendFails ==
  /\ active = "writing"
  /\ active' = "rejected"
  /\ UNCHANGED <<background, activeBatchSize, timer, auto, deadlineExpired,
                 automaticPaused, queue, session, state, flushes, remote>>

\* The Gateway request hits its deadline, or its reply is lost: the caller
\* sees a failure while the request may still be executed.
BackendTimesOut ==
  /\ Gateway
  /\ active = "writing"
  /\ Cardinality(stray) < MaxStray
  /\ active' = "rejected"
  /\ stray' = stray \cup {durableEvents}
  /\ UNCHANGED <<background, activeBatchSize, timer, auto, deadlineExpired,
                 automaticPaused, queue, session, state, flushes, store, batches>>

StrayLands(events) ==
  /\ stray' = stray \ {events}
  /\ Accepts(events)
  /\ Apply(events)
  /\ UNCHANGED <<control, queue, session, state, flushes>>

StrayLost(events) ==
  /\ stray' = stray \ {events}
  /\ UNCHANGED <<store, batches, control, queue, session, state, flushes>>

Restored == batch \o pending

\* startWrite's catch: the batch goes back before the events that came later.
WriteCaught ==
  /\ active = "rejected"
  /\ active' = "caught"
  /\ pending' = Restored
  /\ batch' = <<>>
  /\ CancelWait
  /\ automaticPaused' = TRUE
  /\ activeBatchSize' = 0
  /\ UNCHANGED <<background, auto, session, state, flushes, remote>>

\* startWrite's finally, which queues whoever waits for the write.
WriteSettles ==
  /\ active \in {"resolved", "caught"}
  /\ active' = "none"
  /\ batch' = <<>>
  /\ activeBatchSize' = 0
  /\ auto' = (background /\ active = "resolved")
  /\ barrier' = CASE barrier = "overlap" -> "overlapped"
                  [] barrier = "write" -> IF active = "resolved" THEN "wrote" ELSE "failed"
                  [] OTHER -> barrier
  /\ UNCHANGED <<pending, background, timer, deadlineExpired, automaticPaused,
                 session, state, caller, mark, remote>>

----------------------------------------------------------------------------
\* The automatic path: onDeadline, startBackground, continueAutomatic

OnDeadline ==
  /\ timer /\ Quiet
  /\ IF active # "none"
     THEN /\ timer' = FALSE
          /\ deadlineExpired' = TRUE
          /\ UNCHANGED <<batch, pending, activeBatchSize, active, background>>
     ELSE StartWrite(TRUE)
  /\ UNCHANGED <<auto, automaticPaused, session, state, flushes, remote>>

\* Mutant of ContinueAutomatic: a deadline that passed during the write is forgotten.
ContinueAutomaticM ==
  /\ auto
  /\ auto' = FALSE
  /\ UNCHANGED <<active, background, activeBatchSize, timer, deadlineExpired,
                 automaticPaused, queue, session, state, flushes, remote>>

ContinueAutomatic ==
  /\ auto
  /\ auto' = FALSE
  /\ IF barrier = "none" /\ pending # <<>> /\ deadlineExpired
     THEN StartWrite(TRUE)
     ELSE UNCHANGED <<batch, pending, activeBatchSize, active, background,
                      timer, deadlineExpired>>
  /\ UNCHANGED <<automaticPaused, session, state, flushes, remote>>

----------------------------------------------------------------------------
\* The barrier: coordinator.flush, SessionWriteBehind.flush, drainBarrier

\* Mutant of Verdict: a drained queue counts as success despite the gap.
VerdictM == "ok"

Verdict == IF admissionFailure THEN "error" ELSE "ok"
Joined(result) == [c \in FlushCallers |-> IF caller[c] = "barrier" THEN result ELSE caller[c]]

Call(c) ==
  /\ caller' = [caller EXCEPT ![c] = "init"]
  /\ mark' = [mark EXCEPT ![c] = emitted]
  /\ CancelWait
  /\ UNCHANGED <<active, background, activeBatchSize, auto, automaticPaused,
                 queue, state, barrier, remote, emitted, accepted, admissionFailure>>

FlushCall(c) ==
  /\ c \in Callers
  /\ life = "open"
  /\ caller[c] \in {"idle", "ok", "error"}
  /\ Call(c)
  /\ UNCHANGED life

\* session/disposed: retire starts the final drain.
Dispose ==
  /\ life = "open"
  /\ life' = "retiring"
  /\ Call(Retirer)

\* A failed retirement stays in the live map; backend teardown retries it.
TeardownFlush ==
  /\ life = "retiring"
  /\ caller[Retirer] = "error"
  /\ Call(Retirer)
  /\ UNCHANGED life

FlushInitFailed(c) ==
  /\ caller[c] = "init" /\ init = "failed"
  /\ caller' = [caller EXCEPT ![c] = "error"]
  /\ CancelWait
  /\ UNCHANGED <<active, background, activeBatchSize, auto, automaticPaused,
                 queue, session, state, barrier, mark, remote>>

\* Join the barrier in progress, or start one and run it to its first await.
Flush(c) ==
  /\ caller[c] = "init" /\ init = "ok"
  /\ IF barrier # "none"
     THEN /\ caller' = [caller EXCEPT ![c] = "barrier"]
          /\ UNCHANGED <<control, queue, barrier>>
     ELSE /\ automaticPaused' = FALSE
          /\ UNCHANGED auto
          /\ \/ /\ active # "none"
                /\ caller' = [caller EXCEPT ![c] = "barrier"]
                /\ barrier' = "overlap"
                /\ CancelWait
                /\ UNCHANGED <<active, background, activeBatchSize, queue>>
             \/ /\ active = "none" /\ pending # <<>>
                /\ caller' = [caller EXCEPT ![c] = "barrier"]
                /\ barrier' = "write"
                /\ StartWrite(FALSE)
             \/ /\ active = "none" /\ pending = <<>>
                /\ caller' = [caller EXCEPT ![c] = Verdict]
                /\ CancelWait
                /\ UNCHANGED <<active, background, activeBatchSize, queue, barrier>>
  /\ UNCHANGED <<session, state, mark, remote>>

\* The rest of drainBarrier.  continueAutomatic was queued on the overlapping
\* write before the barrier was, so it runs first.
BarrierResumes ==
  /\ barrier \in {"overlapped", "wrote"} /\ ~auto
  /\ automaticPaused' = (automaticPaused /\ barrier # "overlapped")
  /\ IF pending # <<>>
     THEN barrier' = "write" /\ StartWrite(FALSE) /\ UNCHANGED caller
     ELSE /\ barrier' = "none"
          /\ caller' = Joined(Verdict)
          /\ UNCHANGED <<queue, active, background, activeBatchSize, timer,
                         deadlineExpired>>
  /\ UNCHANGED <<auto, session, state, mark, remote>>

\* Mutant of BarrierFails: the callers that joined are never told.
BarrierFailsM ==
  /\ barrier = "failed"
  /\ barrier' = "none"
  /\ UNCHANGED <<control, queue, session, state, caller, mark, remote>>

BarrierFails ==
  /\ barrier = "failed"
  /\ barrier' = "none"
  /\ caller' = Joined("error")
  /\ UNCHANGED <<control, queue, session, state, mark, remote>>

\* Mutant of Release: the outcome of the final drain is not looked at.
ReleaseM ==
  /\ life = "retiring"
  /\ caller[Retirer] \in {"ok", "error"}
  /\ life' = "released"
  /\ UNCHANGED <<emitted, accepted, admissionFailure, control, queue, state,
                 flushes, remote>>

\* retireCore after its flush: the live controller and its state are dropped.
Release ==
  /\ life = "retiring"
  /\ caller[Retirer] = "ok"
  /\ life' = "released"
  /\ UNCHANGED <<emitted, accepted, admissionFailure, control, queue, state,
                 flushes, remote>>

----------------------------------------------------------------------------

Init ==
  /\ seed \in 0..MaxSeed
  /\ draft \in BOOLEAN
  /\ \E stored \in 0..seed : store = Run(0, stored) /\ (draft => stored = 0)
  /\ emitted = seed /\ accepted = seed
  /\ pending = <<>> /\ batch = <<>>
  /\ active = "none" /\ background = FALSE /\ activeBatchSize = 0
  /\ timer = FALSE /\ auto = FALSE /\ barrier = "none"
  /\ deadlineExpired = FALSE /\ automaticPaused = FALSE /\ admissionFailure = FALSE
  /\ init = "pending" /\ cursor = 0 /\ deferred = <<>> /\ materialized = FALSE
  /\ life = "open"
  /\ caller = [c \in FlushCallers |-> "idle"]
  /\ mark = [c \in FlushCallers |-> 0]
  /\ batches = {} /\ stray = {}

Settle == InitSucceeds \/ InitFails
Backend == BackendCommits \/ BackendFails \/ BackendTimesOut
Microtask ==
  \/ WriteBegins \/ WriteCaught \/ WriteSettles
  \/ ContinueAutomatic \/ BarrierResumes \/ BarrierFails
  \/ \E c \in FlushCallers : FlushInitFailed(c) \/ Flush(c)

Next ==
  \/ Enqueue \/ EnqueueRefused
  \/ \E c \in Callers : FlushCall(c)
  \/ Dispose \/ TeardownFlush \/ Release
  \/ Settle \/ Backend \/ Microtask \/ OnDeadline
  \/ \E events \in stray : StrayLands(events) \/ StrayLost(events)

\* The runtime runs queued jobs and armed timers, and a backend call settles.
Fairness ==
  /\ WF_vars(Settle) /\ WF_vars(Backend) /\ WF_vars(OnDeadline)
  /\ WF_vars(WriteBegins) /\ WF_vars(WriteCaught) /\ WF_vars(WriteSettles)
  /\ WF_vars(ContinueAutomatic) /\ WF_vars(BarrierResumes) /\ WF_vars(BarrierFails)
  /\ \A c \in FlushCallers : WF_vars(FlushInitFailed(c) \/ Flush(c))

Spec == Init /\ [][Next]_vars
FairSpec == Spec /\ Fairness

----------------------------------------------------------------------------
\* Properties

TypeQueue ==
  /\ emitted \in Nat /\ accepted \in Nat /\ seed \in Nat /\ cursor \in Nat
  /\ pending \in Seq(Nat) /\ batch \in Seq(Nat) /\ deferred \in Seq(Nat)
  /\ activeBatchSize \in Nat
TypeStore ==
  /\ store \in Seq(Nat)
  /\ batches \subseteq Seq(Nat) /\ stray \subseteq Seq(Nat)
TypeStages ==
  /\ active \in WriteStages /\ barrier \in BarrierStages
  /\ init \in {"pending", "ok", "failed"}
  /\ life \in {"open", "retiring", "released"}
TypeCallers ==
  /\ caller \in [FlushCallers -> CallerStages]
  /\ mark \in [FlushCallers -> Nat]
TypeFlags ==
  /\ background \in BOOLEAN /\ timer \in BOOLEAN /\ auto \in BOOLEAN
  /\ deadlineExpired \in BOOLEAN /\ automaticPaused \in BOOLEAN
  /\ admissionFailure \in BOOLEAN /\ materialized \in BOOLEAN /\ draft \in BOOLEAN

\* Every variable has its type.
TypeOK == TypeQueue /\ TypeStore /\ TypeStages /\ TypeCallers /\ TypeFlags

\* The batch is owed to the log: spliced out of the queue, not yet durable and
\* not yet put back.
InFlight == active \in {"queued", "writing", "rejected"}
Held == IF InFlight THEN batch ELSE <<>>

IsRun(s, from) == \A i \in DOMAIN s : s[i] = from + i - 1

\* What initialization has taken over of the seed and the log together.
Taken == IF init = "ok" THEN cursor + Len(deferred) ELSE seed

\* No accepted event is lost, duplicated or reordered between the queue, the
\* write in progress, the deferred draft prefix and the cursor, whatever
\* writes fail and whatever arrives meanwhile (startWrite's splice and catch,
\* appendCore's cursor).
Conservation ==
  /\ init = "ok" => IsRun(deferred, cursor)
  /\ IsRun(Held, Taken)
  /\ IsRun(pending, Taken + Len(Held))
  /\ accepted = Taken + Len(Held) + Len(pending)

\* The durable log is the session's own events, in order, without a gap or a
\* repetition, and covers the cursor -- also when requests the caller gave up
\* on are executed later (ConversationRepository.append).
StoreInOrder ==
  /\ IsRun(store, 0)
  /\ Len(store) <= accepted
  /\ cursor <= Len(store)

\* A draft with nothing worth keeping among its first n events may stay in
\* memory; everything else must be in the store.
Covered(n) ==
  \/ n <= Len(store)
  \/ draft /\ \A e \in Materializing : e >= n

\* A flush that resolved has made every event emitted before the call
\* durable: a refused event is never hidden behind a successful barrier.
FlushIsDurable == \A c \in FlushCallers : caller[c] = "ok" => Covered(mark[c])

\* A queued event always has someone to write it: an armed timer, a write or
\* a barrier in progress, a flush that waits for initialization -- or the
\* automatic path is paused by a reported failure, or initialization failed.
NoStranding ==
  pending # <<>> =>
    \/ timer \/ active # "none" \/ barrier # "none"
    \/ auto /\ deadlineExpired
    \/ automaticPaused \/ init = "failed"
    \/ \E c \in FlushCallers : caller[c] = "init"

\* Queue and write together never hold more than maxPendingEvents.
CapacityBound == Len(pending) + Len(Held) <= MaxPending

\* The controller of a disposed session is dropped only when nothing is owed:
\* the last event of the session is durable and no write is under way.
ReleaseIsDurable ==
  life = "released" =>
    /\ pending = <<>> /\ active = "none" /\ ~admissionFailure
    /\ Covered(emitted)

----------------------------------------------------------------------------
\* The inductive invariant: what the safety properties rest on

\* Where the batch and its retained count are, at every stage of a write.
WriteInv ==
  /\ ~InFlight /\ active # "resolved" => batch = <<>> /\ activeBatchSize = 0
  /\ InFlight => batch # <<>> /\ activeBatchSize = Len(batch)
  /\ active = "writing" => init = "ok" /\ ~(draft /\ ~materialized /\ ~Materializes(batch))
  /\ timer => pending # <<>>

\* Who may be awaiting a write: the barrier, or a queued continuation.
BarrierInv ==
  /\ barrier # "none" => init = "ok"
  /\ barrier = "write" => active # "none"
  /\ barrier \in {"overlapped", "wrote", "failed"} => active = "none"
  /\ auto => \/ active = "none"
             \/ active = "queued" /\ barrier = "write"

\* Only a draft defers, and never an event that materializes it.
DraftInv ==
  /\ init = "pending" => cursor = 0 /\ deferred = <<>> /\ stray = {}
  /\ init = "pending" => ~materialized /\ Len(store) <= seed
  /\ draft /\ init = "pending" => store = <<>>
  /\ deferred # <<>> => draft /\ ~materialized /\ ~Materializes(deferred)
  /\ ~materialized => cursor = 0

\* A request the store may still execute, or already has, carries events the
\* session handed over, in order.
Ordered(events) ==
  /\ events # <<>>
  /\ IsRun(events, events[1])
RemoteInv ==
  /\ \A events \in stray : Ordered(events) /\ events[1] + Len(events) <= accepted
  /\ \A events \in batches : Ordered(events) /\ events[1] + Len(events) <= Len(store)

\* A refused event stays missing, and a call is marked with what it saw.
AdmissionInv ==
  /\ accepted <= emitted
  /\ ~admissionFailure => accepted = emitted
  /\ \A c \in FlushCallers : mark[c] <= emitted

\* Nothing happens to a session after its final drain succeeded.
RetireInv ==
  /\ life = "open" => caller[Retirer] = "idle"
  /\ life # "open" => mark[Retirer] = emitted
  /\ life = "released" => caller[Retirer] = "ok"
  /\ caller[Retirer] = "ok" => pending = <<>> /\ active = "none" /\ ~admissionFailure

SafeInv ==
  /\ Conservation /\ StoreInOrder /\ FlushIsDurable /\ CapacityBound
  /\ WriteInv /\ BarrierInv /\ DraftInv /\ RemoteInv /\ AdmissionInv /\ RetireInv

\* The conjunction that every step preserves: the safety properties of the
\* controller and the facts they rest on.
IndInv == TypeOK /\ SafeInv

----------------------------------------------------------------------------

\* A write never starts while another is in progress: timer, barrier and
\* continuation never run two backend writes of a session at once.
OneWriter == [][active' = "queued" /\ batch' # batch => active = "none"]_vars

\* Accepted events are written without anyone asking, unless a failure was
\* reported or initialization failed.
Drains == pending # <<>> ~> (pending = <<>> \/ automaticPaused \/ init = "failed")

\* Every flush settles, also one that joined a barrier.
FlushSettles ==
  \A c \in FlushCallers :
    caller[c] \in {"init", "barrier"} ~> caller[c] \in {"ok", "error"}

\* A retried write is never refused by the store: "Gateway/PostgreSQL
\* deduplication makes a retry idempotent".
RetryIsIdempotent == active = "writing" => Accepts(durableEvents)

----------------------------------------------------------------------------
\* What the flush callers see of the controller.
Request(stage) ==
  CASE stage = "idle" -> "none"
    [] stage \in {"init", "barrier"} -> "wait"
    [] OTHER -> stage

Log == INSTANCE DurableLog WITH
  Callers <- FlushCallers,
  issued <- emitted,
  intact <- accepted,
  durable <- Len(store),
  request <- [c \in FlushCallers |-> Request(caller[c])]

\* The write-behind controller, the coordinator and the store together keep
\* the promise of DurableLog.
ImplementsDurableLog == Log!Spec

=============================================================================
