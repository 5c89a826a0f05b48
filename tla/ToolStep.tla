------------------------------- MODULE ToolStep -------------------------------
(***************************************************************************)
(* The steps of one turn and their tool calls: the scheduler               *)
(* (agent-loop/src/tool-calls.ts), the staged tool runtime it drives       *)
(* (tools/src/index.ts), the durability checkpoints before a request and   *)
(* before a tool body (session-checkpoint-policy), the recovery of a       *)
(* failed step (agent.ts, turn) and, after a crash, the repair of the      *)
(* stored log.                                                             *)
(*                                                                         *)
(* An action is the code between two awaits.  Checkpoints and tool bodies  *)
(* settle at any time; the scheduler sees it when it next races.           *)
(***************************************************************************)
EXTENDS Integers, Sequences, FiniteSets, TurnRepair

CONSTANTS
  MaxCalls,      \* bound: tool calls of one assistant message
  MaxSteps,      \* bound: steps of the turn
  maxParallelToolCalls

ASSUME ToolStepAssumption ==
  /\ MaxCalls \in Nat \ {0} /\ MaxSteps \in Nat \ {0}
  /\ maxParallelToolCalls \in Nat \ {0}

VARIABLES
  log,           \* the session's events of this turn
  durable,       \* how many of them the last flush made durable, at least
  pc,            \* where the step is
  step, planned, \* the step's number and its count of calls
  next,          \* executeToolCalls: calls consumed by earlier groups
  mode, groupEnd,           \* of the current group
  nextToStart, committed,   \* calls started / committed, from the step's first
  slots,         \* results not committed yet, None without one
  inFlight,      \* dispatched, not yet raced
  flushing,      \* dispatched, in the checkpoint before the body
  running,       \* bodies that have not settled
  dispatched,    \* history: calls whose body was invoked
  exclusive,     \* history: calls started as exclusive
  shown,         \* history: calls whose result a model request carried
  signal,        \* signal.aborted
  aborted,       \* runGroup's view of it
  schedulerFailure

group == <<next, mode, groupEnd, nextToStart, aborted>>
bodies == <<flushing, running, dispatched>>
pool == <<slots, inFlight, exclusive, bodies>>
turn == <<step, planned, shown, signal>>
vars == <<log, durable, pc, turn, group, committed, pool, schedulerFailure>>

None == "none"
Failed == "error"
Aborted == "ABORTED"

Call(k) == <<step, k>>
CallEvent(k) == Event("tool/call", Call(k), "")
ResultEvent(k, note) == Event("tool/result", Call(k), note)
Write(events) == log' = log \o events

\* sessions.flush resolved: the first n events are durable.
Flushed(n) == durable' = IF n > durable THEN n ELSE durable

\* Mutant of RequestCheckpoint: the request does not wait for the store.
RequestCheckpointM == UNCHANGED durable

\* Everything logged before a step and before its request.
RequestCheckpoint == Flushed(Len(log))

----------------------------------------------------------------------------
\* The step around the scheduler

\* The pre-step checkpoint and step/start.
StepStarts ==
  /\ pc = "between" /\ step < MaxSteps /\ ~signal
  /\ RequestCheckpoint
  /\ Write(<<Event("step/start", <<step + 1, 0>>, "")>>)
  /\ step' = step + 1
  /\ pc' = "request"
  /\ UNCHANGED <<planned, shown, signal, group, committed, pool, schedulerFailure>>

\* The request's checkpoint; the adapter is called with every result so far.
AdapterCalled ==
  /\ pc = "request"
  /\ RequestCheckpoint
  /\ shown' = {log[i].id : i \in {j \in DOMAIN log : log[j].type = "tool/result"}}
  /\ pc' = "model"
  /\ UNCHANGED <<log, step, planned, signal, group, committed, pool, schedulerFailure>>

\* The checkpoint, the adapter or the stream failed, or the signal fired.
RequestFails ==
  /\ pc \in {"request", "model"}
  /\ pc' = "failed"
  /\ UNCHANGED <<log, durable, turn, group, committed, pool, schedulerFailure>>

\* What executeToolCalls and runGroup start from.
FirstGroup ==
  /\ next' = 0 /\ nextToStart' = 0 /\ committed' = 0
  /\ slots' = [k \in 1..MaxCalls |-> None] /\ exclusive' = {}

\* The model's reply, and executeToolCalls up to its first group.
ModelReplies(n) ==
  /\ pc = "model" /\ ~signal
  /\ planned' = n
  /\ Write(<<Event("assistant/message", <<step, n>>, "")>>)
  /\ pc' = "group"
  /\ FirstGroup
  /\ UNCHANGED <<durable, step, shown, signal, mode, groupEnd, aborted, inFlight,
                 bodies, schedulerFailure>>

StepReturns ==
  /\ pc = "returned"
  /\ Write(<<Event("step/end", <<step, 0>>, "")>>)
  /\ pc' = "between"
  /\ UNCHANGED <<durable, turn, group, committed, pool, schedulerFailure>>

\* turn's catch and finally: the recovered results, step/end and turn/end.
StepFails ==
  /\ pc = "failed"
  /\ Write(Results(Scan(log)) \o <<Event("step/end", <<step, 0>>, ""),
                                   Event("turn/end", <<0, 0>>, "error")>>)
  /\ pc' = "closed"
  /\ UNCHANGED <<durable, turn, group, committed, pool, schedulerFailure>>

TurnEnds ==
  /\ pc = "between"
  /\ Write(<<Event("turn/end", <<0, 0>>, "")>>)
  /\ pc' = "closed"
  /\ UNCHANGED <<durable, turn, group, committed, pool, schedulerFailure>>

Abort ==
  /\ ~signal /\ pc \notin {"closed", "repaired"}
  /\ signal' = TRUE
  /\ UNCHANGED <<log, durable, pc, step, planned, shown, group, committed, pool,
                 schedulerFailure>>

----------------------------------------------------------------------------
\* executeToolCalls and runGroup

\* The next group, by the live mode of its first call.
GroupStarts(m) ==
  /\ pc = "group" /\ next < planned
  /\ mode' = m
  /\ groupEnd' = IF m = "parallel" THEN planned ELSE next + 1
  /\ aborted' = signal
  /\ pc' = "fill"
  /\ UNCHANGED <<log, durable, turn, next, nextToStart, committed, pool, schedulerFailure>>

GroupsDone ==
  /\ pc = "group" /\ next = planned
  /\ pc' = "returned"
  /\ UNCHANGED <<log, durable, turn, group, committed, pool, schedulerFailure>>

Room == Cardinality(inFlight) < maxParallelToolCalls
MayStart == ~aborted /\ nextToStart < groupEnd /\ Room

\* Mutant of Reclassified: later calls keep the mode of the group.
ReclassifiedM(m) == TRUE

\* A later call of a parallel group must still be parallel now.
Reclassified(m) ==
  nextToStart > next /\ mode = "parallel" => m = "parallel"

\* fillPool: startCall up to its await of prepare.  m is the mode the
\* registry reports now; the first call starts as it was classified.
CallStarts(m) ==
  /\ pc = "fill" /\ MayStart /\ Reclassified(m)
  /\ nextToStart = next => m = mode
  /\ Write(<<CallEvent(nextToStart + 1)>>)
  /\ exclusive' = IF m = "exclusive" THEN exclusive \cup {nextToStart + 1} ELSE exclusive
  /\ pc' = "prepare"
  /\ UNCHANGED <<durable, turn, group, committed, slots, inFlight, bodies,
                 schedulerFailure>>

\* The pool is filled, or the next call is a barrier.
FillEnds(m) ==
  /\ pc = "fill"
  /\ ~(MayStart /\ Reclassified(m))
  /\ pc' = IF inFlight = {} THEN "finish" ELSE "race"
  /\ UNCHANGED <<log, durable, turn, group, committed, pool, schedulerFailure>>

\* Mutant of Ready: results are committed as they settle.
ReadyM == {c \in 1..MaxCalls : slots[c] # None}

\* The call commitReady may commit: the next in model order, once settled.
Ready == {c \in {committed + 1} \cap 1..MaxCalls : slots[c] # None}

\* prepare's policy let the call through, refused it or saw it cancelled.
Prepared(decision) ==
  /\ pc = "prepare" /\ ~schedulerFailure
  /\ decision = "dispatch" => ~signal
  /\ LET c == nextToStart + 1
     IN IF decision = "dispatch"
        THEN /\ inFlight' = inFlight \cup {c} /\ flushing' = flushing \cup {c}
             /\ UNCHANGED slots
        ELSE slots' = [slots EXCEPT ![c] = decision] /\ UNCHANGED <<inFlight, flushing>>
  /\ nextToStart' = nextToStart + 1
  /\ pc' = "commit"
  /\ UNCHANGED <<log, durable, turn, next, mode, groupEnd, aborted, committed, exclusive,
                 running, dispatched, schedulerFailure>>

\* prepare or a commit threw, or a dispatch failed meanwhile.
SchedulerThrows ==
  /\ \/ pc = "prepare"
     \/ pc = "commit" /\ (schedulerFailure \/ Ready # {})
  /\ schedulerFailure' = TRUE
  /\ pc' = "drain"
  /\ UNCHANGED <<log, durable, turn, group, committed, pool>>

\* Mutant of Cancelled: every cancelled call counts as never dispatched.
CancelledM(c) == Skipped

\* cancellationResult: by whether the tool body was invoked.
Cancelled(c) == IF Call(c) \in dispatched THEN Aborted ELSE Skipped

\* A successful result of a cancelled caller is replaced.
Outcome(c, result) == IF signal /\ result = Ok THEN Cancelled(c) ELSE result

\* finalize or finish, and the append of the result.
Commits(c, blocked) ==
  /\ pc = "commit" /\ c \in Ready
  /\ Write(<<ResultEvent(c, IF blocked THEN Failed ELSE Outcome(c, slots[c]))>>)
  /\ committed' = committed + 1
  /\ slots' = [slots EXCEPT ![c] = None]
  /\ UNCHANGED <<durable, pc, turn, group, inFlight, exclusive, bodies, schedulerFailure>>

\* Nothing to commit: look at the signal and refill.
CommitEnds ==
  /\ pc = "commit" /\ Ready = {} /\ ~schedulerFailure
  /\ aborted' = (aborted \/ signal)
  /\ pc' = "fill"
  /\ UNCHANGED <<log, durable, turn, next, mode, groupEnd, nextToStart, committed, pool,
                 schedulerFailure>>

\* The checkpoint of c settled; its call is durable if it succeeded.  The
\* body is invoked unless the flush failed or the caller cancelled.
CheckpointSettles(c, flushed) ==
  /\ c \in flushing /\ pc # "repaired"
  /\ flushing' = flushing \ {c}
  /\ IF flushed THEN Flushed(CHOOSE i \in DOMAIN log : log[i] = CallEvent(c))
     ELSE UNCHANGED durable
  /\ IF flushed /\ ~signal
     THEN /\ running' = running \cup {c} /\ dispatched' = dispatched \cup {Call(c)}
          /\ UNCHANGED slots
     ELSE /\ slots' = [slots EXCEPT ![c] = IF flushed THEN Skipped ELSE Failed]
          /\ UNCHANGED <<running, dispatched>>
  /\ UNCHANGED <<log, pc, turn, group, committed, inFlight, exclusive, schedulerFailure>>

\* Another tools/execute listener answers for the body.
WrapperAnswers(c) ==
  /\ c \in flushing /\ pc # "repaired"
  /\ flushing' = flushing \ {c}
  /\ slots' = [slots EXCEPT ![c] = Outcome(c, Ok)]
  /\ UNCHANGED <<log, durable, pc, turn, group, committed, inFlight, exclusive, running,
                 dispatched, schedulerFailure>>

BodySettles(c, result) ==
  /\ c \in running /\ pc # "repaired"
  /\ running' = running \ {c}
  /\ slots' = [slots EXCEPT ![c] = Outcome(c, result)]
  /\ UNCHANGED <<log, durable, pc, turn, group, committed, inFlight, exclusive, flushing,
                 dispatched, schedulerFailure>>

\* dispatch rejected: an invariant of the runtime failed after the body.
DispatchRejects(c) ==
  /\ c \in running /\ pc # "repaired"
  /\ running' = running \ {c}
  /\ schedulerFailure' = TRUE
  /\ UNCHANGED <<log, durable, pc, turn, group, committed, slots, inFlight, exclusive,
                 flushing, dispatched>>

\* Mutant of RaceSettles: a settled dispatch stays in the pool.
RaceSettlesM(c) ==
  /\ pc = "race" /\ c \in inFlight \ (flushing \cup running)
  /\ pc' = IF schedulerFailure THEN "drain" ELSE "commit"
  /\ UNCHANGED <<log, durable, turn, group, committed, pool, schedulerFailure>>

RaceSettles(c) ==
  /\ pc = "race" /\ c \in inFlight \ (flushing \cup running)
  /\ inFlight' = inFlight \ {c}
  /\ pc' = IF schedulerFailure THEN "drain" ELSE "commit"
  /\ UNCHANGED <<log, durable, turn, group, committed, slots, exclusive, bodies,
                 schedulerFailure>>

\* Mutant of Drains: the failure is thrown over running bodies.
DrainsM == TRUE

\* Promise.allSettled of what is in flight.
Drains == flushing \cup running = {}

Drain ==
  /\ pc = "drain"
  /\ Drains
  /\ pc' = "failed"
  /\ inFlight' = {}
  /\ UNCHANGED <<log, durable, turn, group, committed, slots, exclusive, bodies,
                 schedulerFailure>>

\* Mutant of SkippedPairs: the calls after the group get no result.
SkippedPairsM ==
  [i \in 1..(2 * (groupEnd - nextToStart)) |->
     LET k == nextToStart + (i + 1) \div 2
     IN IF i % 2 = 1 THEN CallEvent(k) ELSE ResultEvent(k, Skipped)]

\* A call/result pair for every call that was not started.
SkippedPairs ==
  [i \in 1..(2 * (planned - nextToStart)) |->
     LET k == nextToStart + (i + 1) \div 2
     IN IF i % 2 = 1 THEN CallEvent(k) ELSE ResultEvent(k, Skipped)]

GroupEnds ==
  /\ pc = "finish"
  /\ IF aborted THEN Write(SkippedPairs) /\ pc' = "returned" /\ UNCHANGED next
     ELSE next' = nextToStart /\ pc' = "group" /\ UNCHANGED log
  /\ UNCHANGED <<durable, turn, mode, groupEnd, nextToStart, aborted, committed, pool,
                 schedulerFailure>>

----------------------------------------------------------------------------
\* A crash keeps the durable events and perhaps more of the write-behind
\* queue; loading the log appends the closers.
Crash(kept) ==
  /\ pc # "repaired" /\ kept >= durable
  /\ LET stored == SubSeq(log, 1, kept) IN
       /\ log' = stored \o Closers(stored)
       /\ durable' = Len(log')
  /\ pc' = "repaired"
  /\ UNCHANGED <<turn, group, committed, pool, schedulerFailure>>

Init ==
  /\ log = <<Event("turn/start", <<0, 0>>, "")>> /\ durable = 1 /\ pc = "between"
  /\ step = 0 /\ planned = 0 /\ next = 0 /\ mode = "parallel" /\ groupEnd = 0
  /\ nextToStart = 0 /\ committed = 0 /\ slots = [k \in 1..MaxCalls |-> None]
  /\ inFlight = {} /\ flushing = {} /\ running = {} /\ dispatched = {} /\ exclusive = {}
  /\ shown = {} /\ signal = FALSE /\ aborted = FALSE /\ schedulerFailure = FALSE

Modes == {"parallel", "exclusive"}
Scheduler ==
  \/ \E m \in Modes : GroupStarts(m) \/ CallStarts(m) \/ FillEnds(m)
  \/ GroupsDone \/ GroupEnds \/ SchedulerThrows \/ CommitEnds \/ Drain
  \/ \E decision \in {"dispatch", Failed, Skipped} : Prepared(decision)
  \/ \E c \in 1..MaxCalls : RaceSettles(c) \/ \E blocked \in BOOLEAN : Commits(c, blocked)
Dispatches ==
  \E c \in 1..MaxCalls :
    \/ \E flushed \in BOOLEAN : CheckpointSettles(c, flushed)
    \/ WrapperAnswers(c) \/ DispatchRejects(c)
    \/ \E result \in {Ok, Failed} : BodySettles(c, result)
Turn ==
  \/ StepStarts \/ AdapterCalled \/ RequestFails \/ StepReturns \/ StepFails \/ TurnEnds
  \/ \E n \in 0..MaxCalls : ModelReplies(n)

Next ==
  \/ Turn \/ Abort \/ Scheduler \/ Dispatches
  \/ \E kept \in 1..Len(log) : Crash(kept)

\* Queued jobs run; every request, checkpoint and tool body settles.
Fairness == WF_vars(Turn) /\ WF_vars(Scheduler) /\ WF_vars(Dispatches)

Spec == Init /\ [][Next]_vars
FairSpec == Spec /\ Fairness

----------------------------------------------------------------------------
\* Properties

TypeStep ==
  /\ pc \in {"between", "request", "model", "group", "fill", "prepare", "commit",
             "race", "drain", "finish", "returned", "failed", "closed", "repaired"}
  /\ step \in 0..MaxSteps /\ planned \in 0..MaxCalls
  /\ next \in 0..planned /\ nextToStart \in 0..planned /\ committed \in 0..nextToStart
  /\ mode \in Modes /\ groupEnd \in 0..MaxCalls
TypePool ==
  /\ slots \in [1..MaxCalls -> {None, Ok, Failed, Aborted, Skipped}]
  /\ inFlight \subseteq 1..MaxCalls
  /\ flushing \subseteq inFlight /\ running \subseteq inFlight /\ exclusive \subseteq 1..MaxCalls
TypeHistory ==
  /\ durable \in 1..Len(log)
  /\ dispatched \subseteq (1..MaxSteps) \X (1..MaxCalls)
  /\ shown \subseteq (1..MaxSteps) \X (1..MaxCalls)
TypeFlags == signal \in BOOLEAN /\ aborted \in BOOLEAN /\ schedulerFailure \in BOOLEAN

\* Every variable has its type.
TypeOK == TypeStep /\ TypePool /\ TypeHistory /\ TypeFlags

Positions(type) == {i \in DOMAIN log : log[i].type = type}
ResultsOf(call) == {i \in Positions("tool/result") : log[i].id = call}

\* Once a step is closed -- by return, abort, failure or the repair of what a
\* crash left -- every request of its assistant message has exactly one
\* result, inside the step: a provider rejects a dangling request.
EveryCallAnswered ==
  pc \in {"between", "closed", "repaired"} =>
    \A a \in Positions("assistant/message") : \A k \in 1..log[a].id[2] :
      \E r \in ResultsOf(<<log[a].id[1], k>>) :
        /\ ResultsOf(<<log[a].id[1], k>>) = {r}
        /\ a < r
        /\ \A e \in Positions("step/end") : log[e].id[1] = log[a].id[1] => r < e

\* Results are logged in model order whatever order the bodies settle in,
\* the skipped and the recovered ones included.
ResultsInModelOrder ==
  \A i, j \in Positions("tool/result") :
    i < j =>
      \/ log[i].id[1] < log[j].id[1]
      \/ log[i].id[1] = log[j].id[1] /\ log[i].id[2] < log[j].id[2]

\* A closed turn is balanced: repair leaves nothing to repair, and its
\* boundaries nest.
Balanced ==
  pc \in {"closed", "repaired"} =>
    /\ Closers(log) = <<>>
    /\ Cardinality(Positions("turn/end")) = 1 /\ log[Len(log)].type = "turn/end"
    /\ Cardinality(Positions("step/start")) = Cardinality(Positions("step/end"))

\* At most maxParallelToolCalls bodies overlap.
PoolBounded == Cardinality(running) <= maxParallelToolCalls

\* A call that is exclusive when it starts runs alone, also when the registry
\* changed its mode after the group was formed.
ExclusiveAlone == \A c \in running \cap exclusive : running = {c}

\* A step ends, also by a scheduler failure, only after every body it
\* dispatched has settled.
NoOrphanBody ==
  pc \in {"returned", "failed", "between", "closed"} => flushing \cup running = {}

\* runGroup's own assertion "uncommitted settled calls" is unreachable, also
\* when the group was aborted.
GroupDrained ==
  pc = "finish" => committed = nextToStart /\ \A c \in 1..MaxCalls : slots[c] = None

\* What the scheduler keeps between its awaits: types, the size of the pool,
\* and nothing left running or uncommitted behind a step or a group.
SchedulerSafe == TypeOK /\ PoolBounded /\ NoOrphanBody /\ GroupDrained

\* The codes of results tell the truth about the body, also those that repair
\* adds to what a crash left of the log: not started and aborted before
\* dispatch mean that it never ran, aborted means that it did.
CodesTellTheTruth ==
  \A r \in Positions("tool/result") :
    /\ log[r].note \in {NotStarted, Skipped} => log[r].id \notin dispatched
    /\ log[r].note = Aborted => log[r].id \in dispatched

\* A result that a model request carried is in the log with its outcome,
\* whatever crash follows: the model is never told later that it is unknown.
ShownResultsSurvive ==
  \A c \in shown : \E r \in ResultsOf(c) : log[r].note \notin {Unknown, NotStarted}

\* A step with tool calls always ends.
StepSettles == pc = "group" ~> pc \in {"between", "closed", "repaired"}

=============================================================================
