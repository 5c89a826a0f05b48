------------------------------ MODULE AgentDriver ------------------------------
(***************************************************************************)
(* One agent of the loop (agent-loop/src/agent.ts) with its inbox          *)
(* (inbox.ts): the driver that runs turns and steps, waking and parking of *)
(* queued input, cancellation, maintenance, whenIdle and disposal          *)
(* (index.ts, teardown).                                                   *)
(*                                                                         *)
(* JavaScript runs one job at a time, but every session event and status   *)
(* change calls its observers synchronously and an observer may call any   *)
(* operation of the agent.  So an action is a stretch of code between two  *)
(* awaits or emissions, and operations come between any two of them.  The  *)
(* two stretches that must finish before any other job are guarded: the    *)
(* rest of a send (sending) and of a driver's exit (epilogue).  A phase    *)
(* change emits only when the visible status changes, and maintenance      *)
(* shows as idle: its end is one stretch with the replay.  The observers   *)
(* of inbox.clear's own splices call nothing back.                         *)
(***************************************************************************)
EXTENDS Integers, Sequences, FiniteSets

CONSTANTS
  Messages,      \* identified user messages, each sent at most once
  Reentrant,     \* "turn/end": its observers may cancel or dispose;
                 \* "inserted": those of a waking send's splice may dispose;
                 \* "idle": those of the idle status that kick publishes with a
                 \* latched wake in hand, and "claim": those of the first splice
                 \* of a claim, may cancel and keep the inbox
  Rewrites       \* a pre-step listener may rewrite a claimed batch to empty

ASSUME AgentDriverAssumption ==
  /\ Reentrant \subseteq {"turn/end", "inserted", "idle", "claim"}
  /\ Rewrites \in BOOLEAN /\ IsFiniteSet(Messages)

VARIABLES
  phase,           \* Phase.kind
  abort,           \* phase.abort.signal: live, or the cause it was aborted with
  wakeRequested,   \* phase.wakeRequested
  pendingWakes,    \* this.pendingWakes
  nextTurn, nextStep,   \* the inbox projection
  pc,              \* where the driver (kick, turn) is
  first,           \* phase.step = 0
  batch,           \* the messages claimed for the proposed step
  turnEnds,        \* turn(): the ending found so far
  exit,            \* how turn() is being left
  epilogue,        \* kick's finally: idle is published, the rewake test is not done
  sending,         \* a waking send between its splice and wakeDriver
  closed,          \* admissionClosed
  hostClosing,     \* the initiator scope of ctx.agents is closing
  life,            \* lifecycle of the agent: live, disposing, detached
  waiter,          \* a whenIdle call: none, waiting, returned
  current,         \* the promise it awaits is still this.activityDone
  done,            \* this.activityDone has settled
  open,            \* the log: nothing, a turn, or a step is open
  sent,            \* messages sent so far
  claimed,         \* history: messages the driver claimed
  prompts,         \* history: next-turn messages claimed by the current turn
  owed,            \* history: messages whose wake is still owed a turn
  parked           \* history: kept by a cancel, no wake since

inbox == <<nextTurn, nextStep>>
waiting == <<waiter, current>>
turnState == <<first, batch, turnEnds, exit, open>>
history == <<sent, claimed, prompts, owed, parked>>
ends == <<closed, hostClosing, life>>
vars == <<phase, abort, wakeRequested, pendingWakes, inbox, pc, turnState,
          epilogue, sending, ends, waiting, done, history>>

Elems(s) == {s[i] : i \in DOMAIN s}
Pending == Elems(nextTurn) \cup Elems(nextStep)
HasPending == Pending # {}

\* splice(index, 1) where locate finds m.
Spliced(s, k) == [i \in 1..(Len(s) - 1) |-> IF i < k THEN s[i] ELSE s[i + 1]]
Without(s, m) ==
  IF m \in Elems(s) THEN Spliced(s, CHOOSE k \in DOMAIN s : s[k] = m) ELSE s

\* No synchronous stretch is unfinished: queued jobs may run.
JobBoundary == sending = "none" /\ epilogue = "none"

\* A turn that went through appended its turn/end and has not looked at the
\* queue: only observers of turn/end run here.
Closing == pc = "ended" /\ exit = "break"

----------------------------------------------------------------------------
\* wakeDriver

\* A new driver in a fresh running phase, unless withInitiator throws.
StartDriver ==
  /\ current' = FALSE
  /\ wakeRequested' = FALSE
  /\ abort' = "live"
  /\ IF hostClosing
     THEN phase' = "idle" /\ done' = TRUE /\ UNCHANGED <<pc, first, prompts>>
     ELSE /\ phase' = "running" /\ done' = FALSE
          /\ pc' = "start" /\ first' = TRUE /\ prompts' = {}

\* Maintenance and an aborted driver cannot deliver the wake.
Latches(afterAbort) ==
  /\ abort # "disposed"
  /\ phase = "maintenance" \/ afterAbort

WakeDriver(afterAbort) ==
  IF phase = "idle" THEN StartDriver
  ELSE /\ wakeRequested' = (wakeRequested \/ Latches(afterAbort))
       /\ UNCHANGED <<phase, abort, pc, first, prompts, current, done>>

----------------------------------------------------------------------------
\* send, cancel and the inbox, called by clients, jobs and observers

\* Waking input sent to an aborted activity starts the next turn.
Send(m, target) ==
  LET afterAbort == phase # "idle" /\ abort # "live"
  IN
  /\ m \notin sent /\ ~closed /\ life = "live" /\ sending = "none"
  /\ pendingWakes' = pendingWakes \cup {m}
  /\ IF target = "next-turn" \/ afterAbort
     THEN nextTurn' = Append(nextTurn, m) /\ UNCHANGED nextStep
     ELSE nextStep' = Append(nextStep, m) /\ UNCHANGED nextTurn
  /\ sending' = IF afterAbort THEN "afterAbort" ELSE "plain"
  /\ sent' = sent \cup {m}
  /\ owed' = owed \cup {m}
  /\ UNCHANGED <<phase, abort, wakeRequested, pc, turnState, epilogue, ends,
                 waiting, done, claimed, prompts, parked>>

\* The rest of a waking send, after the observers of its splice. Unless the
\* wake is dropped, parked input is woken with it.
SendWakes ==
  LET dropped == phase # "idle" /\ abort # "live" /\ ~Latches(sending = "afterAbort")
  IN
  /\ sending # "none"
  /\ sending' = "none"
  /\ WakeDriver(sending = "afterAbort")
  /\ parked' = IF dropped THEN parked ELSE {}
  /\ UNCHANGED <<pendingWakes, inbox, batch, turnEnds, exit, open, epilogue,
                 ends, waiter, sent, claimed, owed>>

\* inject, and the result context a tool call adds: no wake.
Inject(m) ==
  /\ m \notin sent /\ ~closed /\ life # "detached"
  /\ nextStep' = Append(nextStep, m)
  /\ sent' = sent \cup {m}
  /\ UNCHANGED <<phase, abort, wakeRequested, pendingWakes, nextTurn, pc,
                 turnState, epilogue, sending, ends, waiting, done, claimed,
                 prompts, owed, parked>>

\* inbox.remove by its owner: the discard ends the message's wake.
Remove(m) ==
  /\ m \in Pending /\ life # "detached"
  /\ nextTurn' = Without(nextTurn, m) /\ nextStep' = Without(nextStep, m)
  /\ pendingWakes' = pendingWakes \ {m}
  /\ owed' = owed \ {m}
  /\ UNCHANGED <<phase, abort, wakeRequested, pc, turnState, epilogue, sending,
                 ends, waiting, done, sent, claimed, prompts, parked>>

\* Mutant of CancelPhase: a latched wake survives the cancellation.
CancelPhaseM(cause) ==
  /\ abort' = IF phase # "idle" /\ abort = "live" THEN cause ELSE abort
  /\ UNCHANGED wakeRequested

\* The first cause wins; a latch of an earlier send is withdrawn.
CancelPhase(cause) ==
  /\ abort' = IF phase # "idle" /\ abort = "live" THEN cause ELSE abort
  /\ wakeRequested' = FALSE

CancelAgent(cause, keepInbox) ==
  /\ IF keepInbox
     THEN parked' = Pending /\ UNCHANGED inbox
     ELSE nextTurn' = <<>> /\ nextStep' = <<>> /\ parked' = {}
  /\ pendingWakes' = {} /\ owed' = {}
  /\ CancelPhase(cause)

Cancel(keepInbox) ==
  /\ life = "live" /\ (Closing => "turn/end" \in Reentrant)
  /\ keepInbox /\ epilogue = "latched" => "idle" \in Reentrant
  /\ keepInbox /\ pc = "claiming" => "claim" \in Reentrant
  /\ CancelAgent("user", keepInbox)
  /\ UNCHANGED <<phase, pc, turnState, epilogue, sending, ends, waiting, done,
                 sent, claimed, prompts>>

----------------------------------------------------------------------------
\* runMaintenance

\* Mutant of MaintenanceStarts: the active driver is not looked at.
MaintenanceStartsM ==
  /\ life = "live" /\ ~closed
  /\ phase # "maintenance"
  /\ phase' = "maintenance" /\ abort' = "live" /\ wakeRequested' = FALSE
  /\ done' = FALSE /\ current' = FALSE
  /\ UNCHANGED <<pendingWakes, inbox, pc, turnState, epilogue, sending, ends,
                 waiter, history>>

MaintenanceStarts ==
  /\ life = "live" /\ ~closed
  /\ phase = "idle"
  /\ phase' = "maintenance" /\ abort' = "live" /\ wakeRequested' = FALSE
  /\ done' = FALSE /\ current' = FALSE
  /\ UNCHANGED <<pendingWakes, inbox, pc, turnState, epilogue, sending, ends,
                 waiter, history>>

\* The job settled: idle, which the status already was, and the latched wake
\* is replayed.
MaintenanceEnds ==
  /\ phase = "maintenance" /\ JobBoundary
  /\ IF abort # "disposed" /\ wakeRequested /\ HasPending
     THEN StartDriver
     ELSE /\ phase' = "idle" /\ abort' = "live" /\ wakeRequested' = FALSE
          /\ done' = TRUE
          /\ UNCHANGED <<pc, first, prompts, current>>
  /\ UNCHANGED <<pendingWakes, inbox, batch, turnEnds, exit, open, epilogue,
                 sending, ends, waiter, sent, claimed, owed, parked>>

----------------------------------------------------------------------------
\* turn() and kick()

\* Out of the step loop; turn's finally appends turn/end in the same stretch.
Leave(how) == pc' = "ended" /\ open' = "none" /\ exit' = how

\* turn() up to its turn/start; an abort before it opens no turn.
TurnStarts ==
  /\ pc = "start" /\ sending = "none"
  /\ IF abort # "live"
     THEN pc' = "ended" /\ exit' = "throw" /\ UNCHANGED <<open, turnEnds>>
     ELSE pc' = "opened" /\ open' = "turn" /\ turnEnds' = "none" /\ UNCHANGED exit
  /\ UNCHANGED <<phase, abort, wakeRequested, pendingWakes, inbox, first, batch,
                 epilogue, sending, ends, waiting, done, history>>

\* Mutant of Steps: only the first step of a turn takes the steering.
StepsM == IF first THEN Elems(nextStep) ELSE {}

\* inbox.claim takes all next-step input, and one prompt for a turn's first step.
Steps == Elems(nextStep)
Prompt == IF first /\ nextTurn # <<>> THEN {Head(nextTurn)} ELSE {}

\* The first splice of a claim; its observers run before the second.
ClaimSteps ==
  /\ nextStep' = <<>>
  /\ owed' = owed \ Steps
  /\ claimed' = claimed \cup Steps
  /\ batch' = Steps
  /\ pc' = "claiming"
  /\ UNCHANGED <<nextTurn, pendingWakes, prompts>>

\* The second splice, whatever its observers did, and the claimed notices, which
\* end the wakes of the whole batch.
ClaimPrompt(steps) ==
  /\ nextTurn' = IF Prompt = {} THEN nextTurn ELSE Tail(nextTurn)
  /\ pendingWakes' = pendingWakes \ (steps \cup Prompt)
  /\ owed' = owed \ Prompt
  /\ claimed' = claimed \cup Prompt
  /\ prompts' = prompts \cup Prompt
  /\ batch' = steps \cup Prompt
  /\ pc' = "prestep"

\* The head of the step loop: preStep up to its first await, or to the first
\* splice of its claim.
StepProposed ==
  /\ pc = "opened" /\ sending = "none"
  /\ CASE abort # "live" ->
            Leave("throw") /\ UNCHANGED <<inbox, pendingWakes, owed, claimed, prompts, batch>>
       [] abort = "live" /\ Steps # {} -> ClaimSteps /\ UNCHANGED <<exit, open>>
       [] OTHER -> ClaimPrompt({}) /\ UNCHANGED <<nextStep, exit, open>>
  /\ UNCHANGED <<phase, abort, wakeRequested, first, turnEnds,
                 epilogue, sending, ends, waiting, done, sent, parked>>

\* The rest of the claim.
ClaimEnds ==
  /\ pc = "claiming" /\ sending = "none"
  /\ ClaimPrompt(batch)
  /\ UNCHANGED <<phase, abort, wakeRequested, nextStep, first, turnEnds, exit, open,
                 epilogue, sending, ends, waiting, done, sent, parked>>

\* Assembly or the pre-step waterfall threw, or the signal is aborted.
PreStepThrows ==
  /\ pc = "prestep" /\ JobBoundary
  /\ Leave("throw")
  /\ UNCHANGED <<phase, abort, wakeRequested, pendingWakes, inbox, first, batch, turnEnds,
                 epilogue, sending, ends, waiting, done, history>>

\* A listener rejects the step: pending input parks.
PreStepRejects ==
  /\ pc = "prestep" /\ JobBoundary /\ abort = "live"
  /\ pendingWakes' = {} /\ owed' = {}
  /\ Leave("return")
  /\ UNCHANGED <<phase, abort, wakeRequested, inbox, first, batch, turnEnds,
                 epilogue, sending, ends, waiting, done, sent, claimed,
                 prompts, parked>>

\* Listeners may rewrite the batch to empty, or add to an empty one.
PreStepEnters(empty) ==
  /\ pc = "prestep" /\ JobBoundary /\ abort = "live"
  /\ empty => batch = {} \/ Rewrites
  /\ CASE empty /\ turnEnds # "none" -> Leave("break") /\ UNCHANGED first
       [] empty /\ turnEnds = "none" /\ first -> Leave("return") /\ UNCHANGED first
       [] OTHER -> /\ pc' = "step" /\ open' = "step" /\ first' = FALSE
                   /\ UNCHANGED exit
  /\ UNCHANGED <<phase, abort, wakeRequested, pendingWakes, inbox, batch, turnEnds,
                 epilogue, sending, ends, waiting, done, history>>

\* max-tokens is not downgraded by a later step; other endings are replaced.
Sticky(stepEnd) == IF turnEnds = "max-tokens" THEN turnEnds ELSE stepEnd

\* step() returned: "none" means that tool results await the next request,
\* "completed" that the model called no tool or that a result concluded the turn.
StepEnds(stepEnd) ==
  /\ pc = "step" /\ JobBoundary
  /\ turnEnds' = Sticky(stepEnd)
  /\ pc' = "stepped" /\ open' = "turn"
  /\ UNCHANGED <<phase, abort, wakeRequested, pendingWakes, inbox, first, batch, exit,
                 epilogue, sending, ends, waiting, done, history>>

\* step() threw: recovered results, step/end, and out of the turn.
StepThrows ==
  /\ pc = "step" /\ JobBoundary
  /\ Leave("throw")
  /\ UNCHANGED <<phase, abort, wakeRequested, pendingWakes, inbox, first, batch,
                 turnEnds, epilogue, sending, ends, waiting, done, history>>

\* After step/end: stop, ask agent/turn-stopping first, or claim again.
StepCloses ==
  /\ pc = "stepped" /\ JobBoundary
  /\ IF abort # "live" THEN Leave("throw")
     ELSE /\ pc' = IF turnEnds # "none" /\ nextStep = <<>> THEN "stopping" ELSE "opened"
          /\ UNCHANGED <<exit, open>>
  /\ UNCHANGED <<phase, abort, wakeRequested, pendingWakes, inbox, first, batch,
                 turnEnds, epilogue, sending, ends, waiting, done,
                 history>>

\* The turn-stopping listeners ran; fresh steering keeps the turn going.
StoppingSettles ==
  /\ pc = "stopping" /\ JobBoundary
  /\ \/ Leave("throw")
     \/ abort = "live" /\ nextStep = <<>> /\ Leave("break")
     \/ abort = "live" /\ nextStep # <<>> /\ pc' = "opened" /\ UNCHANGED <<exit, open>>
  /\ UNCHANGED <<phase, abort, wakeRequested, pendingWakes, inbox, first, batch,
                 turnEnds, epilogue, sending, ends, waiting, done,
                 history>>

\* turn() went through: the next turn under a fresh controller, or the end.
TurnReturns ==
  /\ pc = "ended" /\ sending = "none" /\ exit # "throw"
  /\ IF exit = "break" /\ HasPending
     THEN /\ pc' = "start" /\ abort' = "live" /\ wakeRequested' = FALSE
          /\ first' = TRUE /\ prompts' = {}
     ELSE pc' = "finish" /\ UNCHANGED <<abort, wakeRequested, first, prompts>>
  /\ UNCHANGED <<phase, pendingWakes, inbox, batch, turnEnds, exit, open, epilogue,
                 sending, ends, waiting, done, sent, claimed, owed, parked>>

\* kick's catch: unclaimed input parks, unless its wake is latched.
TurnFailed ==
  /\ pc = "ended" /\ JobBoundary /\ exit = "throw"
  /\ pendingWakes' = {}
  /\ owed' = IF abort = "user" THEN owed ELSE {}
  /\ pc' = "finish"
  /\ UNCHANGED <<phase, abort, wakeRequested, inbox, turnState, epilogue, sending,
                 ends, waiting, done, sent, claimed, prompts, parked>>

\* kick's finally publishes idle ...
DriverIdle ==
  /\ pc = "finish" /\ JobBoundary
  /\ phase' = "idle" /\ abort' = "live" /\ wakeRequested' = FALSE /\ pc' = "none"
  /\ epilogue' = IF wakeRequested THEN "latched" ELSE "plain"
  /\ UNCHANGED <<pendingWakes, inbox, turnState, sending, ends, waiting, done, history>>

\* Mutant of Reopens: only a latched wake reopens the driver.
ReopensM == epilogue = "latched" /\ HasPending

Reopens == (epilogue = "latched" \/ pendingWakes # {}) /\ HasPending

\* Mutant of DriverExits: the activity of a driver that ends is not settled.
DriverExitsM ==
  /\ epilogue # "none" /\ sending = "none"
  /\ epilogue' = "none"
  /\ IF Reopens THEN WakeDriver(FALSE)
     ELSE UNCHANGED <<phase, abort, wakeRequested, pc, first, prompts, current, done>>
  /\ UNCHANGED <<pendingWakes, inbox, batch, turnEnds, exit, open, sending, ends,
                 waiter, sent, claimed, owed, parked>>

\* ... and reopens for a latched wake, read before idle was published, or for
\* input its last queue check missed: nobody has woken the agent anew.
DriverExits ==
  /\ epilogue # "none" /\ sending = "none"
  /\ epilogue' = "none"
  /\ IF Reopens THEN WakeDriver(FALSE)
     ELSE /\ done' = (done \/ phase = "idle")
          /\ UNCHANGED <<phase, abort, wakeRequested, pc, first, prompts, current>>
  /\ UNCHANGED <<pendingWakes, inbox, batch, turnEnds, exit, open, sending, ends,
                 waiter, sent, claimed, owed, parked>>

----------------------------------------------------------------------------
\* whenIdle and disposal

WhenIdle ==
  /\ life = "live" /\ waiter # "waiting"
  /\ waiter' = "waiting" /\ current' = TRUE
  /\ UNCHANGED <<phase, abort, wakeRequested, pendingWakes, inbox, pc, turnState,
                 epilogue, sending, ends, done, history>>

\* Mutant of Converged: one awaited activity is enough.
ConvergedM == TRUE

\* No replacement activity was installed while it awaited this one.
Converged == current

\* The awaited promise settled; a replaced one is not this.activityDone.
WaiterResumes ==
  /\ waiter = "waiting" /\ JobBoundary
  /\ ~current \/ done
  /\ IF Converged THEN waiter' = "returned" /\ UNCHANGED current
     ELSE current' = TRUE /\ UNCHANGED waiter
  /\ UNCHANGED <<phase, abort, wakeRequested, pendingWakes, inbox, pc, turnState,
                 epilogue, sending, ends, done, history>>

\* teardown, or tryDisposeIdle of an agent nothing needs: no input comes
\* after it except injected notices.
Dispose(idleOnly) ==
  /\ life = "live"
  /\ Closing => "turn/end" \in Reentrant
  /\ sending # "none" => "inserted" \in Reentrant
  /\ idleOnly => phase = "idle" /\ ~HasPending
  /\ closed' = (closed \/ idleOnly)
  /\ life' = "disposing"
  /\ CancelAgent("disposed", FALSE)
  /\ waiter' = "waiting" /\ current' = TRUE
  /\ UNCHANGED <<phase, pc, turnState, epilogue, sending, hostClosing, done,
                 sent, claimed, prompts>>

\* whenIdle returned to teardown: the scope unwinds, registries drop the agent.
Detach ==
  /\ life = "disposing" /\ waiter = "returned" /\ JobBoundary
  /\ life' = "detached"
  /\ UNCHANGED <<phase, abort, wakeRequested, pendingWakes, inbox, pc, turnState,
                 epilogue, sending, closed, hostClosing, waiting, done, history>>

HostCloses ==
  /\ ~hostClosing
  /\ hostClosing' = TRUE
  /\ UNCHANGED <<phase, abort, wakeRequested, pendingWakes, inbox, pc, turnState,
                 epilogue, sending, closed, life, waiting, done, history>>

----------------------------------------------------------------------------

Init ==
  /\ phase = "idle" /\ abort = "live" /\ wakeRequested = FALSE
  /\ pendingWakes = {} /\ nextTurn = <<>> /\ nextStep = <<>>
  /\ pc = "none" /\ first = TRUE /\ batch = {} /\ turnEnds = "none" /\ exit = "return"
  /\ epilogue = "none" /\ sending = "none" /\ closed = FALSE /\ hostClosing = FALSE
  /\ life = "live" /\ waiter = "none" /\ current = FALSE /\ done = TRUE
  /\ open = "none" /\ sent = {} /\ claimed = {} /\ prompts = {} /\ owed = {}
  /\ parked = {}

Operations ==
  \/ \E m \in Messages : Inject(m) \/ Remove(m)
  \/ \E m \in Messages, target \in {"next-turn", "next-step"} : Send(m, target)
  \/ \E keepInbox \in BOOLEAN : Cancel(keepInbox)
  \/ MaintenanceStarts \/ WhenIdle \/ HostCloses
  \/ \E idleOnly \in BOOLEAN : Dispose(idleOnly)

StepRuns ==
  \/ StepThrows \/ \E stepEnd \in {"none", "completed", "max-tokens"} : StepEnds(stepEnd)
PreStepSettles ==
  \/ PreStepThrows \/ PreStepRejects \/ \E empty \in BOOLEAN : PreStepEnters(empty)
Driver ==
  \/ TurnStarts \/ StepProposed \/ ClaimEnds \/ PreStepSettles \/ StepRuns \/ StepCloses
  \/ StoppingSettles \/ TurnReturns \/ TurnFailed \/ DriverIdle

Next ==
  \/ Operations \/ SendWakes \/ MaintenanceEnds
  \/ Driver \/ DriverExits \/ WaiterResumes \/ Detach

\* Queued jobs run, and the calls the driver awaits settle.
Fairness ==
  /\ WF_vars(Driver) /\ WF_vars(SendWakes) /\ WF_vars(DriverExits)
  /\ WF_vars(MaintenanceEnds) /\ WF_vars(WaiterResumes) /\ WF_vars(Detach)

Spec == Init /\ [][Next]_vars
FairSpec == Spec /\ Fairness

----------------------------------------------------------------------------
\* Properties

TypeStages ==
  /\ phase \in {"idle", "maintenance", "running"}
  /\ abort \in {"live", "user", "disposed"}
  /\ pc \in {"none", "start", "opened", "claiming", "prestep", "step", "stepped", "stopping",
             "ended", "finish"}
  /\ turnEnds \in {"none", "completed", "max-tokens"}
  /\ exit \in {"throw", "return", "break"}
  /\ epilogue \in {"none", "latched", "plain"}
  /\ sending \in {"none", "plain", "afterAbort"}
  /\ life \in {"live", "disposing", "detached"}
  /\ waiter \in {"none", "waiting", "returned"}
  /\ open \in {"none", "turn", "step"}
TypeFlags ==
  /\ wakeRequested \in BOOLEAN /\ first \in BOOLEAN /\ closed \in BOOLEAN
  /\ hostClosing \in BOOLEAN /\ current \in BOOLEAN /\ done \in BOOLEAN
TypeInbox ==
  /\ nextTurn \in Seq(Messages) /\ nextStep \in Seq(Messages)
  /\ pendingWakes \subseteq Messages /\ sent \subseteq Messages
  /\ claimed \subseteq Messages /\ batch \subseteq Messages /\ prompts \subseteq Messages
  /\ owed \subseteq Messages /\ parked \subseteq Messages

\* Every variable has its type.
TypeOK == TypeStages /\ TypeFlags /\ TypeInbox

\* One activity at a time, and its log is balanced: the driver runs exactly
\* while the phase is running, no turn is open without it, and a turn never
\* starts inside another (wakeDriver, runMaintenance, kick).
OneActivity ==
  /\ (pc # "none") = (phase = "running")
  /\ phase # "running" \/ pc \in {"start", "ended", "finish"} => open = "none"

\* A waking message that was not cancelled, rejected or failed with its turn
\* is never left behind by an agent at rest: whatever abort, maintenance or
\* closing turn it raced, some driver has it or will (send, kick, latch).
NoLostWake ==
  phase = "idle" /\ JobBoundary /\ ~hostClosing => owed = {}

\* Input that a cancel kept is not claimed until something wakes the agent
\* again, whatever wake, abort, maintenance or exit it raced: "a cancellation
\* never turns an already accepted wake into an automatic replay" (cancel).
CancelParks == parked \cap claimed = {}

\* A queued prompt is the sole ordinary message of its turn: no turn claims
\* two, however many steps it has.
OnePromptPerTurn == Cardinality(prompts) <= 1

\* The bookkeeping of phase, driver, log and inbox is consistent: types, one
\* activity at a time with a balanced log, one queued prompt per turn.
Consistent == TypeOK /\ OneActivity /\ OnePromptPerTurn

\* An agent that left the registries never runs again, also when it was
\* disposed by an observer of its own waking send, or the activity its teardown
\* awaited in whenIdle was replaced by another before the teardown resumed.
DetachedIsQuiet == life = "detached" => phase = "idle" /\ pc = "none"

\* Teardown never waits for ever: the activity it aborted converges. Only a turn
\* that a wake in hand (a send's, or the one kick latched) starts after the
\* disposal is not aborted by anything, and may keep its teardown waiting.
DisposeSettles ==
  life = "disposing" ~> life = "detached" \/ (phase = "running" /\ abort = "live")

\* Steering is claimed, discarded or parked at a step boundary of the running
\* driver even if the turn never ends by itself.
SteeringClaimed ==
  \A m \in Messages : m \in owed /\ m \in Elems(nextStep) ~> m \notin owed \/ hostClosing

=============================================================================
