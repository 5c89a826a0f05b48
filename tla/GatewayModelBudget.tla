------------------------- MODULE GatewayModelBudget -------------------------
(***************************************************************************)
(* The Gateway processes of one node and their model callbacks             *)
(* (gateway/src/gateway-model-budget.ts) over the admission rows of        *)
(* NodeResourceBudget.  A process is a durable owner: it holds a kernel    *)
(* lock on a file named after it, and a process that opens later reclaims  *)
(* every registered owner whose file it finds unlocked.                    *)
(*                                                                         *)
(* An action is the code between two awaits.  A database call either       *)
(* answers, fails without committing, or commits and loses its             *)
(* acknowledgement; a process may crash between any two steps.             *)
(***************************************************************************)
EXTENDS NodeResourceBudget

CONSTANTS
  AdminOwners,  \* processes that do administrative work
  MaxFaults,    \* bound: database calls that fail or lose their answer
  MaxCrashes    \* bound: processes that crash


VARIABLES
  db,          \* the node's rows
  up,          \* a process: new, opening, registering, open, failed, disposed, dead
  todo,        \* open: owners read from the database and not yet inspected
  held,        \* owner files whose kernel lock the process holds
  file,        \* owner files in the lock directory
  closed,      \* admission is closed and the stop signal is aborted
  closing,     \* closeOwned: no, joining, retrying, unlocking, unlinking
  admin,       \* a withOwnership callback is running
  sequence,    \* the process's serial counter
  chain,       \* the registrations the process has yet to settle, in order
  st,          \* an operation: idle, waiting, requesting, fencing, answered,
               \* delaying, running, finishing, settled, dead
  of, seq,     \* its process and its sequence number
  reply,       \* the admission status last read for it
  outcome,     \* what it will report, or has failed to report
  unfinished,  \* operations whose finish was not acknowledged
  faults, crashes

process == <<up, todo, held, file>>
operation == <<of, seq, reply, outcome>>
vars == <<db, process, closed, closing, admin, sequence, chain, st, operation, unfinished, faults, crashes>>

NoOwner == "nobody"

ASSUME ModelBudgetAssumption ==
  /\ MaxFaults \in Nat /\ MaxCrashes \in Nat
  /\ NoOwner \notin Owners

Live == {"waiting", "requesting", "fencing", "answered", "delaying", "running", "finishing"}
LiveOf(p) == {o \in Ops : of[o] = p /\ st[o] \in Live}

Init ==
  /\ db = InitialRows
  /\ up = [p \in Owners |-> "new"] /\ todo = [p \in Owners |-> {}]
  /\ held = [p \in Owners |-> {}] /\ file = {}
  /\ closed = [p \in Owners |-> FALSE] /\ closing = [p \in Owners |-> "no"]
  /\ admin = [p \in Owners |-> FALSE]
  /\ sequence = [p \in Owners |-> 0] /\ chain = [p \in Owners |-> <<>>]
  /\ st = [o \in Ops |-> "idle"] /\ of = [o \in Ops |-> NoOwner]
  /\ seq = [o \in Ops |-> 0] /\ reply = [o \in Ops |-> "closed"]
  /\ outcome = [o \in Ops |-> "not-started"]
  /\ unfinished = {} /\ faults = 0 /\ crashes = 0

(***************************************************************************)
(* A database call.  done is its result when it commits and answers.       *)
(***************************************************************************)
Commit(done) == db' = done.rows /\ faults' = faults
\* The call threw: it rolled back, or committed and lost the acknowledgement.
Throw(done) ==
  \/ done.reply = "error" /\ UNCHANGED <<db, faults>>
  \/ faults < MaxFaults /\ faults' = faults + 1 /\ db' \in {db, done.rows}
Answers(done) == done.reply # "error" /\ Commit(done)

(***************************************************************************)
(* GatewayModelBudget.open                                                 *)
(***************************************************************************)

\* Read the registered owners.
OpenStarts(p) ==
  /\ up[p] = "new"
  /\ up' = [up EXCEPT ![p] = "opening"]
  /\ todo' = [todo EXCEPT ![p] = db.reg]
  /\ UNCHANGED <<db, held, file, closed, closing, admin, sequence, chain, st, operation, unfinished, faults, crashes>>

Unlocked(o) == \A q \in Owners : o \notin held[q]

\* Lock the file of one owner; a missing file or a lock somebody holds leaves
\* that owner alone.
Inspect(p, o) ==
  /\ up[p] = "opening" /\ held[p] = {} /\ o \in todo[p]
  /\ IF o \in file /\ Unlocked(o)
       THEN held' = [held EXCEPT ![p] = {o}] /\ UNCHANGED todo
       ELSE todo' = [todo EXCEPT ![p] = @ \ {o}] /\ UNCHANGED held
  /\ UNCHANGED <<db, up, file, closed, closing, admin, sequence, chain, st, operation, unfinished, faults, crashes>>

StoppedRows(o) == [rows |-> GatewayStopped(db, seq, of, o), reply |-> "ok"]

\* Remove the rows of the dead owner; a failed call fails the whole open.
Reclaim(p, o) ==
  /\ up[p] = "opening" /\ held[p] = {o} /\ o \in db.reg
  /\ \/ Answers(StoppedRows(o)) /\ UNCHANGED <<up, held>>
     \/ /\ Throw(StoppedRows(o))
        /\ up' = [up EXCEPT ![p] = "failed"] /\ held' = [held EXCEPT ![p] = {}]
  /\ UNCHANGED <<todo, file, closed, closing, admin, sequence, chain, st, operation, unfinished, crashes>>

\* Then unlink its file and release the lock.  The file is gone already when
\* the owner itself was closing: the unlink throws and the open fails.
UnlinkReclaimed(p, o) ==
  /\ up[p] = "opening" /\ held[p] = {o} /\ o \notin db.reg
  /\ file' = file \ {o}
  /\ held' = [held EXCEPT ![p] = {}]
  /\ todo' = [todo EXCEPT ![p] = @ \ {o}]
  /\ up' = [up EXCEPT ![p] = IF o \in file THEN @ ELSE "failed"]
  /\ UNCHANGED <<db, closed, closing, admin, sequence, chain, st, operation, unfinished, faults, crashes>>

\* Create and lock this process's own file.
CreateLock(p) ==
  /\ up[p] = "opening" /\ todo[p] = {} /\ held[p] = {}
  /\ up' = [up EXCEPT ![p] = "registering"]
  /\ file' = file \cup {p} /\ held' = [held EXCEPT ![p] = {p}]
  /\ UNCHANGED <<db, todo, closed, closing, admin, sequence, chain, st, operation, unfinished, faults, crashes>>

\* Mutant of RegisterOwner: the file of a failed registration is cleaned up.
RegisterOwnerUnlinks(p) ==
  LET done == [rows |-> RegisterGateway(db, p), reply |-> "ok"] IN
  /\ up[p] = "registering"
  /\ \/ Answers(done) /\ up' = [up EXCEPT ![p] = "open"] /\ UNCHANGED <<held, file>>
     \/ Throw(done) /\ up' = [up EXCEPT ![p] = "failed"]
        /\ held' = [held EXCEPT ![p] = {}] /\ file' = file \ {p}
  /\ UNCHANGED <<todo, closed, closing, admin, sequence, chain, st, operation, unfinished, crashes>>

\* Register the owner.  The registration may have committed although it
\* failed, so a failure keeps the file for recovery.
RegisterOwner(p) ==
  LET done == [rows |-> RegisterGateway(db, p), reply |-> "ok"] IN
  /\ up[p] = "registering"
  /\ \/ Answers(done) /\ up' = [up EXCEPT ![p] = "open"] /\ UNCHANGED held
     \/ Throw(done) /\ up' = [up EXCEPT ![p] = "failed"] /\ held' = [held EXCEPT ![p] = {}]
  /\ UNCHANGED <<todo, file, closed, closing, admin, sequence, chain, st, operation, unfinished, crashes>>

(***************************************************************************)
(* run and execute                                                         *)
(***************************************************************************)

\* signal.throwIfAborted: the caller may abort at any time, so a task may give
\* up at each check, and goes on only while its process has not aborted it.
MayProceed(o) == ~closed[of[o]]

\* run: refused once admission is closed.
Run(p, o) ==
  /\ up[p] = "open" /\ ~closed[p] /\ st[o] = "idle"
  /\ st' = [st EXCEPT ![o] = "waiting"]
  /\ of' = [of EXCEPT ![o] = p]
  /\ chain' = [chain EXCEPT ![p] = Append(@, o)]
  /\ UNCHANGED <<db, process, closed, closing, admin, sequence, seq, reply, outcome, unfinished, faults, crashes>>

SettleChain(p) == chain' = [chain EXCEPT ![p] = Tail(@)]

\* The locals of the operations in gone are no more.
Forget(gone) ==
  /\ of' = [o \in Ops |-> IF o \in gone THEN NoOwner ELSE of[o]]
  /\ seq' = [o \in Ops |-> IF o \in gone THEN 0 ELSE seq[o]]
  /\ reply' = [o \in Ops |-> IF o \in gone THEN "closed" ELSE reply[o]]
  /\ outcome' = [o \in Ops |-> IF o \in gone THEN "not-started" ELSE outcome[o]]

\* The registration's turn has come: take the next sequence number, or give up
\* before it is used.
Register(p) ==
  LET o == Head(chain[p]) IN
  /\ chain[p] # <<>> /\ st[o] = "waiting"
  /\ \/ /\ st' = [st EXCEPT ![o] = "settled"] /\ SettleChain(p)
        /\ Forget({o}) /\ UNCHANGED sequence
     \/ /\ MayProceed(o)
        /\ sequence' = [sequence EXCEPT ![p] = @ + 1]
        /\ seq' = [seq EXCEPT ![o] = sequence[p] + 1]
        /\ st' = [st EXCEPT ![o] = "requesting"]
        /\ UNCHANGED <<chain, of, reply, outcome>>
  /\ UNCHANGED <<db, process, closed, closing, admin, unfinished, faults, crashes>>

\* Mutant of Ask: a failed registration lets the next one go at once.
AskNoFence(o) ==
  LET done == Request(db, seq, of[o], o) IN
  /\ st[o] = "requesting"
  /\ \/ /\ Answers(done)
        /\ st' = [st EXCEPT ![o] = "answered"] /\ reply' = [reply EXCEPT ![o] = done.reply]
     \/ Throw(done) /\ st' = [st EXCEPT ![o] = "finishing"] /\ UNCHANGED reply
  /\ SettleChain(of[o])
  /\ UNCHANGED <<process, closed, closing, admin, sequence, of, seq, outcome, unfinished, crashes>>

\* budget.request; a failed call is fenced before the next registration.
Ask(o) ==
  LET done == Request(db, seq, of[o], o) IN
  /\ st[o] = "requesting"
  /\ \/ /\ Answers(done) /\ SettleChain(of[o])
        /\ st' = [st EXCEPT ![o] = "answered"] /\ reply' = [reply EXCEPT ![o] = done.reply]
     \/ Throw(done) /\ st' = [st EXCEPT ![o] = "fencing"] /\ UNCHANGED <<reply, chain>>
  /\ UNCHANGED <<process, closed, closing, admin, sequence, of, seq, outcome, unfinished, crashes>>

\* Mutant of Report: a completion that was not acknowledged is forgotten.
ReportForgets(o) ==
  LET done == Finish(db, seq, of[o], o, outcome[o]) IN
  \/ Answers(done) /\ unfinished' = unfinished \ {o} /\ UNCHANGED closed
  \/ Throw(done) /\ UNCHANGED unfinished /\ closed' = [closed EXCEPT ![of[o]] = TRUE]

\* finish: a completion that was not acknowledged is kept for close to repeat,
\* and closes admission.
Report(o) ==
  LET done == Finish(db, seq, of[o], o, outcome[o]) IN
  \/ Answers(done) /\ unfinished' = unfinished \ {o} /\ UNCHANGED closed
  \/ /\ Throw(done) /\ unfinished' = unfinished \cup {o}
     /\ closed' = [closed EXCEPT ![of[o]] = TRUE]

\* Mutant of Fence: the next registration is never let go.
FenceKeepsChain(o) ==
  /\ st[o] = "fencing"
  /\ Report(o)
  /\ st' = [st EXCEPT ![o] = "finishing"]
  /\ UNCHANGED <<process, closing, admin, sequence, operation, chain, crashes>>

\* The fence of a failed registration, before the chain goes on.
Fence(o) ==
  /\ st[o] = "fencing"
  /\ Report(o) /\ SettleChain(of[o])
  /\ st' = [st EXCEPT ![o] = "finishing"]
  /\ UNCHANGED <<process, closing, admin, sequence, operation, crashes>>

\* The status read last decides: keep waiting, start the callback, or give up.
Decide(o) ==
  /\ st[o] = "answered"
  /\ \/ reply[o] = "queued" /\ st' = [st EXCEPT ![o] = "delaying"]
     \/ reply[o] = "active" /\ MayProceed(o) /\ st' = [st EXCEPT ![o] = "running"]
     \/ reply[o] # "queued" /\ st' = [st EXCEPT ![o] = "finishing"]
  /\ reply' = [reply EXCEPT ![o] = "closed"]
  /\ UNCHANGED <<db, process, closed, closing, admin, sequence, chain, of, seq, outcome, unfinished, faults, crashes>>

\* The delay ends, by its timer or by the signal; then the status is read.
Poll(o) ==
  LET done == Status(db, seq, of[o], o) IN
  /\ st[o] = "delaying"
  /\ \/ st' = [st EXCEPT ![o] = "finishing"] /\ UNCHANGED <<db, faults, reply>>
     \/ /\ MayProceed(o) /\ Answers(done)
        /\ st' = [st EXCEPT ![o] = "answered"] /\ reply' = [reply EXCEPT ![o] = done.reply]
     \/ MayProceed(o) /\ Throw(done) /\ st' = [st EXCEPT ![o] = "finishing"] /\ UNCHANGED reply
  /\ UNCHANGED <<process, closed, closing, admin, sequence, chain, of, seq, outcome, unfinished, crashes>>

\* The callback settles, with a result or with an error.
Complete(o) ==
  /\ st[o] = "running"
  /\ st' = [st EXCEPT ![o] = "finishing"]
  /\ outcome' = [outcome EXCEPT ![o] = "quiescent"]
  /\ UNCHANGED <<db, process, closed, closing, admin, sequence, chain, of, seq, reply, unfinished, faults, crashes>>

\* The accounting of the task ends; the task settles either way.
Settle(o) ==
  /\ st[o] = "finishing"
  /\ Report(o)
  /\ st' = [st EXCEPT ![o] = "settled"]
  /\ IF o \in unfinished' THEN UNCHANGED operation ELSE Forget({o})
  /\ UNCHANGED <<process, closing, admin, sequence, chain, crashes>>

\* withOwnership: administrative work that only needs the process to be owner.
WithOwnership(p) ==
  /\ p \in AdminOwners /\ up[p] = "open" /\ ~closed[p] /\ ~admin[p]
  /\ admin' = [admin EXCEPT ![p] = TRUE]
  /\ UNCHANGED <<db, process, closed, closing, sequence, chain, st, operation, unfinished, faults, crashes>>

AdminSettles(p) ==
  /\ admin[p]
  /\ admin' = [admin EXCEPT ![p] = FALSE]
  /\ UNCHANGED <<db, process, closed, closing, sequence, chain, st, operation, unfinished, faults, crashes>>

(***************************************************************************)
(* close                                                                   *)
(***************************************************************************)
CloseStep(p, next) == closing' = [closing EXCEPT ![p] = next]

\* Close admission and abort every task; close is called again after it threw.
Close(p) ==
  /\ up[p] = "open" /\ closing[p] = "no"
  /\ closed' = [closed EXCEPT ![p] = TRUE] /\ CloseStep(p, "joining")
  /\ UNCHANGED <<db, process, admin, sequence, chain, st, operation, unfinished, faults, crashes>>

\* Mutant of Join: the callbacks are told to stop and not waited for.
JoinNobody(p) ==
  /\ closing[p] = "joining"
  /\ CloseStep(p, "retrying")
  /\ UNCHANGED <<db, process, closed, admin, sequence, chain, st, operation, unfinished, faults, crashes>>

\* Every pending task has settled.
Join(p) ==
  /\ closing[p] = "joining" /\ LiveOf(p) = {} /\ ~admin[p]
  /\ CloseStep(p, "retrying")
  /\ UNCHANGED <<db, process, closed, admin, sequence, chain, st, operation, unfinished, faults, crashes>>

\* Repeat one completion that was not acknowledged; close throws when it fails.
Retry(p) ==
  /\ closing[p] = "retrying"
  /\ \E o \in unfinished :
       /\ of[o] = p /\ Report(o)
       /\ IF o \in unfinished' THEN CloseStep(p, "no") /\ UNCHANGED operation
          ELSE UNCHANGED closing /\ Forget({o})
  /\ UNCHANGED <<process, admin, sequence, chain, st, crashes>>

\* gatewayStopped for the process itself.
Retire(p) ==
  /\ closing[p] = "retrying" /\ \A o \in unfinished : of[o] # p
  /\ \/ Answers(StoppedRows(p)) /\ CloseStep(p, "unlocking")
     \/ Throw(StoppedRows(p)) /\ CloseStep(p, "no")
  /\ UNCHANGED <<process, closed, admin, sequence, chain, st, operation, unfinished, crashes>>

\* Close the file, which frees the kernel lock.
Unlock(p) ==
  /\ closing[p] = "unlocking" /\ CloseStep(p, "unlinking")
  /\ held' = [held EXCEPT ![p] = {}]
  /\ UNCHANGED <<db, up, todo, file, closed, admin, sequence, chain, st, operation, unfinished, faults, crashes>>

\* Remove it, unless a recovery already has.
Unlink(p) ==
  /\ closing[p] = "unlinking" /\ CloseStep(p, "no")
  /\ up' = [up EXCEPT ![p] = "disposed"] /\ file' = file \ {p}
  /\ UNCHANGED <<db, todo, held, closed, admin, sequence, chain, st, operation, unfinished, faults, crashes>>

(***************************************************************************)
(* The environment                                                         *)
(***************************************************************************)

\* A process dies: its callbacks end and the kernel frees its locks.
Crash(p) ==
  /\ crashes < MaxCrashes /\ crashes' = crashes + 1
  /\ up[p] \in {"opening", "registering", "open"}
  /\ up' = [up EXCEPT ![p] = "dead"] /\ held' = [held EXCEPT ![p] = {}]
  /\ closing' = [closing EXCEPT ![p] = "no"] /\ admin' = [admin EXCEPT ![p] = FALSE]
  /\ chain' = [chain EXCEPT ![p] = <<>>]
  /\ st' = [o \in Ops |-> IF o \in LiveOf(p) THEN "dead" ELSE st[o]]
  /\ unfinished' = {o \in unfinished : of[o] # p}
  /\ todo' = [todo EXCEPT ![p] = {}] /\ sequence' = [sequence EXCEPT ![p] = 0]
  /\ closed' = [closed EXCEPT ![p] = FALSE]
  /\ UNCHANGED <<db, file, operation, faults>>

OnlyDb == UNCHANGED <<process, closed, closing, admin, sequence, chain, st, operation, unfinished, faults, crashes>>

\* A queue deadline passes; the next transaction drops the request.
DeadlinePasses(o) ==
  /\ o \in Queued(db) \ (db.overdue \cup db.late)
  /\ \/ db' = [db EXCEPT !.overdue = @ \cup {o}]
     \/ db' = [db EXCEPT !.late = @ \cup {o}]
  /\ OnlyDb

\* The pressure sampler publishes an observation.
PressureSample == \E k \in 0 .. MaxCredits : db' = Observe(db, seq, k) /\ OnlyDb

OpStep(o) == Ask(o) \/ Fence(o) \/ Decide(o) \/ Poll(o) \/ Complete(o) \/ Settle(o)
OpenStep(p) ==
  \/ \E o \in Owners : Inspect(p, o) \/ Reclaim(p, o) \/ UnlinkReclaimed(p, o)
  \/ CreateLock(p) \/ RegisterOwner(p)
CloseOwned(p) == Join(p) \/ Retry(p) \/ Retire(p) \/ Unlock(p) \/ Unlink(p)

Next ==
  \/ \E p \in Owners : OpenStarts(p) \/ OpenStep(p) \/ Register(p) \/ CloseOwned(p)
  \/ \E p \in Owners : WithOwnership(p) \/ AdminSettles(p) \/ Close(p) \/ Crash(p)
  \/ \E p \in Owners, o \in Ops : Run(p, o)
  \/ \E o \in Ops : OpStep(o) \/ DeadlinePasses(o)
  \/ PressureSample

Spec == Init /\ [][Next]_vars

\* Every step of OpStep(o) changes st[o] and no other entry of st, and every
\* Retry(p) and Retire(p) changes unfinished or closing[p]: fairness is stated
\* over those variables alone.
OpMoves(o) == st[o] \in Live \ {"waiting"} /\ \E s \in Live \cup {"settled"} : st' = [st EXCEPT ![o] = s]
CloseMoves(p) ==
  /\ closing[p] = "retrying"
  /\ \/ closing' = closing /\ \E o \in Ops : unfinished' = unfinished \ {o}
     \/ unfinished' = unfinished /\ \E c \in {"no", "unlocking"} : CloseStep(p, c)

\* The event loop runs what can run, callbacks and administrative work settle,
\* and a queue deadline passes in the end.
Fairness ==
  /\ \A p \in Owners :
       /\ WF_vars(Register(p)) /\ WF_vars(AdminSettles(p))
       /\ WF_vars(Join(p)) /\ WF_vars(Unlock(p)) /\ WF_vars(Unlink(p))
       /\ WF_<<closing, unfinished>>(CloseMoves(p))
  /\ \A o \in Ops : WF_st(OpMoves(o)) /\ WF_vars(DeadlinePasses(o))

FairSpec == Spec /\ Fairness

(***************************************************************************)
(* Properties                                                              *)
(***************************************************************************)

\* The type of every variable: of the processes, and of the operations.
TypeProcess ==
  /\ up \in [Owners -> {"new", "opening", "registering", "open", "failed", "disposed", "dead"}]
  /\ closing \in [Owners -> {"no", "joining", "retrying", "unlocking", "unlinking"}]
  /\ todo \in [Owners -> SUBSET Owners] /\ held \in [Owners -> SUBSET Owners] /\ file \subseteq Owners
  /\ closed \in [Owners -> BOOLEAN] /\ admin \in [Owners -> BOOLEAN]
TypeOperation ==
  /\ sequence \in [Owners -> Nat] /\ chain \in [Owners -> Seq(Ops)]
  /\ st \in [Ops -> Live \cup {"idle", "settled", "dead"}]
  /\ of \in [Ops -> Owners \cup {NoOwner}] /\ seq \in [Ops -> Nat]
  /\ reply \in [Ops -> {"closed", "queued", "active", "refused"}]
  /\ outcome \in [Ops -> {"not-started", "quiescent"}]
  /\ unfinished \subseteq Ops
TypeOK ==
  /\ db \in Rows /\ TypeProcess /\ TypeOperation
  /\ faults \in 0 .. MaxFaults /\ crashes \in 0 .. MaxCrashes

\* While a model callback runs, its request occupies an active row of a
\* registered owner, and while administrative work runs its process is
\* registered: no recovery, close, lost acknowledgement or deadline frees what
\* is still in use (gateway-model-budget.ts:39, 104).
RunningIsAccounted ==
  /\ \A o \in Ops : st[o] = "running" => db.row[o].state = "active" /\ of[o] \in db.reg
  /\ \A p \in Owners : admin[p] => p \in db.reg

\* A row always has somebody who will remove it: the task that is still going,
\* the completion kept for close, or, after a crash, the recovery of its owner.
NoLeakedRow ==
  \A o \in Ops : db.row[o].state # "none" =>
    /\ of[o] \in db.reg
    /\ o \in unfinished \/ st[o] \in Live \/ up[of[o]] = "dead"

\* A registered owner can be recovered: its file is still in the directory.
\* Files go after the rows, in open as in close, and stay when a registration
\* only seems to have failed.
OwnerFileRemains == db.reg \subseteq file

\* Two processes never hold the lock of one file, and a live registered owner
\* holds its own.
OwnerHoldsLock ==
  \A p \in db.reg : up[p] = "open" =>
    /\ p \in held[p]
    /\ \A q \in Owners \ {p} : p \notin held[q]

\* Ownership can always be recovered, and only from the dead.
Recoverable == TypeOK /\ OwnerFileRemains /\ OwnerHoldsLock

\* The serial counter has no gap: a registration always asks for the sequence
\* after the last the database knows, and a completion is always for one the
\* database can know (the fence, gateway-model-budget.ts:149-152).
SequenceContiguous ==
  \A o \in Ops : of[o] \in db.reg =>
    LET last == db.last[of[o]] IN
    /\ st[o] = "requesting" => seq[o] = last + 1
    /\ st[o] \in {"answered", "delaying", "running"} => seq[o] <= last
    /\ st[o] \in {"fencing", "finishing"} \/ o \in unfinished => seq[o] <= last + 1

\* close settles, by returning or by throwing: the tasks it aborted all settle,
\* whatever acknowledgements are lost, and it waits for nothing else.
CloseSettles == \A p \in Owners : closing[p] = "joining" ~> closing[p] = "no"
=============================================================================
