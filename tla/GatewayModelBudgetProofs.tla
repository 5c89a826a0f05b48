------------------------ MODULE GatewayModelBudgetProofs ------------------------
(***************************************************************************)
(* Gateway processes over the node's budget: what is in use stays          *)
(* accounted for, every row has somebody to remove it, ownership can be    *)
(* recovered and the serial counter has no gap, for any number of          *)
(* processes, callbacks, lost answers and crashes.                         *)
(***************************************************************************)
EXTENDS GatewayModelBudget, NodeResourceBudgetProofs

(***************************************************************************)
(* The inductive invariant                                                 *)
(***************************************************************************)

\* One process holds the lock of a file at a time, and nobody holds, or finds,
\* the file of a process that has not created it.  A registered owner has its
\* file, and a live one its lock.
LockInv ==
  /\ \A q, r, o \in Owners : o \in held[q] /\ o \in held[r] => q = r
  /\ \A p \in Owners : up[p] \in {"new", "opening"} => p \notin file /\ \A q \in Owners : p \notin held[q]
  /\ \A p \in Owners : up[p] = "registering" \/ (up[p] = "open" /\ p \in db.reg) =>
       p \in held[p] /\ p \in file
  /\ db.reg \subseteq file

\* Admission is closed before close begins, and ends before the owner goes.
CloseInv ==
  \A p \in Owners :
    /\ closing[p] # "no" => up[p] = "open" /\ closed[p]
    /\ closing[p] \in {"unlocking", "unlinking"} => p \notin db.reg
    /\ up[p] = "open" /\ ~closed[p] => p \in db.reg
    /\ admin[p] => up[p] = "open" /\ p \in db.reg /\ closing[p] \in {"no", "joining"}

\* A task has a registered process that is open and has not joined its tasks; a
\* completion kept for close has one whose admission is closed.
TaskInv ==
  \A o \in Ops :
    /\ st[o] \in Live =>
         up[of[o]] = "open" /\ of[o] \in db.reg /\ closing[of[o]] \in {"no", "joining"}
    /\ o \in unfinished =>
         /\ st[o] \in {"finishing", "settled"}
         /\ up[of[o]] = "open" /\ of[o] \in db.reg /\ closed[of[o]]

\* A row belongs to somebody, and a task that has not asked has none.
RowOf(o) ==
  /\ st[o] \in {"idle", "waiting"} => db.row[o].state = "none"
  /\ db.row[o].state # "none" =>
       /\ of[o] \in db.reg
       /\ o \in unfinished \/ st[o] \in Live \/ up[of[o]] = "dead"
RowInv == \A o \in Ops : RowOf(o)

\* Who was told that the row is active still has it.
Admitted(o) == st[o] = "running" \/ (st[o] = "answered" /\ reply[o] = "active")
ActiveInv == \A o \in Ops : Admitted(o) => db.row[o].state = "active"

\* The registrations of a process go one by one: only the first of its chain
\* has a call under way.
Asking == {"requesting", "fencing"}
ChainInv ==
  /\ \A p \in Owners : \A i \in 1 .. Len(chain[p]) :
       /\ of[chain[p][i]] = p /\ st[chain[p][i]] \in {"waiting"} \cup Asking
       /\ \A j \in 1 .. Len(chain[p]) : chain[p][i] = chain[p][j] => i = j
  /\ \A o \in Ops : st[o] \in Asking => chain[of[o]] # <<>> /\ Head(chain[of[o]]) = o

\* Tasks that took a sequence number and may still use it.
Numbered(o) == st[o] \in Live \ {"waiting"} \/ o \in unfinished

\* The counter of a process is at most one ahead of the database's, and ahead
\* only while that registration is under way, or after admission was closed.
CounterOf(p) ==
  /\ up[p] \in {"new", "opening", "registering"} => db.last[p] = 0 /\ sequence[p] = 0
  /\ up[p] = "open" /\ p \in db.reg =>
       /\ sequence[p] = db.last[p] \/ sequence[p] = db.last[p] + 1
       /\ sequence[p] = db.last[p] \/ closed[p] \/ \E o \in Ops : of[o] = p /\ st[o] \in Asking
CounterInv == \A p \in Owners : CounterOf(p)

\* No sequence number is above its process's counter, a call under way is for
\* the counter's value, and who was answered is known to the database.
NumberOf(o) ==
  /\ Numbered(o) => seq[o] <= sequence[of[o]]
  /\ st[o] \in Asking => seq[o] = sequence[of[o]]
  /\ st[o] = "requesting" => seq[o] = db.last[of[o]] + 1
  /\ st[o] \in {"answered", "delaying", "running"} => seq[o] <= db.last[of[o]]

\* Sequence numbers of one process are different.
Distinct ==
  \A o, n \in Ops : Numbered(o) /\ Numbered(n) /\ of[o] = of[n] /\ seq[o] = seq[n] => o = n
NumberInv == (\A o \in Ops : NumberOf(o)) /\ Distinct

\* The inductive invariant.
Inv ==
  /\ TypeOK /\ LockInv /\ CloseInv /\ TaskInv /\ RowInv /\ ActiveInv
  /\ ChainInv /\ CounterInv /\ NumberInv

\* The parts, one by one.
LEMMA Parts ==
  ASSUME Inv
  PROVE  /\ TypeOK /\ LockInv /\ CloseInv /\ TaskInv /\ RowInv /\ ActiveInv
         /\ ChainInv /\ CounterInv /\ NumberInv
         /\ db \in Rows /\ TypeProcess /\ TypeOperation
BY DEF Inv, TypeOK

\* Initially there are no owners, no tasks and no rows.
LEMMA InitInv == Init => Inv
<1>. SUFFICES ASSUME Init PROVE Inv
  OBVIOUS
<1>. DEFINE zero == [p \in Owners |-> 0]
            norows == [o \in Ops |-> NoRow]
            unset == [o \in Ops |-> 0]
            none == <<>>
<1>0. MaxCredits \in Nat /\ MaxFaults \in Nat /\ MaxCrashes \in Nat /\ NoOwner \notin Owners
  BY BudgetAssumption, ModelBudgetAssumption
<1>1. zero \in [Owners -> Nat] /\ norows \in [Ops -> Row] /\ unset \in [Ops -> Nat] /\ none \in Seq(Ops)
  BY DEF NoRow, Row
<1>2. db \in Rows /\ db.reg = {} /\ db.last = zero /\ db.row = norows
  <2>1. db = [reg |-> {}, last |-> zero, row |-> norows, credits |-> 0, turn |-> 0,
              pending |-> FALSE, overdue |-> {}, late |-> {}, grants |-> none, since |-> unset]
    BY DEF Init, InitialRows
  <2>. HIDE DEF zero, norows, unset, none
  <2>. QED
    BY <1>0, <1>1, <2>1 DEF Rows
<1>3. \A o \in Ops : db.row[o].state = "none"
  BY <1>2 DEF NoRow
<1>4. TypeOK
  BY <1>0, <1>2 DEF Init, TypeOK, TypeProcess, TypeOperation, Live
<1>5. LockInv /\ CloseInv
  BY <1>2 DEF Init, LockInv, CloseInv
<1>6. TaskInv /\ RowInv /\ ActiveInv
  BY <1>3 DEF Init, TaskInv, RowInv, RowOf, ActiveInv, Admitted, Live
<1>7. ChainInv
  BY DEF Init, ChainInv, Asking
<1>8. CounterInv /\ NumberInv
  BY <1>2 DEF Init, CounterInv, CounterOf, NumberInv, NumberOf, Distinct, Numbered, Asking,
     Live
<1>. QED
  BY <1>4, <1>5, <1>6, <1>7, <1>8 DEF Inv

(***************************************************************************)
(* What a database call does                                               *)
(***************************************************************************)

\* The owners stay, and so do the rows outside X that are active or absent.
Keeps(X) == db' \in Rows /\ db'.reg = db.reg /\ Spares(db, db', X)

\* A call that throws has committed or not.
LEMMA Thrown ==
  ASSUME NEW done, Throw(done), faults \in 0 .. MaxFaults
  PROVE  (db' = db \/ db' = done.rows)
         /\ faults' \in 0 .. MaxFaults
<1>1. MaxFaults \in Nat
  BY ModelBudgetAssumption
<1>. QED
  BY <1>1 DEF Throw

\* Nothing happened.
LEMMA KeepsSame ==
  ASSUME NEW X, db \in Rows, db' = db
  PROVE  Keeps(X)
BY DEF Keeps, Spares

\* What expiry and grants do.
LEMMA KeepsScheduled ==
  ASSUME NEW X, Scheduled(db, db')
  PROVE  Keeps(X) /\ db'.last = db.last
BY SparesMore DEF Keeps, Scheduled, Same

\* The counter of an owner after a request or a completion for o.
Counted(o) ==
  LET last == db.last[of[o]]
  IN [db.last EXCEPT ![of[o]] = IF seq[o] = last + 1 THEN seq[o] ELSE last]

\* What a registration does to the database and to its own admission.
Asked(o) ==
  /\ Keeps({o})
  /\ \/ /\ st' = [st EXCEPT ![o] = "answered"] /\ db'.last = Counted(o)
        /\ \E r \in Replies : reply' = [reply EXCEPT ![o] = r]
        /\ reply'[o] = "active" => db'.row[o].state = "active"
        /\ SettleChain(of[o])
     \/ /\ st' = [st EXCEPT ![o] = "fencing"] /\ db'.last \in {db.last, Counted(o)}
        /\ reply' = reply /\ chain' = chain

\* What a completion does to the database and to what is left for close.
Reported(o) ==
  /\ Keeps({o})
  /\ \/ /\ unfinished' = unfinished \ {o} /\ closed' = closed
        /\ db'.last = Counted(o) /\ db'.row[o].state = "none"
     \/ /\ unfinished' = unfinished \cup {o} /\ closed' = [closed EXCEPT ![of[o]] = TRUE]
        /\ db'.last \in {db.last, Counted(o)}

\* A registration that is under way.
LEMMA AskEffect ==
  ASSUME Inv, NEW o \in Ops, Ask(o)
  PROVE  Asked(o) /\ faults' \in 0 .. MaxFaults
<1>. DEFINE done == Request(db, seq, of[o], o)
<1>0. db \in Rows /\ TypeOperation /\ TaskInv /\ NumberInv /\ faults \in 0 .. MaxFaults
  BY Parts DEF TypeOK
<1>1. st[o] = "requesting" /\ seq \in [Ops -> Nat] /\ reply \in [Ops -> {"closed", "queued", "active", "refused"}]
  BY <1>0 DEF Ask, TypeOperation
<1>2. of[o] \in db.reg /\ seq[o] = db.last[of[o]] + 1
  BY <1>0, <1>1 DEF TaskInv, NumberInv, NumberOf, Live
<1>3. /\ done.rows \in Rows /\ done.rows.reg = db.reg
      /\ done.rows.last = [db.last EXCEPT ![of[o]] = seq[o]]
      /\ Spares(db, done.rows, {o}) /\ done.reply \in Replies
      /\ done.reply = "active" => done.rows.row[o].state = "active"
  <2>1. Requested(db, seq, of[o], o, done)
    BY <1>0, <1>1, <1>2, RequestStep
  <2>. QED
    BY <2>1, Zenon DEF Requested
<1>4. done.rows.last = Counted(o)
  BY <1>2, <1>3 DEF Counted
<1>5. \/ Answers(done) /\ SettleChain(of[o]) /\ st' = [st EXCEPT ![o] = "answered"]
         /\ reply' = [reply EXCEPT ![o] = done.reply]
      \/ Throw(done) /\ st' = [st EXCEPT ![o] = "fencing"] /\ reply' = reply /\ chain' = chain
  BY DEF Ask
<1>. HIDE DEF done
<1>6. CASE Answers(done) /\ SettleChain(of[o]) /\ st' = [st EXCEPT ![o] = "answered"]
           /\ reply' = [reply EXCEPT ![o] = done.reply]
  <2>1. db' = done.rows /\ faults' = faults
    BY <1>6 DEF Answers, Commit
  <2>2. Keeps({o}) /\ db'.last = Counted(o)
    BY <1>3, <1>4, <2>1 DEF Keeps
  <2>3. reply'[o] = done.reply
    BY <1>1, <1>6
  <2>. QED
    BY <1>0, <1>3, <1>6, <2>1, <2>2, <2>3 DEF Asked
<1>7. CASE Throw(done) /\ st' = [st EXCEPT ![o] = "fencing"] /\ reply' = reply /\ chain' = chain
  <2>1. (db' = db \/ db' = done.rows) /\ faults' \in 0 .. MaxFaults
    BY <1>0, <1>7, Thrown
  <2>2. Keeps({o}) /\ db'.last \in {db.last, Counted(o)}
    BY <1>0, <1>3, <1>4, <2>1, KeepsSame DEF Keeps
  <2>. QED
    BY <1>7, <2>1, <2>2 DEF Asked
<1>. QED
  BY <1>5, <1>6, <1>7

\* A completion of a task that still has its owner.
LEMMA ReportEffect ==
  ASSUME Inv, NEW o \in Ops, st[o] \in Live \/ o \in unfinished, Report(o)
  PROVE  Reported(o) /\ faults' \in 0 .. MaxFaults
<1>. DEFINE done == Finish(db, seq, of[o], o, outcome[o])
<1>0. db \in Rows /\ TypeOperation /\ TaskInv /\ faults \in 0 .. MaxFaults
  BY Parts DEF TypeOK
<1>1. seq \in [Ops -> Nat] /\ of[o] \in db.reg
  BY <1>0 DEF TypeOperation, TaskInv
<1>2. /\ done.reply = "error" => done.rows = db
      /\ done.reply # "error" =>
           /\ done.rows \in Rows /\ done.rows.reg = db.reg
           /\ done.rows.last = Counted(o)
           /\ done.rows.row[o].state = "none" /\ Spares(db, done.rows, {o})
  <2>1. Finished(db, seq, of[o], o, done)
    BY <1>0, <1>1, FinishStep
  <2>. QED
    BY <2>1, Zenon DEF Finished, Counted
<1>3. \/ Answers(done) /\ unfinished' = unfinished \ {o} /\ closed' = closed
      \/ Throw(done) /\ unfinished' = unfinished \cup {o} /\ closed' = [closed EXCEPT ![of[o]] = TRUE]
  BY DEF Report
<1>. HIDE DEF done
<1>4. CASE Answers(done) /\ unfinished' = unfinished \ {o} /\ closed' = closed
  <2>1. db' = done.rows /\ faults' = faults /\ done.reply # "error"
    BY <1>4 DEF Answers, Commit
  <2>2. Keeps({o}) /\ db'.last = Counted(o) /\ db'.row[o].state = "none"
    BY <1>2, <2>1 DEF Keeps
  <2>. QED
    BY <1>0, <1>4, <2>1, <2>2 DEF Reported
<1>5. CASE Throw(done) /\ unfinished' = unfinished \cup {o} /\ closed' = [closed EXCEPT ![of[o]] = TRUE]
  <2>1. (db' = db \/ db' = done.rows) /\ faults' \in 0 .. MaxFaults
    BY <1>0, <1>5, Thrown
  <2>2. CASE db' = db
    BY <1>0, <1>5, <2>1, <2>2, KeepsSame DEF Reported
  <2>3. CASE db' = done.rows /\ done.reply # "error"
    <3>1. Keeps({o}) /\ db'.last = Counted(o)
      BY <1>2, <2>3 DEF Keeps
    <3>. QED
      BY <1>5, <2>1, <3>1 DEF Reported
  <2>. QED
    BY <1>2, <2>1, <2>2, <2>3
<1>. QED
  BY <1>3, <1>4, <1>5

\* A poll of a task that still has its owner.
LEMMA PollEffect ==
  ASSUME Inv, NEW o \in Ops, Poll(o)
  PROVE  /\ Keeps({}) /\ db'.last = db.last /\ faults' \in 0 .. MaxFaults
         /\ \/ st' = [st EXCEPT ![o] = "finishing"] /\ reply' = reply
            \/ /\ st' = [st EXCEPT ![o] = "answered"]
               /\ \E r \in Replies : reply' = [reply EXCEPT ![o] = r]
               /\ reply'[o] = "active" => db'.row[o].state = "active"
<1>. DEFINE done == Status(db, seq, of[o], o)
<1>0. db \in Rows /\ TypeOperation /\ TaskInv /\ faults \in 0 .. MaxFaults
  BY Parts DEF TypeOK
<1>1. st[o] = "delaying" /\ seq \in [Ops -> Nat] /\ reply \in [Ops -> {"closed", "queued", "active", "refused"}]
  BY <1>0 DEF Poll, TypeOperation
<1>2. of[o] \in db.reg
  BY <1>0, <1>1 DEF TaskInv, Live
<1>3. /\ Scheduled(db, done.rows) /\ done.reply \in Replies
      /\ done.reply = "active" => done.rows.row[o].state = "active"
  BY <1>0, <1>1, <1>2, StatusStep
<1>4. \/ st' = [st EXCEPT ![o] = "finishing"] /\ db' = db /\ faults' = faults /\ reply' = reply
      \/ Answers(done) /\ st' = [st EXCEPT ![o] = "answered"] /\ reply' = [reply EXCEPT ![o] = done.reply]
      \/ Throw(done) /\ st' = [st EXCEPT ![o] = "finishing"] /\ reply' = reply
  BY DEF Poll
<1>. HIDE DEF done
<1>5. db' = db \/ db' = done.rows
  BY <1>0, <1>4, Thrown DEF Answers, Commit
<1>6. Keeps({}) /\ db'.last = db.last
  BY <1>0, <1>3, <1>5, KeepsSame, KeepsScheduled
<1>7. faults' \in 0 .. MaxFaults
  BY <1>0, <1>4, Thrown DEF Answers, Commit
<1>8. Answers(done) => db' = done.rows
  BY DEF Answers, Commit
<1>9. reply' = [reply EXCEPT ![o] = done.reply] => reply'[o] = done.reply
  BY <1>1
<1>. QED
  BY <1>3, <1>4, <1>6, <1>7, <1>8, <1>9

\* What the removal of an owner does, committed or not.
Dropped(p) ==
  /\ db' \in Rows /\ db'.reg \in {db.reg, db.reg \ {p}}
  /\ \A q \in Owners \ {p} : db'.last[q] = db.last[q]
  /\ Spares(db, db', {o \in Ops : of[o] = p})
  /\ p \in db'.reg => db' = db
  /\ p \in db.reg /\ p \notin db'.reg => \A o \in Ops : of[o] = p => db'.row[o].state = "none"
  /\ p \notin db.reg => db' = db

\* gatewayStopped.
LEMMA StoppedEffect ==
  ASSUME Inv, NEW p \in Owners
  PROVE  /\ Answers(StoppedRows(p)) => Dropped(p) /\ p \notin db'.reg /\ faults' = faults
         /\ Throw(StoppedRows(p)) => Dropped(p) /\ faults' \in 0 .. MaxFaults
<1>. DEFINE after == GatewayStopped(db, seq, of, p)
            done == StoppedRows(p)
<1>0. db \in Rows /\ seq \in [Ops -> Nat] /\ faults \in 0 .. MaxFaults
  BY Parts DEF TypeOK, TypeOperation
<1>1. Stopped(db, of, p, after)
  BY <1>0, StoppedStep
<1>3. done.rows = after
  BY DEF StoppedRows
<1>. HIDE DEF after, done
<1>4. db' = db => Dropped(p)
  <2>1. Spares(db, db, {o \in Ops : of[o] = p})
    BY DEF Spares
  <2>. QED
    BY <1>0, <2>1 DEF Dropped
<1>5. db' = after => Dropped(p) /\ p \notin db'.reg
  BY <1>1 DEF Dropped, Stopped
<1>6. Answers(done) => db' = after /\ faults' = faults
  BY <1>3 DEF Answers, Commit
<1>7. Throw(done) => (db' = db \/ db' = after) /\ faults' \in 0 .. MaxFaults
  BY <1>0, <1>3, Thrown
<1>. QED
  BY <1>4, <1>5, <1>6, <1>7, Zenon DEF done

\* registerGateway, committed or not.
LEMMA RegisterEffect ==
  ASSUME Inv, NEW p \in Owners, RegisterOwner(p)
  PROVE  /\ db' \in Rows /\ db'.last = db.last /\ Spares(db, db', {})
         /\ faults' \in 0 .. MaxFaults
         /\ \/ /\ db'.reg = db.reg \cup {p} /\ up' = [up EXCEPT ![p] = "open"] /\ held' = held
            \/ /\ db'.reg \in {db.reg, db.reg \cup {p}} /\ up' = [up EXCEPT ![p] = "failed"]
               /\ held' = [held EXCEPT ![p] = {}]
<1>. DEFINE after == RegisterGateway(db, p)
            done == [rows |-> after, reply |-> "ok"]
<1>0. db \in Rows /\ faults \in 0 .. MaxFaults
  BY Parts DEF TypeOK
<1>1. /\ after \in Rows /\ after.reg = db.reg \cup {p} /\ after.last = db.last
      /\ Spares(db, after, {})
  BY <1>0, RegisteredStep
<1>2. \/ Answers(done) /\ up' = [up EXCEPT ![p] = "open"] /\ held' = held
      \/ Throw(done) /\ up' = [up EXCEPT ![p] = "failed"] /\ held' = [held EXCEPT ![p] = {}]
  BY DEF RegisterOwner
<1>3. done.rows = after
  OBVIOUS
<1>. HIDE DEF after, done
<1>4. Spares(db, db, {})
  BY DEF Spares
<1>5. Answers(done) => db' = after /\ faults' = faults
  BY <1>3 DEF Answers, Commit
<1>6. Throw(done) => (db' = db \/ db' = after) /\ faults' \in 0 .. MaxFaults
  BY <1>0, <1>3, Thrown
<1>. QED
  BY <1>0, <1>1, <1>2, <1>4, <1>5, <1>6

\* A deadline and a pressure sample.
LEMMA EnvironmentEffect ==
  ASSUME Inv, PressureSample \/ \E o \in Ops : DeadlinePasses(o)
  PROVE  Keeps({}) /\ db'.last = db.last /\ OnlyDb
<1>0. db \in Rows /\ seq \in [Ops -> Nat]
  BY Parts DEF TypeOperation
<1>1. CASE PressureSample
  <2>1. PICK k \in 0 .. MaxCredits : db' = Observe(db, seq, k) /\ OnlyDb
    BY <1>1 DEF PressureSample
  <2>2. Scheduled(db, db')
    BY <1>0, <2>1, ObserveStep
  <2>. QED
    BY <2>1, <2>2, KeepsScheduled
<1>2. CASE \E o \in Ops : DeadlinePasses(o)
  <2>1. PICK o \in Ops : DeadlinePasses(o)
    BY <1>2
  <2>2. /\ \/ db' = [db EXCEPT !.overdue = @ \cup {o}]
           \/ db' = [db EXCEPT !.late = @ \cup {o}]
        /\ OnlyDb
    BY <2>1 DEF DeadlinePasses
  <2>3. Scheduled(db, db')
    BY <1>0, <2>2, OverdueStep
  <2>. QED
    BY <2>2, <2>3, KeepsScheduled
<1>. QED
  BY <1>1, <1>2

\* The fence of a failed registration is a completion.
LEMMA FenceEffect ==
  ASSUME Inv, NEW o \in Ops, Fence(o)
  PROVE  Reported(o) /\ faults' \in 0 .. MaxFaults
BY ReportEffect DEF Fence, Live

\* So is the end of a task.
LEMMA SettleEffect ==
  ASSUME Inv, NEW o \in Ops, Settle(o)
  PROVE  Reported(o) /\ faults' \in 0 .. MaxFaults
BY ReportEffect DEF Settle, Live

\* A completion that close repeats.
Retried(p, o) ==
  /\ closing[p] = "retrying" /\ o \in unfinished /\ of[o] = p /\ Reported(o)
  /\ IF o \in unfinished' THEN CloseStep(p, "no") /\ UNCHANGED operation
     ELSE UNCHANGED closing /\ Forget({o})

\* closeOwned repeats one completion.
LEMMA RetryEffect ==
  ASSUME Inv, NEW p \in Owners, Retry(p)
  PROVE  /\ \E o \in Ops : Retried(p, o)
         /\ faults' \in 0 .. MaxFaults
         /\ UNCHANGED <<process, admin, sequence, chain, st, crashes>>
<1>1. PICK o \in unfinished :
        /\ of[o] = p /\ Report(o)
        /\ IF o \in unfinished' THEN CloseStep(p, "no") /\ UNCHANGED operation
           ELSE UNCHANGED closing /\ Forget({o})
  BY Zenon DEF Retry
<1>2. o \in Ops
  BY Parts DEF TypeOperation
<1>3. Reported(o) /\ faults' \in 0 .. MaxFaults
  BY <1>1, <1>2, ReportEffect
<1>4. closing[p] = "retrying" /\ UNCHANGED <<process, admin, sequence, chain, st, crashes>>
  BY DEF Retry
<1>5. Retried(p, o)
  BY <1>1, <1>3, <1>4, Zenon DEF Retried
<1>. QED
  BY <1>2, <1>3, <1>4, <1>5

\* The owner's own removal.
LEMMA RetireEffect ==
  ASSUME Inv, NEW p \in Owners, Retire(p)
  PROVE  /\ closing[p] = "retrying" /\ \A o \in unfinished : of[o] # p
         /\ Dropped(p) /\ faults' \in 0 .. MaxFaults
         /\ (p \notin db'.reg /\ CloseStep(p, "unlocking")) \/ CloseStep(p, "no")
         /\ UNCHANGED <<process, closed, admin, sequence, chain, st, operation, unfinished, crashes>>
<1>1. faults \in 0 .. MaxFaults
  BY Parts DEF TypeOK
<1>. QED
  BY <1>1, StoppedEffect, Zenon DEF Retire

\* The removal of a dead owner.
LEMMA ReclaimEffect ==
  ASSUME Inv, NEW p \in Owners, NEW o \in Owners, Reclaim(p, o)
  PROVE  /\ up[p] = "opening" /\ held[p] = {o} /\ o \in db.reg
         /\ Dropped(o) /\ faults' \in 0 .. MaxFaults
         /\ \/ UNCHANGED <<up, held>>
            \/ up' = [up EXCEPT ![p] = "failed"] /\ held' = [held EXCEPT ![p] = {}]
         /\ UNCHANGED <<todo, file, closed, closing, admin, sequence, chain, st, operation, unfinished, crashes>>
<1>1. faults \in 0 .. MaxFaults
  BY Parts DEF TypeOK
<1>. QED
  BY <1>1, StoppedEffect, Zenon DEF Reclaim

(***************************************************************************)
(* Ownership                                                               *)
(***************************************************************************)

\* Every step keeps the locks and files of the owners.
LEMMA LockNext ==
  ASSUME Inv, [Next]_vars
  PROVE  LockInv'
<1>. USE DEF process, operation
<1>0. TypeProcess /\ LockInv /\ CloseInv
  BY Parts
<1>1. ASSUME NEW p \in Owners, OpenStarts(p) PROVE LockInv'
  BY <1>0, <1>1 DEF TypeProcess, LockInv, CloseInv, OpenStarts
<1>2. ASSUME NEW p \in Owners, NEW o \in Owners, Inspect(p, o) PROVE LockInv'
  BY <1>0, <1>2 DEF TypeProcess, LockInv, CloseInv, Inspect, Unlocked
<1>3. ASSUME NEW p \in Owners, NEW o \in Owners, Reclaim(p, o) PROVE LockInv'
  <2>1. /\ up[p] = "opening" /\ held[p] = {o} /\ db'.reg \in {db.reg, db.reg \ {o}}
        /\ \/ UNCHANGED <<up, held>>
           \/ up' = [up EXCEPT ![p] = "failed"] /\ held' = [held EXCEPT ![p] = {}]
        /\ UNCHANGED <<file, closed, closing, admin>>
    BY <1>3, ReclaimEffect DEF Dropped
  <2>. QED
    BY <1>0, <2>1 DEF TypeProcess, LockInv, CloseInv
<1>4. ASSUME NEW p \in Owners, NEW o \in Owners, UnlinkReclaimed(p, o) PROVE LockInv'
  BY <1>0, <1>4 DEF TypeProcess, LockInv, CloseInv, UnlinkReclaimed
<1>5. ASSUME NEW p \in Owners, CreateLock(p) PROVE LockInv'
  BY <1>0, <1>5 DEF TypeProcess, LockInv, CloseInv, CreateLock
<1>6. ASSUME NEW p \in Owners, RegisterOwner(p) PROVE LockInv'
  <2>1. /\ up[p] = "registering" /\ UNCHANGED <<file, closed, closing, admin>>
        /\ \/ /\ db'.reg = db.reg \cup {p} /\ up' = [up EXCEPT ![p] = "open"] /\ held' = held
           \/ /\ db'.reg \in {db.reg, db.reg \cup {p}} /\ up' = [up EXCEPT ![p] = "failed"]
              /\ held' = [held EXCEPT ![p] = {}]
    BY <1>6, RegisterEffect DEF RegisterOwner
  <2>. QED
    BY <1>0, <2>1 DEF TypeProcess, LockInv, CloseInv
<1>7. ASSUME NEW p \in Owners, NEW o \in Ops, Run(p, o) PROVE LockInv'
  BY <1>0, <1>7 DEF TypeProcess, LockInv, CloseInv, Run
<1>8. ASSUME NEW p \in Owners, Register(p) PROVE LockInv'
  BY <1>0, <1>8 DEF TypeProcess, LockInv, CloseInv, Register, SettleChain, Forget,
     MayProceed
<1>9. ASSUME NEW o \in Ops, Ask(o) PROVE LockInv'
  BY <1>0, <1>9, AskEffect DEF TypeProcess, LockInv, CloseInv, Ask, Asked, Keeps,
     SettleChain
<1>10. ASSUME NEW o \in Ops, Fence(o) PROVE LockInv'
  BY <1>0, <1>10, FenceEffect DEF TypeProcess, LockInv, CloseInv, Fence, Reported, Keeps,
     SettleChain
<1>11. ASSUME NEW o \in Ops, Decide(o) PROVE LockInv'
  BY <1>0, <1>11 DEF TypeProcess, LockInv, CloseInv, Decide, MayProceed
<1>12. ASSUME NEW o \in Ops, Poll(o) PROVE LockInv'
  BY <1>0, <1>12, PollEffect DEF TypeProcess, LockInv, CloseInv, Poll, Keeps
<1>13. ASSUME NEW o \in Ops, Complete(o) PROVE LockInv'
  BY <1>0, <1>13 DEF TypeProcess, LockInv, CloseInv, Complete
<1>14. ASSUME NEW o \in Ops, Settle(o) PROVE LockInv'
  BY <1>0, <1>14, SettleEffect DEF TypeProcess, LockInv, CloseInv, Settle, Reported, Keeps,
     Forget
<1>15. ASSUME NEW p \in Owners, WithOwnership(p) PROVE LockInv'
  BY <1>0, <1>15 DEF TypeProcess, LockInv, CloseInv, WithOwnership
<1>16. ASSUME NEW p \in Owners, AdminSettles(p) PROVE LockInv'
  BY <1>0, <1>16 DEF TypeProcess, LockInv, CloseInv, AdminSettles
<1>17. ASSUME NEW p \in Owners, Close(p) PROVE LockInv'
  BY <1>0, <1>17 DEF TypeProcess, LockInv, CloseInv, Close, CloseStep
<1>18. ASSUME NEW p \in Owners, Join(p) PROVE LockInv'
  BY <1>0, <1>18 DEF TypeProcess, LockInv, CloseInv, Join, CloseStep, LiveOf
<1>19. ASSUME NEW p \in Owners, Retry(p) PROVE LockInv'
  BY <1>0, <1>19, RetryEffect DEF TypeProcess, LockInv, CloseInv, Retried, Reported, Keeps,
     Forget, CloseStep
<1>20. ASSUME NEW p \in Owners, Retire(p) PROVE LockInv'
  <2>1. /\ closing[p] = "retrying" /\ db'.reg \in {db.reg, db.reg \ {p}}
        /\ (p \notin db'.reg /\ CloseStep(p, "unlocking")) \/ CloseStep(p, "no")
        /\ UNCHANGED <<up, held, file, closed, admin>>
    BY <1>20, RetireEffect DEF Dropped
  <2>. QED
    BY <1>0, <2>1 DEF TypeProcess, LockInv, CloseInv, CloseStep
<1>21. ASSUME NEW p \in Owners, Unlock(p) PROVE LockInv'
  BY <1>0, <1>21 DEF TypeProcess, LockInv, CloseInv, Unlock, CloseStep
<1>22. ASSUME NEW p \in Owners, Unlink(p) PROVE LockInv'
  BY <1>0, <1>22 DEF TypeProcess, LockInv, CloseInv, Unlink, CloseStep
<1>23. ASSUME NEW p \in Owners, Crash(p) PROVE LockInv'
  BY <1>0, <1>23 DEF TypeProcess, LockInv, CloseInv, Crash, LiveOf
<1>24. ASSUME PressureSample \/ \E o \in Ops : DeadlinePasses(o) PROVE LockInv'
  BY <1>0, <1>24, EnvironmentEffect DEF TypeProcess, LockInv, CloseInv, Keeps, OnlyDb
<1>25. ASSUME UNCHANGED vars PROVE LockInv'
  BY <1>0, <1>25 DEF TypeProcess, LockInv, CloseInv, vars
<1>. QED
  BY <1>1, <1>2, <1>3, <1>4, <1>5, <1>6, <1>7, <1>8, <1>9, <1>10, <1>11, <1>12, <1>13,
     <1>14, <1>15, <1>16, <1>17, <1>18, <1>19, <1>20, <1>21, <1>22, <1>23, <1>24, <1>25,
     Zenon DEF Next, OpenStep, CloseOwned, OpStep

\* Every step keeps what close promises.
LEMMA CloseNext ==
  ASSUME Inv, [Next]_vars
  PROVE  CloseInv'
<1>. USE DEF process, operation
<1>0. TypeProcess /\ LockInv /\ CloseInv
  BY Parts
<1>1. ASSUME NEW p \in Owners, OpenStarts(p) PROVE CloseInv'
  BY <1>0, <1>1 DEF TypeProcess, LockInv, CloseInv, OpenStarts
<1>2. ASSUME NEW p \in Owners, NEW o \in Owners, Inspect(p, o) PROVE CloseInv'
  BY <1>0, <1>2 DEF TypeProcess, LockInv, CloseInv, Inspect, Unlocked
<1>3. ASSUME NEW p \in Owners, NEW o \in Owners, Reclaim(p, o) PROVE CloseInv'
  <2>1. /\ up[p] = "opening" /\ held[p] = {o} /\ db'.reg \in {db.reg, db.reg \ {o}}
        /\ \/ UNCHANGED <<up, held>>
           \/ up' = [up EXCEPT ![p] = "failed"] /\ held' = [held EXCEPT ![p] = {}]
        /\ UNCHANGED <<file, closed, closing, admin>>
    BY <1>3, ReclaimEffect DEF Dropped
  <2>. QED
    BY <1>0, <2>1 DEF TypeProcess, LockInv, CloseInv
<1>4. ASSUME NEW p \in Owners, NEW o \in Owners, UnlinkReclaimed(p, o) PROVE CloseInv'
  BY <1>0, <1>4 DEF TypeProcess, LockInv, CloseInv, UnlinkReclaimed
<1>5. ASSUME NEW p \in Owners, CreateLock(p) PROVE CloseInv'
  BY <1>0, <1>5 DEF TypeProcess, LockInv, CloseInv, CreateLock
<1>6. ASSUME NEW p \in Owners, RegisterOwner(p) PROVE CloseInv'
  <2>1. /\ up[p] = "registering" /\ UNCHANGED <<file, closed, closing, admin>>
        /\ \/ /\ db'.reg = db.reg \cup {p} /\ up' = [up EXCEPT ![p] = "open"] /\ held' = held
           \/ /\ db'.reg \in {db.reg, db.reg \cup {p}} /\ up' = [up EXCEPT ![p] = "failed"]
              /\ held' = [held EXCEPT ![p] = {}]
    BY <1>6, RegisterEffect DEF RegisterOwner
  <2>. QED
    BY <1>0, <2>1 DEF TypeProcess, LockInv, CloseInv
<1>7. ASSUME NEW p \in Owners, NEW o \in Ops, Run(p, o) PROVE CloseInv'
  BY <1>0, <1>7 DEF TypeProcess, LockInv, CloseInv, Run
<1>8. ASSUME NEW p \in Owners, Register(p) PROVE CloseInv'
  BY <1>0, <1>8 DEF TypeProcess, LockInv, CloseInv, Register, SettleChain, Forget,
     MayProceed
<1>9. ASSUME NEW o \in Ops, Ask(o) PROVE CloseInv'
  BY <1>0, <1>9, AskEffect DEF TypeProcess, LockInv, CloseInv, Ask, Asked, Keeps,
     SettleChain
<1>10. ASSUME NEW o \in Ops, Fence(o) PROVE CloseInv'
  <2>1. /\ db'.reg = db.reg /\ UNCHANGED <<up, closing, admin>>
        /\ closed' = closed \/ closed' = [closed EXCEPT ![of[o]] = TRUE]
    BY <1>10, FenceEffect DEF Reported, Keeps, Fence
  <2>. QED
    BY <1>0, <2>1 DEF TypeProcess, LockInv, CloseInv
<1>11. ASSUME NEW o \in Ops, Decide(o) PROVE CloseInv'
  BY <1>0, <1>11 DEF TypeProcess, LockInv, CloseInv, Decide, MayProceed
<1>12. ASSUME NEW o \in Ops, Poll(o) PROVE CloseInv'
  BY <1>0, <1>12, PollEffect DEF TypeProcess, LockInv, CloseInv, Poll, Keeps
<1>13. ASSUME NEW o \in Ops, Complete(o) PROVE CloseInv'
  BY <1>0, <1>13 DEF TypeProcess, LockInv, CloseInv, Complete
<1>14. ASSUME NEW o \in Ops, Settle(o) PROVE CloseInv'
  <2>1. /\ db'.reg = db.reg /\ UNCHANGED <<up, closing, admin>>
        /\ closed' = closed \/ closed' = [closed EXCEPT ![of[o]] = TRUE]
    BY <1>14, SettleEffect DEF Reported, Keeps, Settle
  <2>. QED
    BY <1>0, <2>1 DEF TypeProcess, LockInv, CloseInv
<1>15. ASSUME NEW p \in Owners, WithOwnership(p) PROVE CloseInv'
  BY <1>0, <1>15 DEF TypeProcess, LockInv, CloseInv, WithOwnership
<1>16. ASSUME NEW p \in Owners, AdminSettles(p) PROVE CloseInv'
  BY <1>0, <1>16 DEF TypeProcess, LockInv, CloseInv, AdminSettles
<1>17. ASSUME NEW p \in Owners, Close(p) PROVE CloseInv'
  BY <1>0, <1>17 DEF TypeProcess, LockInv, CloseInv, Close, CloseStep
<1>18. ASSUME NEW p \in Owners, Join(p) PROVE CloseInv'
  BY <1>0, <1>18 DEF TypeProcess, LockInv, CloseInv, Join, CloseStep, LiveOf
<1>19. ASSUME NEW p \in Owners, Retry(p) PROVE CloseInv'
  <2>1. PICK o \in Ops : Retried(p, o)
    BY <1>19, RetryEffect
  <2>2. /\ db'.reg = db.reg /\ UNCHANGED <<up, admin>>
        /\ closed' = closed \/ closed' = [closed EXCEPT ![of[o]] = TRUE]
        /\ closing[p] = "retrying" /\ (closing' = closing \/ CloseStep(p, "no"))
    BY <1>19, <2>1, RetryEffect DEF Retried, Reported, Keeps
  <2>. QED
    BY <1>0, <2>2 DEF TypeProcess, LockInv, CloseInv, CloseStep
<1>20. ASSUME NEW p \in Owners, Retire(p) PROVE CloseInv'
  <2>1. /\ closing[p] = "retrying" /\ db'.reg \in {db.reg, db.reg \ {p}}
        /\ (p \notin db'.reg /\ CloseStep(p, "unlocking")) \/ CloseStep(p, "no")
        /\ UNCHANGED <<up, held, file, closed, admin>>
    BY <1>20, RetireEffect DEF Dropped
  <2>. QED
    BY <1>0, <2>1 DEF TypeProcess, LockInv, CloseInv, CloseStep
<1>21. ASSUME NEW p \in Owners, Unlock(p) PROVE CloseInv'
  BY <1>0, <1>21 DEF TypeProcess, LockInv, CloseInv, Unlock, CloseStep
<1>22. ASSUME NEW p \in Owners, Unlink(p) PROVE CloseInv'
  BY <1>0, <1>22 DEF TypeProcess, LockInv, CloseInv, Unlink, CloseStep
<1>23. ASSUME NEW p \in Owners, Crash(p) PROVE CloseInv'
  BY <1>0, <1>23 DEF TypeProcess, LockInv, CloseInv, Crash, LiveOf
<1>24. ASSUME PressureSample \/ \E o \in Ops : DeadlinePasses(o) PROVE CloseInv'
  BY <1>0, <1>24, EnvironmentEffect DEF TypeProcess, LockInv, CloseInv, Keeps, OnlyDb
<1>25. ASSUME UNCHANGED vars PROVE CloseInv'
  BY <1>0, <1>25 DEF TypeProcess, LockInv, CloseInv, vars
<1>. QED
  BY <1>1, <1>2, <1>3, <1>4, <1>5, <1>6, <1>7, <1>8, <1>9, <1>10, <1>11, <1>12, <1>13,
     <1>14, <1>15, <1>16, <1>17, <1>18, <1>19, <1>20, <1>21, <1>22, <1>23, <1>24, <1>25,
     Zenon DEF Next, OpenStep, CloseOwned, OpStep


(***************************************************************************)
(* Types                                                                   *)
(***************************************************************************)

\* Where a task and its registration are.
LEMMA Placed ==
  ASSUME Inv, NEW o \in Ops
  PROVE  /\ st[o] \in Live => of[o] \in Owners
         /\ o \in unfinished => of[o] \in Owners
         /\ st[o] \in Asking => chain[of[o]] # <<>> /\ Head(chain[of[o]]) = o
<1>1. db.reg \subseteq Owners
  BY Parts, RowsFields
<1>. QED
  BY <1>1, Parts DEF TaskInv, ChainInv

\* Letting the next registration go keeps the chain's type.
LEMMA SettleType ==
  ASSUME TypeOperation, NEW p \in Owners, chain[p] # <<>>, SettleChain(p)
  PROVE  chain' \in [Owners -> Seq(Ops)]
<1>1. chain \in [Owners -> Seq(Ops)] /\ chain[p] \in Seq(Ops)
  BY DEF TypeOperation
<1>2. Tail(chain[p]) \in Seq(Ops)
  BY <1>1
<1>3. chain' = [chain EXCEPT ![p] = Tail(chain[p])]
  BY DEF SettleChain
<1>. HIDE DEF SettleChain
<1>. QED
  BY <1>1, <1>2, <1>3

\* What an operation remembers.
TypeLocals ==
  /\ of \in [Ops -> Owners \cup {NoOwner}] /\ seq \in [Ops -> Nat]
  /\ reply \in [Ops -> {"closed", "queued", "active", "refused"}]
  /\ outcome \in [Ops -> {"not-started", "quiescent"}]

\* Forgetting keeps the types of the locals.
LEMMA ForgetType ==
  ASSUME TypeLocals, NEW gone, Forget(gone)
  PROVE  TypeLocals'
BY DEF TypeLocals, Forget

\* Every step keeps the types of the processes.
LEMMA TypeProcessNext ==
  ASSUME Inv, [Next]_vars
  PROVE  TypeProcess'
<1>. USE DEF process, operation
<1>0. TypeProcess /\ db \in Rows /\ db.reg \subseteq Owners
  BY Parts, RowsFields
<1>1. ASSUME NEW p \in Owners, OpenStarts(p) PROVE TypeProcess'
  BY <1>0, <1>1 DEF TypeProcess, OpenStarts
<1>2. ASSUME NEW p \in Owners, NEW o \in Owners, Inspect(p, o) PROVE TypeProcess'
  BY <1>0, <1>2 DEF TypeProcess, Inspect, Unlocked
<1>3. ASSUME NEW p \in Owners, NEW o \in Owners, Reclaim(p, o) PROVE TypeProcess'
  <2>1. /\ \/ UNCHANGED <<up, held>>
           \/ up' = [up EXCEPT ![p] = "failed"] /\ held' = [held EXCEPT ![p] = {}]
        /\ UNCHANGED <<todo, file, closed, closing, admin>>
    BY <1>3, ReclaimEffect
  <2>. QED
    BY <1>0, <2>1 DEF TypeProcess
<1>4. ASSUME NEW p \in Owners, NEW o \in Owners, UnlinkReclaimed(p, o) PROVE TypeProcess'
  BY <1>0, <1>4 DEF TypeProcess, UnlinkReclaimed
<1>5. ASSUME NEW p \in Owners, CreateLock(p) PROVE TypeProcess'
  BY <1>0, <1>5 DEF TypeProcess, CreateLock
<1>6. ASSUME NEW p \in Owners, RegisterOwner(p) PROVE TypeProcess'
  BY <1>0, <1>6, RegisterEffect DEF TypeProcess, RegisterOwner
<1>7. ASSUME NEW p \in Owners, NEW o \in Ops, Run(p, o) PROVE TypeProcess'
  BY <1>0, <1>7 DEF TypeProcess, Run
<1>8. ASSUME NEW p \in Owners, Register(p) PROVE TypeProcess'
  BY <1>0, <1>8 DEF TypeProcess, Register, SettleChain, Forget, MayProceed
<1>9. ASSUME NEW o \in Ops, Ask(o) PROVE TypeProcess'
  BY <1>0, <1>9, AskEffect DEF TypeProcess, Ask, Asked, Keeps, SettleChain
<1>10. ASSUME NEW o \in Ops, Fence(o) PROVE TypeProcess'
  BY <1>0, <1>10, FenceEffect DEF TypeProcess, Fence, Reported, Keeps, SettleChain
<1>11. ASSUME NEW o \in Ops, Decide(o) PROVE TypeProcess'
  BY <1>0, <1>11 DEF TypeProcess, Decide, MayProceed
<1>12. ASSUME NEW o \in Ops, Poll(o) PROVE TypeProcess'
  BY <1>0, <1>12, PollEffect DEF TypeProcess, Poll, Keeps
<1>13. ASSUME NEW o \in Ops, Complete(o) PROVE TypeProcess'
  BY <1>0, <1>13 DEF TypeProcess, Complete
<1>14. ASSUME NEW o \in Ops, Settle(o) PROVE TypeProcess'
  BY <1>0, <1>14, SettleEffect DEF TypeProcess, Settle, Reported, Keeps, Forget
<1>15. ASSUME NEW p \in Owners, WithOwnership(p) PROVE TypeProcess'
  BY <1>0, <1>15 DEF TypeProcess, WithOwnership
<1>16. ASSUME NEW p \in Owners, AdminSettles(p) PROVE TypeProcess'
  BY <1>0, <1>16 DEF TypeProcess, AdminSettles
<1>17. ASSUME NEW p \in Owners, Close(p) PROVE TypeProcess'
  BY <1>0, <1>17 DEF TypeProcess, Close, CloseStep
<1>18. ASSUME NEW p \in Owners, Join(p) PROVE TypeProcess'
  BY <1>0, <1>18 DEF TypeProcess, Join, CloseStep, LiveOf
<1>19. ASSUME NEW p \in Owners, Retry(p) PROVE TypeProcess'
  <2>1. PICK o \in Ops : Retried(p, o)
    BY <1>19, RetryEffect
  <2>2. /\ UNCHANGED <<up, todo, held, file, admin>>
        /\ closed' = closed \/ closed' = [closed EXCEPT ![of[o]] = TRUE]
        /\ closing' = closing \/ closing' = [closing EXCEPT ![p] = "no"]
    BY <1>19, <2>1, RetryEffect DEF Retried, Reported, CloseStep
  <2>3. closed' \in [Owners -> BOOLEAN]
    BY <1>0, <2>2 DEF TypeProcess
  <2>4. closing' \in [Owners -> {"no", "joining", "retrying", "unlocking", "unlinking"}]
    BY <1>0, <2>2 DEF TypeProcess
  <2>. QED
    BY <1>0, <2>2, <2>3, <2>4 DEF TypeProcess
<1>20. ASSUME NEW p \in Owners, Retire(p) PROVE TypeProcess'
  <2>1. /\ UNCHANGED <<up, todo, held, file, admin, closed>>
        /\ \E c \in {"no", "unlocking"} : closing' = [closing EXCEPT ![p] = c]
    BY <1>20, RetireEffect DEF CloseStep
  <2>. QED
    BY <1>0, <2>1 DEF TypeProcess
<1>21. ASSUME NEW p \in Owners, Unlock(p) PROVE TypeProcess'
  BY <1>0, <1>21 DEF TypeProcess, Unlock, CloseStep
<1>22. ASSUME NEW p \in Owners, Unlink(p) PROVE TypeProcess'
  BY <1>0, <1>22 DEF TypeProcess, Unlink, CloseStep
<1>23. ASSUME NEW p \in Owners, Crash(p) PROVE TypeProcess'
  BY <1>0, <1>23 DEF TypeProcess, Crash, LiveOf
<1>24. ASSUME PressureSample \/ \E o \in Ops : DeadlinePasses(o) PROVE TypeProcess'
  BY <1>0, <1>24, EnvironmentEffect DEF TypeProcess, Keeps, OnlyDb
<1>25. ASSUME UNCHANGED vars PROVE TypeProcess'
  BY <1>0, <1>25 DEF TypeProcess, vars
<1>. QED
  BY <1>1, <1>2, <1>3, <1>4, <1>5, <1>6, <1>7, <1>8, <1>9, <1>10, <1>11, <1>12, <1>13,
     <1>14, <1>15, <1>16, <1>17, <1>18, <1>19, <1>20, <1>21, <1>22, <1>23, <1>24, <1>25,
     Zenon DEF Next, OpenStep, CloseOwned, OpStep

\* Every step keeps the types of the operations.
LEMMA TypeOperationNext ==
  ASSUME Inv, [Next]_vars
  PROVE  TypeOperation'
<1>. USE DEF process, operation
<1>0. TypeOperation
  BY Parts
<1>1. ASSUME NEW p \in Owners, OpenStarts(p) PROVE TypeOperation'
  BY <1>0, <1>1 DEF TypeOperation, Live, OpenStarts
<1>2. ASSUME NEW p \in Owners, NEW o \in Owners, Inspect(p, o) PROVE TypeOperation'
  BY <1>0, <1>2 DEF TypeOperation, Live, Inspect, Unlocked
<1>3. ASSUME NEW p \in Owners, NEW o \in Owners, Reclaim(p, o) PROVE TypeOperation'
  <2>1. UNCHANGED <<sequence, chain, st, operation, unfinished>>
    BY <1>3, ReclaimEffect
  <2>. QED
    BY <1>0, <2>1 DEF TypeOperation
<1>4. ASSUME NEW p \in Owners, NEW o \in Owners, UnlinkReclaimed(p, o) PROVE TypeOperation'
  BY <1>0, <1>4 DEF TypeOperation, Live, UnlinkReclaimed
<1>5. ASSUME NEW p \in Owners, CreateLock(p) PROVE TypeOperation'
  BY <1>0, <1>5 DEF TypeOperation, Live, CreateLock
<1>6. ASSUME NEW p \in Owners, RegisterOwner(p) PROVE TypeOperation'
  BY <1>0, <1>6, RegisterEffect DEF TypeOperation, Live, RegisterOwner
<1>7. ASSUME NEW p \in Owners, NEW o \in Ops, Run(p, o) PROVE TypeOperation'
  BY <1>0, <1>7 DEF TypeOperation, Live, Run
<1>8. ASSUME NEW p \in Owners, Register(p) PROVE TypeOperation'
  <2>. DEFINE o == Head(chain[p])
  <2>0. chain[p] # <<>> /\ o \in Ops /\ st[o] = "waiting"
    BY <1>0, <1>8 DEF TypeOperation, Register
  <2>1. CASE /\ st' = [st EXCEPT ![o] = "settled"] /\ SettleChain(p)
             /\ Forget({o}) /\ UNCHANGED <<sequence, unfinished>>
    <3>1. chain' \in [Owners -> Seq(Ops)]
      BY <1>0, <2>0, <2>1, SettleType
    <3>2. TypeLocals'
      BY <1>0, <2>1, ForgetType DEF TypeOperation, TypeLocals
    <3>. HIDE DEF o
    <3>. QED
      BY <1>0, <2>1, <3>1, <3>2 DEF TypeOperation, TypeLocals
  <2>2. CASE /\ sequence' = [sequence EXCEPT ![p] = @ + 1]
             /\ seq' = [seq EXCEPT ![o] = sequence[p] + 1]
             /\ st' = [st EXCEPT ![o] = "requesting"]
             /\ UNCHANGED <<chain, of, reply, outcome, unfinished>>
    <3>. HIDE DEF o
    <3>. QED
      BY <1>0, <2>0, <2>2 DEF TypeOperation, Live
  <2>. QED
    BY <1>8, <2>1, <2>2 DEF Register
<1>9. ASSUME NEW o \in Ops, Ask(o) PROVE TypeOperation'
  <2>0. st[o] = "requesting" /\ UNCHANGED <<sequence, of, seq, outcome, unfinished>>
    BY <1>9 DEF Ask
  <2>1. of[o] \in Owners /\ chain[of[o]] # <<>>
    BY <2>0, Placed DEF Live, Asking
  <2>2. /\ \E s \in {"answered", "fencing"} : st' = [st EXCEPT ![o] = s]
        /\ reply' = reply \/ \E r \in Replies : reply' = [reply EXCEPT ![o] = r]
        /\ chain' = chain \/ SettleChain(of[o])
    BY <1>9, AskEffect, Zenon DEF Asked
  <2>3. chain' \in [Owners -> Seq(Ops)]
    BY <1>0, <2>1, <2>2, SettleType DEF TypeOperation
  <2>4. st' \in [Ops -> Live \cup {"idle", "settled", "dead"}]
    BY <1>0, <2>2 DEF TypeOperation, Live
  <2>5. reply' \in [Ops -> {"closed", "queued", "active", "refused"}]
    BY <1>0, <2>2 DEF TypeOperation, Replies
  <2>. QED
    BY <1>0, <2>0, <2>3, <2>4, <2>5 DEF TypeOperation
<1>10. ASSUME NEW o \in Ops, Fence(o) PROVE TypeOperation'
  <2>0. /\ st[o] = "fencing" /\ st' = [st EXCEPT ![o] = "finishing"] /\ SettleChain(of[o])
        /\ UNCHANGED <<sequence, of, seq, reply, outcome>>
    BY <1>10 DEF Fence
  <2>1. of[o] \in Owners /\ chain[of[o]] # <<>>
    BY <2>0, Placed DEF Live, Asking
  <2>2. chain' \in [Owners -> Seq(Ops)]
    BY <1>0, <2>0, <2>1, SettleType
  <2>3. unfinished' \subseteq Ops
    BY <1>0, <1>10, FenceEffect DEF TypeOperation, Reported
  <2>. QED
    BY <1>0, <2>0, <2>2, <2>3 DEF TypeOperation, Live
<1>11. ASSUME NEW o \in Ops, Decide(o) PROVE TypeOperation'
  BY <1>0, <1>11 DEF TypeOperation, Live, Decide, MayProceed
<1>12. ASSUME NEW o \in Ops, Poll(o) PROVE TypeOperation'
  <2>1. /\ \E s \in {"answered", "finishing"} : st' = [st EXCEPT ![o] = s]
        /\ reply' = reply \/ \E r \in Replies : reply' = [reply EXCEPT ![o] = r]
    BY <1>12, PollEffect, Zenon
  <2>2. UNCHANGED <<sequence, chain, of, seq, outcome, unfinished>>
    BY <1>12 DEF Poll
  <2>. QED
    BY <1>0, <2>1, <2>2 DEF TypeOperation, Live, Replies
<1>13. ASSUME NEW o \in Ops, Complete(o) PROVE TypeOperation'
  BY <1>0, <1>13 DEF TypeOperation, Live, Complete
<1>14. ASSUME NEW o \in Ops, Settle(o) PROVE TypeOperation'
  <2>1. /\ st' = [st EXCEPT ![o] = "settled"] /\ UNCHANGED <<sequence, chain>>
        /\ UNCHANGED operation \/ Forget({o})
    BY <1>14 DEF Settle
  <2>2. TypeLocals'
    BY <1>0, <2>1, ForgetType DEF TypeOperation, TypeLocals
  <2>3. unfinished' \subseteq Ops
    BY <1>0, <1>14, SettleEffect DEF TypeOperation, Reported
  <2>. QED
    BY <1>0, <2>1, <2>2, <2>3 DEF TypeOperation, TypeLocals, Live
<1>15. ASSUME NEW p \in Owners, WithOwnership(p) PROVE TypeOperation'
  BY <1>0, <1>15 DEF TypeOperation, Live, WithOwnership
<1>16. ASSUME NEW p \in Owners, AdminSettles(p) PROVE TypeOperation'
  BY <1>0, <1>16 DEF TypeOperation, Live, AdminSettles
<1>17. ASSUME NEW p \in Owners, Close(p) PROVE TypeOperation'
  BY <1>0, <1>17 DEF TypeOperation, Live, Close, CloseStep
<1>18. ASSUME NEW p \in Owners, Join(p) PROVE TypeOperation'
  BY <1>0, <1>18 DEF TypeOperation, Live, Join, CloseStep, LiveOf
<1>19. ASSUME NEW p \in Owners, Retry(p) PROVE TypeOperation'
  <2>1. PICK o \in Ops : Retried(p, o)
    BY <1>19, RetryEffect
  <2>2. UNCHANGED <<sequence, chain, st>>
    BY <1>19, RetryEffect
  <2>3. UNCHANGED operation \/ Forget({o})
    BY <2>1 DEF Retried
  <2>4. TypeLocals'
    BY <1>0, <2>3, ForgetType DEF TypeOperation, TypeLocals
  <2>5. unfinished' \subseteq Ops
    BY <1>0, <2>1 DEF TypeOperation, Retried, Reported
  <2>. QED
    BY <1>0, <2>2, <2>4, <2>5 DEF TypeOperation, TypeLocals
<1>20. ASSUME NEW p \in Owners, Retire(p) PROVE TypeOperation'
  <2>1. UNCHANGED <<sequence, chain, st, operation, unfinished>>
    BY <1>20, RetireEffect
  <2>. QED
    BY <1>0, <2>1 DEF TypeOperation
<1>21. ASSUME NEW p \in Owners, Unlock(p) PROVE TypeOperation'
  BY <1>0, <1>21 DEF TypeOperation, Live, Unlock, CloseStep
<1>22. ASSUME NEW p \in Owners, Unlink(p) PROVE TypeOperation'
  BY <1>0, <1>22 DEF TypeOperation, Live, Unlink, CloseStep
<1>23. ASSUME NEW p \in Owners, Crash(p) PROVE TypeOperation'
  BY <1>0, <1>23 DEF TypeOperation, Live, Crash, LiveOf
<1>24. ASSUME PressureSample \/ \E o \in Ops : DeadlinePasses(o) PROVE TypeOperation'
  BY <1>0, <1>24, EnvironmentEffect DEF TypeOperation, Live, Keeps, OnlyDb
<1>25. ASSUME UNCHANGED vars PROVE TypeOperation'
  BY <1>0, <1>25 DEF TypeOperation, Live, vars
<1>. QED
  BY <1>1, <1>2, <1>3, <1>4, <1>5, <1>6, <1>7, <1>8, <1>9, <1>10, <1>11, <1>12, <1>13,
     <1>14, <1>15, <1>16, <1>17, <1>18, <1>19, <1>20, <1>21, <1>22, <1>23, <1>24, <1>25,
     Zenon DEF Next, OpenStep, CloseOwned, OpStep

\* The rows and the counters of the environment.
TypeRows == db \in Rows /\ faults \in 0 .. MaxFaults /\ crashes \in 0 .. MaxCrashes

\* Every step keeps the type of the rows and the bounds on faults.
LEMMA TypeRowsNext ==
  ASSUME Inv, [Next]_vars
  PROVE  TypeRows'
<1>. USE DEF process, operation
<1>0. db \in Rows /\ faults \in 0 .. MaxFaults /\ crashes \in 0 .. MaxCrashes /\ MaxCrashes \in Nat
  BY Parts, ModelBudgetAssumption DEF TypeOK
<1>1. ASSUME NEW p \in Owners, OpenStarts(p) PROVE TypeRows'
  BY <1>0, <1>1 DEF TypeRows, OpenStarts
<1>2. ASSUME NEW p \in Owners, NEW o \in Owners, Inspect(p, o) PROVE TypeRows'
  BY <1>0, <1>2 DEF TypeRows, Inspect, Unlocked
<1>3. ASSUME NEW p \in Owners, NEW o \in Owners, Reclaim(p, o) PROVE TypeRows'
  BY <1>0, <1>3, ReclaimEffect DEF TypeRows, Dropped
<1>4. ASSUME NEW p \in Owners, NEW o \in Owners, UnlinkReclaimed(p, o) PROVE TypeRows'
  BY <1>0, <1>4 DEF TypeRows, UnlinkReclaimed
<1>5. ASSUME NEW p \in Owners, CreateLock(p) PROVE TypeRows'
  BY <1>0, <1>5 DEF TypeRows, CreateLock
<1>6. ASSUME NEW p \in Owners, RegisterOwner(p) PROVE TypeRows'
  BY <1>0, <1>6, RegisterEffect DEF TypeRows, RegisterOwner
<1>7. ASSUME NEW p \in Owners, NEW o \in Ops, Run(p, o) PROVE TypeRows'
  BY <1>0, <1>7 DEF TypeRows, Run
<1>8. ASSUME NEW p \in Owners, Register(p) PROVE TypeRows'
  BY <1>0, <1>8 DEF TypeRows, Register, SettleChain, Forget, MayProceed
<1>9. ASSUME NEW o \in Ops, Ask(o) PROVE TypeRows'
  BY <1>0, <1>9, AskEffect DEF TypeRows, Ask, Asked, Keeps, SettleChain
<1>10. ASSUME NEW o \in Ops, Fence(o) PROVE TypeRows'
  BY <1>0, <1>10, FenceEffect DEF TypeRows, Fence, Reported, Keeps, SettleChain
<1>11. ASSUME NEW o \in Ops, Decide(o) PROVE TypeRows'
  BY <1>0, <1>11 DEF TypeRows, Decide, MayProceed
<1>12. ASSUME NEW o \in Ops, Poll(o) PROVE TypeRows'
  BY <1>0, <1>12, PollEffect DEF TypeRows, Poll, Keeps
<1>13. ASSUME NEW o \in Ops, Complete(o) PROVE TypeRows'
  BY <1>0, <1>13 DEF TypeRows, Complete
<1>14. ASSUME NEW o \in Ops, Settle(o) PROVE TypeRows'
  BY <1>0, <1>14, SettleEffect DEF TypeRows, Settle, Reported, Keeps, Forget
<1>15. ASSUME NEW p \in Owners, WithOwnership(p) PROVE TypeRows'
  BY <1>0, <1>15 DEF TypeRows, WithOwnership
<1>16. ASSUME NEW p \in Owners, AdminSettles(p) PROVE TypeRows'
  BY <1>0, <1>16 DEF TypeRows, AdminSettles
<1>17. ASSUME NEW p \in Owners, Close(p) PROVE TypeRows'
  BY <1>0, <1>17 DEF TypeRows, Close, CloseStep
<1>18. ASSUME NEW p \in Owners, Join(p) PROVE TypeRows'
  BY <1>0, <1>18 DEF TypeRows, Join, CloseStep, LiveOf
<1>19. ASSUME NEW p \in Owners, Retry(p) PROVE TypeRows'
  <2>1. PICK o \in Ops : Retried(p, o)
    BY <1>19, RetryEffect
  <2>. QED
    BY <1>0, <1>19, <2>1, RetryEffect DEF TypeRows, Retried, Reported, Keeps
<1>20. ASSUME NEW p \in Owners, Retire(p) PROVE TypeRows'
  BY <1>0, <1>20, RetireEffect DEF TypeRows, Dropped, CloseStep
<1>21. ASSUME NEW p \in Owners, Unlock(p) PROVE TypeRows'
  BY <1>0, <1>21 DEF TypeRows, Unlock, CloseStep
<1>22. ASSUME NEW p \in Owners, Unlink(p) PROVE TypeRows'
  BY <1>0, <1>22 DEF TypeRows, Unlink, CloseStep
<1>23. ASSUME NEW p \in Owners, Crash(p) PROVE TypeRows'
  BY <1>0, <1>23 DEF TypeRows, Crash, LiveOf
<1>24. ASSUME PressureSample \/ \E o \in Ops : DeadlinePasses(o) PROVE TypeRows'
  BY <1>0, <1>24, EnvironmentEffect DEF TypeRows, Keeps, OnlyDb
<1>25. ASSUME UNCHANGED vars PROVE TypeRows'
  BY <1>0, <1>25 DEF TypeRows, vars
<1>. QED
  BY <1>1, <1>2, <1>3, <1>4, <1>5, <1>6, <1>7, <1>8, <1>9, <1>10, <1>11, <1>12, <1>13,
     <1>14, <1>15, <1>16, <1>17, <1>18, <1>19, <1>20, <1>21, <1>22, <1>23, <1>24, <1>25,
     Zenon DEF Next, OpenStep, CloseOwned, OpStep


(***************************************************************************)
(* Tasks and their owners                                                  *)
(***************************************************************************)

\* Every step keeps a task's owner.
LEMMA TaskNext ==
  ASSUME Inv, [Next]_vars
  PROVE  TaskInv'
<1>. USE DEF process, operation
<1>0. TypeProcess /\ TypeOperation /\ LockInv /\ CloseInv /\ TaskInv /\ db.reg \subseteq Owners
  BY Parts, RowsFields
<1>1. ASSUME NEW p \in Owners, OpenStarts(p) PROVE TaskInv'
  BY <1>0, <1>1 DEF TypeProcess, TypeOperation, LockInv, CloseInv, TaskInv, Live, OpenStarts
<1>2. ASSUME NEW p \in Owners, NEW o \in Owners, Inspect(p, o) PROVE TaskInv'
  BY <1>0, <1>2 DEF TypeProcess, TypeOperation, LockInv, CloseInv, TaskInv, Live, Inspect,
     Unlocked
<1>3. ASSUME NEW p \in Owners, NEW o \in Owners, Reclaim(p, o) PROVE TaskInv'
  <2>1. /\ up[p] = "opening" /\ held[p] = {o} /\ db'.reg \in {db.reg, db.reg \ {o}}
        /\ up' = up \/ up' = [up EXCEPT ![p] = "failed"]
        /\ UNCHANGED <<closed, closing, st, of, unfinished>>
    BY <1>3, ReclaimEffect DEF Dropped
  <2>2. \A q \in Owners : up[q] = "open" /\ q \in db.reg => q # o
    BY <1>0, <2>1 DEF LockInv
  <2>. QED
    BY <1>0, <2>1, <2>2 DEF TypeProcess, TypeOperation, TaskInv
<1>4. ASSUME NEW p \in Owners, NEW o \in Owners, UnlinkReclaimed(p, o) PROVE TaskInv'
  BY <1>0, <1>4 DEF TypeProcess, TypeOperation, LockInv, CloseInv, TaskInv, Live,
     UnlinkReclaimed
<1>5. ASSUME NEW p \in Owners, CreateLock(p) PROVE TaskInv'
  BY <1>0, <1>5 DEF TypeProcess, TypeOperation, LockInv, CloseInv, TaskInv, Live, CreateLock
<1>6. ASSUME NEW p \in Owners, RegisterOwner(p) PROVE TaskInv'
  <2>1. /\ up[p] = "registering" /\ UNCHANGED <<closed, closing, st, of, unfinished>>
        /\ db.reg \subseteq db'.reg /\ \E u \in {"open", "failed"} : up' = [up EXCEPT ![p] = u]
    BY <1>6, RegisterEffect DEF RegisterOwner
  <2>. QED
    BY <1>0, <2>1 DEF TypeProcess, TypeOperation, TaskInv
<1>7. ASSUME NEW p \in Owners, NEW o \in Ops, Run(p, o) PROVE TaskInv'
  BY <1>0, <1>7 DEF TypeProcess, TypeOperation, LockInv, CloseInv, TaskInv, Live, Run
<1>8. ASSUME NEW p \in Owners, Register(p) PROVE TaskInv'
  BY <1>0, <1>8 DEF TypeProcess, TypeOperation, LockInv, CloseInv, TaskInv, Live, Register,
     SettleChain, Forget, MayProceed
<1>9. ASSUME NEW o \in Ops, Ask(o) PROVE TaskInv'
  <2>1. /\ st[o] = "requesting" /\ db'.reg = db.reg
        /\ \E s \in {"answered", "fencing"} : st' = [st EXCEPT ![o] = s]
        /\ UNCHANGED <<up, closing, closed, of, unfinished>>
    BY <1>9, AskEffect DEF Ask, Asked, Keeps
  <2>. QED
    BY <1>0, <2>1 DEF TypeProcess, TypeOperation, TaskInv, Live
<1>10. ASSUME NEW o \in Ops, Fence(o) PROVE TaskInv'
  <2>1. /\ db'.reg = db.reg /\ UNCHANGED <<up, closing>>
        /\ \/ unfinished' = unfinished \ {o} /\ closed' = closed
           \/ unfinished' = unfinished \cup {o} /\ closed' = [closed EXCEPT ![of[o]] = TRUE]
    BY <1>10, FenceEffect DEF Reported, Keeps, Fence
  <2>2. st[o] = "fencing" /\ st' = [st EXCEPT ![o] = "finishing"] /\ of' = of
    BY <1>10 DEF Fence
  <2>. QED
    BY <1>0, <2>1, <2>2 DEF TypeProcess, TypeOperation, TaskInv, Live
<1>11. ASSUME NEW o \in Ops, Decide(o) PROVE TaskInv'
  BY <1>0, <1>11 DEF TypeProcess, TypeOperation, LockInv, CloseInv, TaskInv, Live, Decide,
     MayProceed
<1>12. ASSUME NEW o \in Ops, Poll(o) PROVE TaskInv'
  <2>1. /\ st[o] = "delaying" /\ db'.reg = db.reg
        /\ \E s \in {"answered", "finishing"} : st' = [st EXCEPT ![o] = s]
        /\ UNCHANGED <<up, closing, closed, of, unfinished>>
    BY <1>12, PollEffect DEF Poll, Keeps
  <2>. QED
    BY <1>0, <2>1 DEF TypeProcess, TypeOperation, TaskInv, Live
<1>13. ASSUME NEW o \in Ops, Complete(o) PROVE TaskInv'
  BY <1>0, <1>13 DEF TypeProcess, TypeOperation, LockInv, CloseInv, TaskInv, Live, Complete
<1>14. ASSUME NEW o \in Ops, Settle(o) PROVE TaskInv'
  <2>1. /\ db'.reg = db.reg /\ UNCHANGED <<up, closing>>
        /\ \/ unfinished' = unfinished \ {o} /\ closed' = closed
           \/ unfinished' = unfinished \cup {o} /\ closed' = [closed EXCEPT ![of[o]] = TRUE]
    BY <1>14, SettleEffect DEF Reported, Keeps, Settle
  <2>2. /\ st[o] = "finishing" /\ st' = [st EXCEPT ![o] = "settled"]
        /\ \A n \in Ops : n # o \/ o \in unfinished' => of'[n] = of[n]
    BY <1>14 DEF Settle, Forget
  <2>3. \A n \in Ops : n # o => st'[n] = st[n] /\ (n \in unfinished' <=> n \in unfinished)
    BY <1>0, <2>1, <2>2 DEF TypeOperation
  <2>4. \A q \in Owners : closed[q] => closed'[q]
    BY <1>0, <2>1 DEF TypeProcess
  <2>5. st'[o] = "settled" /\ (o \in unfinished' /\ of[o] \in Owners => closed'[of[o]])
    BY <1>0, <2>1, <2>2 DEF TypeOperation, TypeProcess
  <2>6. of[o] \in db.reg /\ up[of[o]] = "open"
    BY <1>0, <2>2 DEF TaskInv, Live
  <2>. QED
    BY <1>0, <2>1, <2>2, <2>3, <2>4, <2>5, <2>6 DEF TypeProcess, TypeOperation, TaskInv,
       Live
<1>15. ASSUME NEW p \in Owners, WithOwnership(p) PROVE TaskInv'
  BY <1>0, <1>15 DEF TypeProcess, TypeOperation, LockInv, CloseInv, TaskInv, Live,
     WithOwnership
<1>16. ASSUME NEW p \in Owners, AdminSettles(p) PROVE TaskInv'
  BY <1>0, <1>16 DEF TypeProcess, TypeOperation, LockInv, CloseInv, TaskInv, Live,
     AdminSettles
<1>17. ASSUME NEW p \in Owners, Close(p) PROVE TaskInv'
  BY <1>0, <1>17 DEF TypeProcess, TypeOperation, LockInv, CloseInv, TaskInv, Live, Close,
     CloseStep
<1>18. ASSUME NEW p \in Owners, Join(p) PROVE TaskInv'
  BY <1>0, <1>18 DEF TypeProcess, TypeOperation, LockInv, CloseInv, TaskInv, Live, Join,
     CloseStep, LiveOf
<1>19. ASSUME NEW p \in Owners, Retry(p) PROVE TaskInv'
  <2>1. PICK o \in Ops : Retried(p, o)
    BY <1>19, RetryEffect
  <2>2. /\ db'.reg = db.reg /\ UNCHANGED <<up, st>>
        /\ \/ unfinished' = unfinished \ {o} /\ closed' = closed
           \/ unfinished' = unfinished \cup {o} /\ closed' = [closed EXCEPT ![of[o]] = TRUE]
    BY <1>19, <2>1, RetryEffect DEF Retried, Reported, Keeps
  <2>3. /\ closing[p] = "retrying" /\ o \in unfinished /\ of[o] = p
        /\ \A n \in Ops : n # o \/ o \in unfinished' => of'[n] = of[n]
        /\ closing' = closing \/ closing' = [closing EXCEPT ![p] = "no"]
    BY <2>1 DEF Retried, CloseStep, Forget
  <2>4. \A n \in Ops : n # o => (n \in unfinished' <=> n \in unfinished)
    BY <2>2
  <2>5. \A q \in Owners : closed[q] => closed'[q]
    BY <1>0, <2>2 DEF TypeProcess
  <2>6. st[o] \in {"finishing", "settled"} /\ of[o] \in db.reg /\ up[of[o]] = "open" /\ closed[of[o]]
    BY <1>0, <2>3 DEF TaskInv
  <2>7. st[o] # "finishing"
    BY <1>0, <2>3, <2>6 DEF TaskInv, Live
  <2>8. \A q \in Owners : closing'[q] = closing[q] \/ closing'[q] = "no"
    BY <1>0, <2>3 DEF TypeProcess
  <2>9. ASSUME NEW n \in Ops, st'[n] \in Live
        PROVE  up'[of'[n]] = "open" /\ of'[n] \in db'.reg /\ closing'[of'[n]] \in {"no", "joining"}
    <3>1. n # o /\ st[n] \in Live
      BY <2>2, <2>6, <2>7, <2>9 DEF Live
    <3>2. of'[n] = of[n] /\ of[n] \in db.reg /\ up[of[n]] = "open" /\ closing[of[n]] \in {"no", "joining"}
      BY <1>0, <2>3, <3>1 DEF TaskInv
    <3>. QED
      BY <1>0, <2>2, <2>8, <3>2
  <2>10. ASSUME NEW n \in Ops, n \in unfinished'
         PROVE  /\ st'[n] \in {"finishing", "settled"}
                /\ up'[of'[n]] = "open" /\ of'[n] \in db'.reg /\ closed'[of'[n]]
    <3>1. n \in unfinished /\ of'[n] = of[n]
      BY <2>3, <2>4, <2>10
    <3>2. st[n] \in {"finishing", "settled"} /\ of[n] \in db.reg /\ up[of[n]] = "open" /\ closed[of[n]]
      BY <1>0, <3>1 DEF TaskInv
    <3>. QED
      BY <1>0, <2>2, <2>5, <3>1, <3>2, Zenon
  <2>. QED
    BY <2>9, <2>10, Zenon DEF TaskInv
<1>20. ASSUME NEW p \in Owners, Retire(p) PROVE TaskInv'
  <2>1. /\ closing[p] = "retrying" /\ \A o \in unfinished : of[o] # p
        /\ db'.reg \in {db.reg, db.reg \ {p}}
        /\ \E c \in {"no", "unlocking"} : closing' = [closing EXCEPT ![p] = c]
        /\ UNCHANGED <<up, closed, st, of, unfinished>>
    BY <1>20, RetireEffect DEF Dropped, CloseStep
  <2>. QED
    BY <1>0, <2>1 DEF TypeProcess, TypeOperation, TaskInv
<1>21. ASSUME NEW p \in Owners, Unlock(p) PROVE TaskInv'
  BY <1>0, <1>21 DEF TypeProcess, TypeOperation, LockInv, CloseInv, TaskInv, Live, Unlock,
     CloseStep
<1>22. ASSUME NEW p \in Owners, Unlink(p) PROVE TaskInv'
  BY <1>0, <1>22 DEF TypeProcess, TypeOperation, LockInv, CloseInv, TaskInv, Live, Unlink,
     CloseStep
<1>23. ASSUME NEW p \in Owners, Crash(p) PROVE TaskInv'
  BY <1>0, <1>23 DEF TypeProcess, TypeOperation, LockInv, CloseInv, TaskInv, Live, Crash,
     LiveOf
<1>24. ASSUME PressureSample \/ \E o \in Ops : DeadlinePasses(o) PROVE TaskInv'
  BY <1>0, <1>24, EnvironmentEffect DEF TypeProcess, TypeOperation, LockInv, CloseInv,
     TaskInv, Live, Keeps, OnlyDb
<1>25. ASSUME UNCHANGED vars PROVE TaskInv'
  BY <1>0, <1>25 DEF TypeProcess, TypeOperation, LockInv, CloseInv, TaskInv, Live, vars
<1>. QED
  BY <1>1, <1>2, <1>3, <1>4, <1>5, <1>6, <1>7, <1>8, <1>9, <1>10, <1>11, <1>12, <1>13,
     <1>14, <1>15, <1>16, <1>17, <1>18, <1>19, <1>20, <1>21, <1>22, <1>23, <1>24, <1>25,
     Zenon DEF Next, OpenStep, CloseOwned, OpStep


\* The stages of a task that has not settled.
LEMMA LiveStages ==
  /\ {"waiting", "requesting", "fencing", "answered", "delaying", "running", "finishing"} \subseteq Live
  /\ "idle" \notin Live /\ "settled" \notin Live /\ "dead" \notin Live
BY DEF Live

\* A step that does not touch the operation n, nor what its row rests on.
RowKept(n) ==
  /\ st'[n] = st[n] /\ of'[n] = of[n] /\ (n \in unfinished => n \in unfinished')
  /\ db.row[n].state = "none" => db'.row[n].state = "none"
  /\ of[n] \in db.reg /\ db'.row[n].state # "none" =>
       of[n] \in db'.reg /\ (up[of[n]] = "dead" => up'[of[n]] = "dead")

\* It keeps that row in hand.
LEMMA RowFrame ==
  ASSUME NEW n \in Ops, RowInv, RowKept(n)
  PROVE  RowOf(n)'
BY DEF RowInv, RowOf, RowKept

\* Every step leaves somebody to remove each row.
LEMMA RowNext ==
  ASSUME Inv, [Next]_vars
  PROVE  RowInv'
<1>. USE DEF process, operation
<1>0. TypeProcess /\ TypeOperation /\ CloseInv /\ TaskInv /\ RowInv /\ NoOwner \notin db.reg /\ db.reg \subseteq Owners
  BY Parts, RowsFields, ModelBudgetAssumption
<1>1. ASSUME NEW p \in Owners, OpenStarts(p) PROVE RowInv'
  BY <1>0, LiveStages, <1>1 DEF TypeProcess, TypeOperation, RowInv, RowOf, OpenStarts
<1>2. ASSUME NEW p \in Owners, NEW o \in Owners, Inspect(p, o) PROVE RowInv'
  BY <1>0, LiveStages, <1>2 DEF TypeProcess, TypeOperation, RowInv, RowOf, Inspect, Unlocked
<1>3. ASSUME NEW p \in Owners, NEW o \in Owners, Reclaim(p, o) PROVE RowInv'
  <2>1. /\ up[p] = "opening" /\ held[p] = {o} /\ db'.reg \in {db.reg, db.reg \ {o}}
        /\ up' = up \/ up' = [up EXCEPT ![p] = "failed"]
        /\ UNCHANGED <<st, of, unfinished>>
    BY <1>3, ReclaimEffect DEF Dropped
  <2>2. db' = db \/ (o \notin db'.reg /\ \A n \in Ops : of[n] = o => db'.row[n].state = "none")
    BY <1>3, ReclaimEffect DEF Dropped
  <2>3. \A n \in Ops : of[n] # o /\ db.row[n].state = "none" => db'.row[n].state = "none"
    BY <1>3, ReclaimEffect DEF Dropped, Spares
  <2>b. \A n \in Ops : RowKept(n)
    BY <1>0, <2>1, <2>2, <2>3 DEF TypeProcess, TypeOperation, RowKept
  <2>. QED
    BY <1>0, <2>b, RowFrame DEF RowInv
<1>4. ASSUME NEW p \in Owners, NEW o \in Owners, UnlinkReclaimed(p, o) PROVE RowInv'
  BY <1>0, LiveStages, <1>4 DEF TypeProcess, TypeOperation, RowInv, RowOf, UnlinkReclaimed
<1>5. ASSUME NEW p \in Owners, CreateLock(p) PROVE RowInv'
  BY <1>0, LiveStages, <1>5 DEF TypeProcess, TypeOperation, RowInv, RowOf, CreateLock
<1>6. ASSUME NEW p \in Owners, RegisterOwner(p) PROVE RowInv'
  <2>1. /\ up[p] = "registering" /\ UNCHANGED <<st, of, unfinished>>
        /\ db.reg \subseteq db'.reg /\ \E u \in {"open", "failed"} : up' = [up EXCEPT ![p] = u]
        /\ \A n \in Ops : db.row[n].state = "none" => db'.row[n].state = "none"
    BY <1>6, RegisterEffect DEF RegisterOwner, Spares
  <2>. QED
    BY <1>0, LiveStages, <2>1 DEF TypeProcess, TypeOperation, RowInv, RowOf
<1>7. ASSUME NEW p \in Owners, NEW o \in Ops, Run(p, o) PROVE RowInv'
  BY <1>0, LiveStages, <1>7 DEF TypeProcess, TypeOperation, RowInv, RowOf, Run
<1>8. ASSUME NEW p \in Owners, Register(p) PROVE RowInv'
  <2>0. PICK o \in Ops : o = Head(chain[p]) /\ st[o] = "waiting" /\ UNCHANGED <<db, up, unfinished>>
    BY <1>0, LiveStages, <1>8 DEF TypeOperation, Register
  <2>1. \/ st' = [st EXCEPT ![o] = "settled"] /\ \A n \in Ops : n # o => of'[n] = of[n]
        \/ st' = [st EXCEPT ![o] = "requesting"] /\ of' = of
    BY <1>8, <2>0 DEF Register, Forget
  <2>b. \A n \in Ops : n # o => RowKept(n)
    BY <1>0, <2>0, <2>1 DEF TypeProcess, TypeOperation, RowKept
  <2>c. RowOf(o)'
    BY <1>0, LiveStages, <2>0, <2>1 DEF TypeOperation, RowInv, RowOf
  <2>. QED
    BY <1>0, <2>b, <2>c, RowFrame DEF RowInv
<1>9. ASSUME NEW o \in Ops, Ask(o) PROVE RowInv'
  <2>1. /\ st[o] = "requesting" /\ db'.reg = db.reg
        /\ \E s \in {"answered", "fencing"} : st' = [st EXCEPT ![o] = s]
        /\ UNCHANGED <<up, of, unfinished>>
        /\ \A n \in Ops : n # o /\ db.row[n].state = "none" => db'.row[n].state = "none"
    BY <1>9, AskEffect DEF Ask, Asked, Keeps, Spares
  <2>a. of[o] \in db.reg
    BY <1>0, <2>1 DEF TaskInv, Live
  <2>b. \A n \in Ops : n # o => RowKept(n)
    BY <1>0, <2>1, <2>a DEF TypeProcess, TypeOperation, RowKept
  <2>c. RowOf(o)'
    BY <1>0, LiveStages, <2>1, <2>a DEF TypeOperation, RowInv, RowOf
  <2>. QED
    BY <1>0, <2>b, <2>c, RowFrame DEF RowInv
<1>10. ASSUME NEW o \in Ops, Fence(o) PROVE RowInv'
  <2>1. /\ db'.reg = db.reg /\ UNCHANGED up
        /\ \/ unfinished' = unfinished \ {o} /\ db'.row[o].state = "none"
           \/ unfinished' = unfinished \cup {o}
        /\ \A n \in Ops : n # o /\ db.row[n].state = "none" => db'.row[n].state = "none"
    BY <1>10, FenceEffect DEF Reported, Keeps, Spares, Fence
  <2>2. st[o] = "fencing" /\ st' = [st EXCEPT ![o] = "finishing"] /\ of' = of
    BY <1>10 DEF Fence
  <2>a. of[o] \in db.reg
    BY <1>0, <2>2 DEF TaskInv, Live
  <2>b. \A n \in Ops : n # o => RowKept(n)
    BY <1>0, <2>1, <2>2, <2>a DEF TypeProcess, TypeOperation, RowKept
  <2>c. RowOf(o)'
    BY <1>0, LiveStages, <2>1, <2>2, <2>a DEF TypeOperation, RowInv, RowOf
  <2>. QED
    BY <1>0, <2>b, <2>c, RowFrame DEF RowInv
<1>11. ASSUME NEW o \in Ops, Decide(o) PROVE RowInv'
  <2>1. /\ st[o] = "answered" /\ \E s \in {"delaying", "running", "finishing"} : st' = [st EXCEPT ![o] = s]
        /\ UNCHANGED <<db, up, of, unfinished>>
    BY <1>11 DEF Decide
  <2>. QED
    BY <1>0, LiveStages, <2>1 DEF TypeProcess, TypeOperation, RowInv, RowOf
<1>12. ASSUME NEW o \in Ops, Poll(o) PROVE RowInv'
  <2>1. /\ st[o] = "delaying" /\ db'.reg = db.reg
        /\ \E s \in {"answered", "finishing"} : st' = [st EXCEPT ![o] = s]
        /\ UNCHANGED <<up, of, unfinished>>
        /\ \A n \in Ops : db.row[n].state = "none" => db'.row[n].state = "none"
    BY <1>12, PollEffect DEF Poll, Keeps, Spares
  <2>a. of[o] \in db.reg
    BY <1>0, <2>1 DEF TaskInv, Live
  <2>b. \A n \in Ops : n # o => RowKept(n)
    BY <1>0, <2>1, <2>a DEF TypeProcess, TypeOperation, RowKept
  <2>c. RowOf(o)'
    BY <1>0, LiveStages, <2>1, <2>a DEF TypeOperation, RowInv, RowOf
  <2>. QED
    BY <1>0, <2>b, <2>c, RowFrame DEF RowInv
<1>13. ASSUME NEW o \in Ops, Complete(o) PROVE RowInv'
  BY <1>0, LiveStages, <1>13 DEF TypeProcess, TypeOperation, RowInv, RowOf, Complete
<1>14. ASSUME NEW o \in Ops, Settle(o) PROVE RowInv'
  <2>1. /\ db'.reg = db.reg /\ UNCHANGED up
        /\ \/ unfinished' = unfinished \ {o} /\ db'.row[o].state = "none"
           \/ unfinished' = unfinished \cup {o}
        /\ \A n \in Ops : n # o /\ db.row[n].state = "none" => db'.row[n].state = "none"
    BY <1>14, SettleEffect DEF Reported, Keeps, Spares, Settle
  <2>2. /\ st[o] = "finishing" /\ st' = [st EXCEPT ![o] = "settled"]
        /\ \A n \in Ops : n # o \/ o \in unfinished' => of'[n] = of[n]
    BY <1>14 DEF Settle, Forget
  <2>a. of[o] \in db.reg
    BY <1>0, <2>2 DEF TaskInv, Live
  <2>b. \A n \in Ops : n # o => RowKept(n)
    BY <1>0, <2>1, <2>2, <2>a DEF TypeProcess, TypeOperation, RowKept
  <2>c. RowOf(o)'
    BY <1>0, LiveStages, <2>1, <2>2, <2>a DEF TypeOperation, RowInv, RowOf
  <2>. QED
    BY <1>0, <2>b, <2>c, RowFrame DEF RowInv
<1>15. ASSUME NEW p \in Owners, WithOwnership(p) PROVE RowInv'
  BY <1>0, LiveStages, <1>15 DEF TypeProcess, TypeOperation, RowInv, RowOf, WithOwnership
<1>16. ASSUME NEW p \in Owners, AdminSettles(p) PROVE RowInv'
  BY <1>0, LiveStages, <1>16 DEF TypeProcess, TypeOperation, RowInv, RowOf, AdminSettles
<1>17. ASSUME NEW p \in Owners, Close(p) PROVE RowInv'
  BY <1>0, LiveStages, <1>17 DEF TypeProcess, TypeOperation, RowInv, RowOf, Close, CloseStep
<1>18. ASSUME NEW p \in Owners, Join(p) PROVE RowInv'
  BY <1>0, LiveStages, <1>18 DEF TypeProcess, TypeOperation, RowInv, RowOf, Join, CloseStep,
     LiveOf
<1>19. ASSUME NEW p \in Owners, Retry(p) PROVE RowInv'
  <2>1. PICK o \in Ops : Retried(p, o)
    BY <1>19, RetryEffect
  <2>2. /\ db'.reg = db.reg /\ UNCHANGED <<up, st>>
        /\ \/ unfinished' = unfinished \ {o} /\ db'.row[o].state = "none"
           \/ unfinished' = unfinished \cup {o}
        /\ \A n \in Ops : n # o /\ db.row[n].state = "none" => db'.row[n].state = "none"
    BY <1>19, <2>1, RetryEffect DEF Retried, Reported, Keeps, Spares
  <2>3. o \in unfinished /\ of[o] = p /\ \A n \in Ops : n # o \/ o \in unfinished' => of'[n] = of[n]
    BY <2>1 DEF Retried, CloseStep, Forget
  <2>a. of[o] \in db.reg /\ st[o] \in {"finishing", "settled"}
    BY <1>0, <2>3 DEF TaskInv
  <2>b. \A n \in Ops : n # o => RowKept(n)
    BY <1>0, <2>2, <2>3, <2>a DEF TypeProcess, TypeOperation, RowKept
  <2>c. RowOf(o)'
    BY <1>0, LiveStages, <2>2, <2>3, <2>a DEF TypeOperation, RowInv, RowOf
  <2>. QED
    BY <1>0, <2>b, <2>c, RowFrame DEF RowInv
<1>20. ASSUME NEW p \in Owners, Retire(p) PROVE RowInv'
  <2>1. /\ closing[p] = "retrying" /\ db'.reg \in {db.reg, db.reg \ {p}}
        /\ UNCHANGED <<up, st, of, unfinished>>
    BY <1>20, RetireEffect DEF Dropped
  <2>2. db' = db \/ (p \notin db'.reg /\ \A n \in Ops : of[n] = p => db'.row[n].state = "none")
    BY <1>20, RetireEffect DEF Dropped
  <2>3. \A n \in Ops : of[n] # p /\ db.row[n].state = "none" => db'.row[n].state = "none"
    BY <1>20, RetireEffect DEF Dropped, Spares
  <2>b. \A n \in Ops : RowKept(n)
    BY <1>0, <2>1, <2>2, <2>3 DEF TypeProcess, TypeOperation, RowKept
  <2>. QED
    BY <1>0, <2>b, RowFrame DEF RowInv
<1>21. ASSUME NEW p \in Owners, Unlock(p) PROVE RowInv'
  BY <1>0, LiveStages, <1>21 DEF TypeProcess, TypeOperation, RowInv, RowOf, Unlock,
     CloseStep
<1>22. ASSUME NEW p \in Owners, Unlink(p) PROVE RowInv'
  <2>1. up[p] = "open" /\ up' = [up EXCEPT ![p] = "disposed"] /\ UNCHANGED <<db, st, of, unfinished>>
    BY <1>0, LiveStages, <1>22 DEF CloseInv, Unlink
  <2>. QED
    BY <1>0, LiveStages, <2>1 DEF TypeProcess, TypeOperation, RowInv, RowOf
<1>23. ASSUME NEW p \in Owners, Crash(p) PROVE RowInv'
  BY <1>0, LiveStages, <1>23 DEF TypeProcess, TypeOperation, RowInv, RowOf, Crash, LiveOf
<1>24. ASSUME PressureSample \/ \E o \in Ops : DeadlinePasses(o) PROVE RowInv'
  <2>1. /\ db'.reg = db.reg /\ UNCHANGED <<up, st, of, unfinished>>
        /\ \A n \in Ops : db.row[n].state = "none" => db'.row[n].state = "none"
    BY <1>24, EnvironmentEffect DEF Keeps, Spares, OnlyDb
  <2>. QED
    BY <1>0, LiveStages, <2>1 DEF TypeProcess, TypeOperation, RowInv, RowOf
<1>25. ASSUME UNCHANGED vars PROVE RowInv'
  BY <1>0, LiveStages, <1>25 DEF TypeProcess, TypeOperation, RowInv, RowOf, vars
<1>. QED
  BY <1>1, <1>2, <1>3, <1>4, <1>5, <1>6, <1>7, <1>8, <1>9, <1>10, <1>11, <1>12, <1>13,
     <1>14, <1>15, <1>16, <1>17, <1>18, <1>19, <1>20, <1>21, <1>22, <1>23, <1>24, <1>25,
     Zenon DEF Next, OpenStep, CloseOwned, OpStep

\* No step frees what is in use.
LEMMA ActiveNext ==
  ASSUME Inv, [Next]_vars
  PROVE  ActiveInv'
<1>. USE DEF process, operation
<1>0. TypeOperation /\ LockInv /\ CloseInv /\ TaskInv /\ ActiveInv
  BY Parts
<1>1. ASSUME NEW p \in Owners, OpenStarts(p) PROVE ActiveInv'
  BY <1>0, <1>1 DEF TypeOperation, ActiveInv, Admitted, OpenStarts
<1>2. ASSUME NEW p \in Owners, NEW o \in Owners, Inspect(p, o) PROVE ActiveInv'
  BY <1>0, <1>2 DEF TypeOperation, ActiveInv, Admitted, Inspect, Unlocked
<1>3. ASSUME NEW p \in Owners, NEW o \in Owners, Reclaim(p, o) PROVE ActiveInv'
  <2>1. /\ up[p] = "opening" /\ held[p] = {o} /\ UNCHANGED <<st, reply>>
    BY <1>3, ReclaimEffect
  <2>2. \A n \in Ops : of[n] # o /\ db.row[n].state = "active" => db'.row[n].state = "active"
    BY <1>3, ReclaimEffect DEF Dropped, Spares
  <2>3. \A n \in Ops : st[n] \in Live => of[n] # o
    BY <1>0, <2>1 DEF LockInv, TaskInv
  <2>. QED
    BY <1>0, <2>1, <2>2, <2>3 DEF TypeOperation, ActiveInv, Admitted, Live
<1>4. ASSUME NEW p \in Owners, NEW o \in Owners, UnlinkReclaimed(p, o) PROVE ActiveInv'
  BY <1>0, <1>4 DEF TypeOperation, ActiveInv, Admitted, UnlinkReclaimed
<1>5. ASSUME NEW p \in Owners, CreateLock(p) PROVE ActiveInv'
  BY <1>0, <1>5 DEF TypeOperation, ActiveInv, Admitted, CreateLock
<1>6. ASSUME NEW p \in Owners, RegisterOwner(p) PROVE ActiveInv'
  <2>1. UNCHANGED <<st, reply>> /\ \A n \in Ops : db.row[n].state = "active" => db'.row[n].state = "active"
    BY <1>6, RegisterEffect DEF RegisterOwner, Spares
  <2>. QED
    BY <1>0, <2>1 DEF TypeOperation, ActiveInv, Admitted
<1>7. ASSUME NEW p \in Owners, NEW o \in Ops, Run(p, o) PROVE ActiveInv'
  BY <1>0, <1>7 DEF TypeOperation, ActiveInv, Admitted, Run
<1>8. ASSUME NEW p \in Owners, Register(p) PROVE ActiveInv'
  BY <1>0, <1>8 DEF TypeOperation, ActiveInv, Admitted, Register, SettleChain, Forget,
     MayProceed
<1>9. ASSUME NEW o \in Ops, Ask(o) PROVE ActiveInv'
  <2>0. Asked(o)
    BY <1>9, AskEffect
  <2>1. \A n \in Ops : n # o /\ db.row[n].state = "active" => db'.row[n].state = "active"
    BY <2>0 DEF Asked, Keeps, Spares
  <2>2. \/ /\ st' = [st EXCEPT ![o] = "answered"]
           /\ reply'[o] = "active" => db'.row[o].state = "active"
           /\ \E r \in Replies : reply' = [reply EXCEPT ![o] = r]
        \/ st' = [st EXCEPT ![o] = "fencing"] /\ reply' = reply
    BY <2>0, Zenon DEF Asked
  <2>3. \A n \in Ops : n # o => reply'[n] = reply[n]
    BY <1>0, <2>2 DEF TypeOperation
  <2>. QED
    BY <1>0, <2>1, <2>2, <2>3 DEF TypeOperation, ActiveInv, Admitted
<1>10. ASSUME NEW o \in Ops, Fence(o) PROVE ActiveInv'
  <2>1. st[o] = "fencing" /\ st' = [st EXCEPT ![o] = "finishing"]
        /\ \A n \in Ops : n # o => reply'[n] = reply[n]
    BY <1>10 DEF Fence, Forget
  <2>2. \A n \in Ops : n # o /\ db.row[n].state = "active" => db'.row[n].state = "active"
    BY <1>10, FenceEffect DEF Reported, Keeps, Spares
  <2>. QED
    BY <1>0, <2>1, <2>2 DEF TypeOperation, ActiveInv, Admitted
<1>11. ASSUME NEW o \in Ops, Decide(o) PROVE ActiveInv'
  BY <1>0, <1>11 DEF TypeOperation, ActiveInv, Admitted, Decide, MayProceed
<1>12. ASSUME NEW o \in Ops, Poll(o) PROVE ActiveInv'
  <2>1. /\ st[o] = "delaying" /\ \A n \in Ops : db.row[n].state = "active" => db'.row[n].state = "active"
        /\ \/ /\ st' = [st EXCEPT ![o] = "answered"]
              /\ reply'[o] = "active" => db'.row[o].state = "active"
              /\ \A n \in Ops : n # o => reply'[n] = reply[n]
           \/ st' = [st EXCEPT ![o] = "finishing"] /\ reply' = reply
    BY <1>0, <1>12, PollEffect DEF TypeOperation, Poll, Keeps, Spares
  <2>. QED
    BY <1>0, <2>1 DEF TypeOperation, ActiveInv, Admitted
<1>13. ASSUME NEW o \in Ops, Complete(o) PROVE ActiveInv'
  BY <1>0, <1>13 DEF TypeOperation, ActiveInv, Admitted, Complete
<1>14. ASSUME NEW o \in Ops, Settle(o) PROVE ActiveInv'
  <2>1. st[o] = "finishing" /\ st' = [st EXCEPT ![o] = "settled"]
        /\ \A n \in Ops : n # o => reply'[n] = reply[n]
    BY <1>14 DEF Settle, Forget
  <2>2. \A n \in Ops : n # o /\ db.row[n].state = "active" => db'.row[n].state = "active"
    BY <1>14, SettleEffect DEF Reported, Keeps, Spares
  <2>. QED
    BY <1>0, <2>1, <2>2 DEF TypeOperation, ActiveInv, Admitted
<1>15. ASSUME NEW p \in Owners, WithOwnership(p) PROVE ActiveInv'
  BY <1>0, <1>15 DEF TypeOperation, ActiveInv, Admitted, WithOwnership
<1>16. ASSUME NEW p \in Owners, AdminSettles(p) PROVE ActiveInv'
  BY <1>0, <1>16 DEF TypeOperation, ActiveInv, Admitted, AdminSettles
<1>17. ASSUME NEW p \in Owners, Close(p) PROVE ActiveInv'
  BY <1>0, <1>17 DEF TypeOperation, ActiveInv, Admitted, Close, CloseStep
<1>18. ASSUME NEW p \in Owners, Join(p) PROVE ActiveInv'
  BY <1>0, <1>18 DEF TypeOperation, ActiveInv, Admitted, Join, CloseStep, LiveOf
<1>19. ASSUME NEW p \in Owners, Retry(p) PROVE ActiveInv'
  <2>1. PICK o \in Ops : Retried(p, o)
    BY <1>19, RetryEffect
  <2>2. st' = st /\ \A n \in Ops : n # o /\ db.row[n].state = "active" => db'.row[n].state = "active"
    BY <1>19, <2>1, RetryEffect DEF Retried, Reported, Keeps, Spares
  <2>3. o \in unfinished /\ \A n \in Ops : n # o => reply'[n] = reply[n]
    BY <2>1 DEF Retried, Forget
  <2>4. st[o] \in {"finishing", "settled"}
    BY <1>0, <2>3 DEF TaskInv
  <2>. QED
    BY <1>0, <2>2, <2>3, <2>4 DEF TypeOperation, ActiveInv, Admitted
<1>20. ASSUME NEW p \in Owners, Retire(p) PROVE ActiveInv'
  <2>1. closing[p] = "retrying" /\ UNCHANGED <<st, reply>>
    BY <1>20, RetireEffect
  <2>2. \A n \in Ops : of[n] # p /\ db.row[n].state = "active" => db'.row[n].state = "active"
    BY <1>20, RetireEffect DEF Dropped, Spares
  <2>3. \A n \in Ops : st[n] \in Live => of[n] # p
    BY <1>0, <2>1 DEF TaskInv
  <2>. QED
    BY <1>0, <2>1, <2>2, <2>3 DEF TypeOperation, ActiveInv, Admitted, Live
<1>21. ASSUME NEW p \in Owners, Unlock(p) PROVE ActiveInv'
  BY <1>0, <1>21 DEF TypeOperation, ActiveInv, Admitted, Unlock, CloseStep
<1>22. ASSUME NEW p \in Owners, Unlink(p) PROVE ActiveInv'
  BY <1>0, <1>22 DEF TypeOperation, ActiveInv, Admitted, Unlink, CloseStep
<1>23. ASSUME NEW p \in Owners, Crash(p) PROVE ActiveInv'
  BY <1>0, <1>23 DEF TypeOperation, ActiveInv, Admitted, Crash, LiveOf
<1>24. ASSUME PressureSample \/ \E o \in Ops : DeadlinePasses(o) PROVE ActiveInv'
  <2>1. UNCHANGED <<st, reply>> /\ \A n \in Ops : db.row[n].state = "active" => db'.row[n].state = "active"
    BY <1>24, EnvironmentEffect DEF Keeps, Spares, OnlyDb
  <2>. QED
    BY <1>0, <2>1 DEF TypeOperation, ActiveInv, Admitted
<1>25. ASSUME UNCHANGED vars PROVE ActiveInv'
  BY <1>0, <1>25 DEF TypeOperation, ActiveInv, Admitted, vars
<1>. QED
  BY <1>1, <1>2, <1>3, <1>4, <1>5, <1>6, <1>7, <1>8, <1>9, <1>10, <1>11, <1>12, <1>13,
     <1>14, <1>15, <1>16, <1>17, <1>18, <1>19, <1>20, <1>21, <1>22, <1>23, <1>24, <1>25,
     Zenon DEF Next, OpenStep, CloseOwned, OpStep


(***************************************************************************)
(* Registrations                                                           *)
(***************************************************************************)

\* Tasks that wait for their registration or have it under way.
Chained == {"waiting"} \cup Asking

\* A step that touches no registration keeps the chains.
LEMMA ChainFrame ==
  ASSUME TypeOperation, ChainInv, chain' = chain,
         \A o \in Ops : st[o] \in Chained => st'[o] = st[o] /\ of'[o] = of[o],
         \A o \in Ops : st'[o] \in Asking => st[o] \in Asking
  PROVE  ChainInv'
<1>1. \A p \in Owners : \A i \in 1 .. Len(chain[p]) : chain[p][i] \in Ops
  BY DEF TypeOperation
<1>2. ASSUME NEW p \in Owners, NEW i \in 1 .. Len(chain[p])
      PROVE  /\ of'[chain[p][i]] = p /\ st'[chain[p][i]] \in Chained
             /\ \A j \in 1 .. Len(chain[p]) : chain[p][i] = chain[p][j] => i = j
  BY <1>1, <1>2 DEF ChainInv, Chained
<1>3. ASSUME NEW o \in Ops, st'[o] \in Asking
      PROVE  chain[of'[o]] # <<>> /\ Head(chain[of'[o]]) = o
  BY <1>3 DEF ChainInv, Chained
<1>. QED
  BY <1>2, <1>3 DEF ChainInv, Chained

\* The elements of a shorter sequence.
LEMMA TailElement ==
  ASSUME NEW S, NEW s \in Seq(S), s # <<>>
  PROVE  /\ Tail(s) \in Seq(S) /\ Len(Tail(s)) = Len(s) - 1 /\ Head(s) = s[1] /\ 1 \in 1 .. Len(s)
         /\ \A i \in 1 .. Len(Tail(s)) : Tail(s)[i] = s[i + 1] /\ i + 1 \in 1 .. Len(s)
OBVIOUS

\* The elements of a longer sequence.
LEMMA AppendElement ==
  ASSUME NEW S, NEW s \in Seq(S), NEW x \in S
  PROVE  /\ Append(s, x) \in Seq(S) /\ Len(Append(s, x)) = Len(s) + 1 /\ Append(s, x) # <<>>
         /\ \A i \in 1 .. Len(s) : Append(s, x)[i] = s[i]
         /\ Append(s, x)[Len(s) + 1] = x
         /\ s # <<>> => Head(Append(s, x)) = Head(s)
<1>. DEFINE t == Append(s, x)
<1>1. t \in Seq(S) /\ Len(t) = Len(s) + 1 /\ \A i \in 1 .. Len(s) : t[i] = s[i]
  OBVIOUS
<1>2. t[Len(s) + 1] = x /\ Len(s) \in Nat
  OBVIOUS
<1>. HIDE DEF t
<1>3. t # <<>> /\ Head(t) = t[1]
  BY <1>1, <1>2
<1>4. s # <<>> => 1 \in 1 .. Len(s) /\ Head(s) = s[1]
  BY <1>2
<1>. QED
  BY <1>1, <1>2, <1>3, <1>4 DEF t

\* A step that takes the first registration off its chain.
LEMMA ChainTail ==
  ASSUME TypeOperation, ChainInv, NEW p \in Owners, chain[p] # <<>>, SettleChain(p),
         NEW o \in Ops, o = Head(chain[p]), st'[o] \notin Asking,
         \A n \in Ops : n # o => st'[n] = st[n] /\ of'[n] = of[n]
  PROVE  ChainInv'
<1>0. chain \in [Owners -> Seq(Ops)] /\ chain[p] \in Seq(Ops)
  BY DEF TypeOperation
<1>1. chain'[p] = Tail(chain[p]) /\ \A q \in Owners : q # p => chain'[q] = chain[q]
  BY <1>0 DEF SettleChain
<1>2. /\ Len(chain'[p]) = Len(chain[p]) - 1 /\ o = chain[p][1] /\ 1 \in 1 .. Len(chain[p])
      /\ \A i \in 1 .. Len(chain'[p]) : chain'[p][i] = chain[p][i + 1] /\ i + 1 \in 1 .. Len(chain[p])
  <2>. HIDE DEF SettleChain
  <2>. QED
    BY <1>0, <1>1, TailElement
<1>3. Len(chain[p]) \in Nat
  BY <1>0
<1>4. of[o] = p
  BY <1>2 DEF ChainInv
<1>5. ASSUME NEW q \in Owners, NEW i \in 1 .. Len(chain'[q])
      PROVE  /\ of'[chain'[q][i]] = q /\ st'[chain'[q][i]] \in Chained
             /\ \A j \in 1 .. Len(chain'[q]) : chain'[q][i] = chain'[q][j] => i = j
  <2>1. CASE q = p
    <3>1. i + 1 \in 1 .. Len(chain[p]) /\ chain'[p][i] = chain[p][i + 1] /\ i + 1 # 1
      BY <1>2, <1>3, <1>5, <2>1
    <3>2. chain[p][i + 1] # o /\ chain[p][i + 1] \in Ops
      BY <1>0, <1>2, <3>1 DEF ChainInv
    <3>3. of'[chain'[p][i]] = p /\ st'[chain'[p][i]] \in Chained
      BY <3>1, <3>2 DEF ChainInv, Chained
    <3>4. ASSUME NEW j \in 1 .. Len(chain'[p]), chain'[p][i] = chain'[p][j] PROVE i = j
      <4>1. j + 1 \in 1 .. Len(chain[p]) /\ chain[p][i + 1] = chain[p][j + 1]
        BY <1>2, <3>1, <3>4
      <4>2. i + 1 = j + 1
        BY <3>1, <4>1 DEF ChainInv
      <4>3. i \in Nat /\ j \in Nat
        BY <1>2, <1>3, <1>5, <2>1, <3>4
      <4>. QED
        BY <4>2, <4>3
    <3>. QED
      BY <2>1, <3>3, <3>4
  <2>2. CASE q # p
    <3>1. chain'[q] = chain[q] /\ i \in 1 .. Len(chain[q])
      BY <1>1, <1>5, <2>2
    <3>2. of[chain[q][i]] = q /\ chain[q][i] \in Ops /\ st[chain[q][i]] \in Chained
          /\ \A j \in 1 .. Len(chain[q]) : chain[q][i] = chain[q][j] => i = j
      BY <1>0, <3>1 DEF ChainInv, Chained
    <3>. QED
      BY <1>4, <2>2, <3>1, <3>2
  <2>. QED
    BY <2>1, <2>2
<1>6. ASSUME NEW n \in Ops, st'[n] \in Asking
      PROVE  chain'[of'[n]] # <<>> /\ Head(chain'[of'[n]]) = n
  <2>1. n # o /\ st[n] \in Asking /\ of'[n] = of[n]
    BY <1>6
  <2>2. chain[of[n]] # <<>> /\ Head(chain[of[n]]) = n
    BY <2>1 DEF ChainInv
  <2>3. of[n] # p
    BY <2>1, <2>2
  <2>4. chain'[of[n]] = chain[of[n]]
    BY <1>0, <2>3 DEF SettleChain
  <2>. QED
    BY <2>1, <2>2, <2>4
<1>. QED
  BY <1>5, <1>6 DEF ChainInv, Chained

\* A new task goes to the end of its process's chain.
LEMMA ChainAppend ==
  ASSUME TypeOperation, ChainInv, NEW p \in Owners, NEW o \in Ops, st[o] = "idle",
         st' = [st EXCEPT ![o] = "waiting"], of' = [of EXCEPT ![o] = p],
         chain' = [chain EXCEPT ![p] = Append(@, o)]
  PROVE  ChainInv'
<1>0. chain \in [Owners -> Seq(Ops)] /\ chain[p] \in Seq(Ops) /\ Len(chain[p]) \in Nat
      /\ st \in [Ops -> Live \cup {"idle", "settled", "dead"}] /\ of \in [Ops -> Owners \cup {NoOwner}]
  BY DEF TypeOperation
<1>1. chain'[p] = Append(chain[p], o) /\ \A q \in Owners : q # p => chain'[q] = chain[q]
  BY <1>0
<1>2. /\ Len(chain'[p]) = Len(chain[p]) + 1 /\ chain'[p] # <<>>
      /\ \A i \in 1 .. Len(chain[p]) : chain'[p][i] = chain[p][i]
      /\ chain'[p][Len(chain[p]) + 1] = o
      /\ chain[p] # <<>> => Head(chain'[p]) = Head(chain[p])
  BY <1>0, <1>1, AppendElement
<1>3. /\ st'[o] = "waiting" /\ of'[o] = p
      /\ \A n \in Ops : n # o => st'[n] = st[n] /\ of'[n] = of[n]
  BY <1>0
<1>4. \A q \in Owners : \A i \in 1 .. Len(chain[q]) :
        /\ chain[q][i] \in Ops /\ chain[q][i] # o
        /\ of[chain[q][i]] = q /\ st[chain[q][i]] \in Chained
        /\ \A j \in 1 .. Len(chain[q]) : chain[q][i] = chain[q][j] => i = j
  BY <1>0 DEF ChainInv, Chained, Asking
<1>5. ASSUME NEW q \in Owners, NEW i \in 1 .. Len(chain'[q])
      PROVE  /\ of'[chain'[q][i]] = q /\ st'[chain'[q][i]] \in Chained
             /\ \A j \in 1 .. Len(chain'[q]) : chain'[q][i] = chain'[q][j] => i = j
  <2>1. CASE q # p
    BY <1>1, <1>3, <1>4, <1>5, <2>1
  <2>2. CASE q = p
    <3>1. \A j \in 1 .. Len(chain'[p]) : j \in 1 .. Len(chain[p]) \/ j = Len(chain[p]) + 1
      BY <1>0, <1>2
    <3>2. \A j \in 1 .. Len(chain[p]) : chain'[p][j] = chain[p][j] /\ chain'[p][j] # o
      BY <1>2, <1>4
    <3>3. CASE i = Len(chain[p]) + 1
      BY <1>2, <1>3, <2>2, <3>1, <3>2, <3>3 DEF Chained
    <3>4. CASE i \in 1 .. Len(chain[p])
      BY <1>2, <1>3, <1>4, <2>2, <3>1, <3>2, <3>4
    <3>. QED
      BY <1>5, <2>2, <3>1, <3>3, <3>4
  <2>. QED
    BY <2>1, <2>2
<1>6. ASSUME NEW n \in Ops, st'[n] \in Asking
      PROVE  chain'[of'[n]] # <<>> /\ Head(chain'[of'[n]]) = n
  <2>1. n # o /\ st[n] \in Asking /\ of'[n] = of[n]
    BY <1>3, <1>6 DEF Asking
  <2>2. chain[of[n]] # <<>> /\ Head(chain[of[n]]) = n
    BY <2>1 DEF ChainInv
  <2>3. CASE of[n] = p
    BY <1>2, <2>1, <2>2, <2>3
  <2>4. CASE of[n] # p
    <3>1. chain'[of[n]] = chain[of[n]]
      BY <1>0, <2>4
    <3>. QED
      BY <2>1, <2>2, <3>1
  <2>. QED
    BY <2>3, <2>4
<1>. QED
  BY <1>5, <1>6 DEF ChainInv, Chained

\* Every step keeps registrations in order.
LEMMA ChainNext ==
  ASSUME Inv, [Next]_vars
  PROVE  ChainInv'
<1>. USE DEF process, operation
<1>0. TypeOperation /\ ChainInv
  BY Parts
<1>1. ASSUME NEW p \in Owners, OpenStarts(p) PROVE ChainInv'
  BY <1>0, <1>1, ChainFrame DEF TypeOperation, Chained, Asking, OpenStarts
<1>2. ASSUME NEW p \in Owners, NEW o \in Owners, Inspect(p, o) PROVE ChainInv'
  BY <1>0, <1>2, ChainFrame DEF TypeOperation, Chained, Asking, Inspect, Unlocked
<1>3. ASSUME NEW p \in Owners, NEW o \in Owners, Reclaim(p, o) PROVE ChainInv'
  BY <1>0, <1>3, ReclaimEffect, ChainFrame DEF TypeOperation, Chained, Asking, Dropped
<1>4. ASSUME NEW p \in Owners, NEW o \in Owners, UnlinkReclaimed(p, o) PROVE ChainInv'
  BY <1>0, <1>4, ChainFrame DEF TypeOperation, Chained, Asking, UnlinkReclaimed
<1>5. ASSUME NEW p \in Owners, CreateLock(p) PROVE ChainInv'
  BY <1>0, <1>5, ChainFrame DEF TypeOperation, Chained, Asking, CreateLock
<1>6. ASSUME NEW p \in Owners, RegisterOwner(p) PROVE ChainInv'
  BY <1>0, <1>6, RegisterEffect, ChainFrame DEF TypeOperation, Chained, Asking,
     RegisterOwner
<1>7. ASSUME NEW p \in Owners, NEW o \in Ops, Run(p, o) PROVE ChainInv'
  BY <1>0, <1>7, ChainAppend DEF Run
<1>8. ASSUME NEW p \in Owners, Register(p) PROVE ChainInv'
  <2>0. PICK o \in Ops : o = Head(chain[p]) /\ st[o] = "waiting" /\ chain[p] # <<>>
    BY <1>0, <1>8 DEF TypeOperation, Register
  <2>1. CASE st' = [st EXCEPT ![o] = "settled"] /\ SettleChain(p) /\ Forget({o})
    <3>1. \A n \in Ops : n # o => st'[n] = st[n] /\ of'[n] = of[n]
      BY <1>0, <2>1 DEF TypeOperation, Forget
    <3>2. st'[o] \notin Asking
      BY <1>0, <2>1 DEF TypeOperation, Asking
    <3>. QED
      BY <1>0, <2>0, <2>1, <3>1, <3>2, ChainTail
  <2>2. CASE st' = [st EXCEPT ![o] = "requesting"] /\ UNCHANGED <<chain, of>>
    <3>0. chain[p] \in Seq(Ops) /\ chain[p] # <<>>
      BY <1>0, <2>0 DEF TypeOperation
    <3>1. 1 \in 1 .. Len(chain[p]) /\ o = chain[p][1]
      BY <2>0, <3>0
    <3>2. of[o] = p
      BY <1>0, <3>1 DEF ChainInv
    <3>3. \A n \in Ops : st'[n] \in Chained <=> st[n] \in Chained
      BY <1>0, <2>0, <2>2 DEF TypeOperation, Chained, Asking
    <3>4. \A n \in Ops : st'[n] \in Asking => st[n] \in Asking \/ n = o
      BY <1>0, <2>2 DEF TypeOperation
    <3>5. \A q \in Owners : \A i \in 1 .. Len(chain[q]) : chain[q][i] \in Ops
      BY <1>0 DEF TypeOperation
    <3>. QED
      BY <1>0, <2>0, <2>2, <3>2, <3>3, <3>4, <3>5 DEF ChainInv, Chained
  <2>. QED
    BY <1>8, <2>0, <2>1, <2>2 DEF Register
<1>9. ASSUME NEW o \in Ops, Ask(o) PROVE ChainInv'
  <2>0. st[o] = "requesting" /\ of' = of
    BY <1>9 DEF Ask
  <2>1. of[o] \in Owners /\ chain[of[o]] # <<>> /\ Head(chain[of[o]]) = o
    BY <2>0, Placed DEF Live, Asking
  <2>2. \/ st' = [st EXCEPT ![o] = "answered"] /\ SettleChain(of[o])
        \/ st' = [st EXCEPT ![o] = "fencing"] /\ chain' = chain
    BY <1>9, AskEffect DEF Asked
  <2>3. CASE st' = [st EXCEPT ![o] = "answered"] /\ SettleChain(of[o])
    <3>1. st'[o] \notin Asking /\ \A n \in Ops : n # o => st'[n] = st[n] /\ of'[n] = of[n]
      BY <1>0, <2>0, <2>3 DEF TypeOperation, Asking
    <3>. QED
      BY <1>0, <2>1, <2>3, <3>1, ChainTail
  <2>4. CASE st' = [st EXCEPT ![o] = "fencing"] /\ chain' = chain
    <3>1. \A n \in Ops : st'[n] \in Chained <=> st[n] \in Chained
      BY <1>0, <2>0, <2>4 DEF TypeOperation, Chained, Asking
    <3>2. \A n \in Ops : st'[n] \in Asking <=> st[n] \in Asking
      BY <1>0, <2>0, <2>4 DEF TypeOperation, Asking
    <3>3. \A q \in Owners : \A i \in 1 .. Len(chain[q]) : chain[q][i] \in Ops
      BY <1>0 DEF TypeOperation
    <3>. QED
      BY <1>0, <2>0, <2>4, <3>1, <3>2, <3>3 DEF ChainInv, Chained
  <2>. QED
    BY <2>2, <2>3, <2>4
<1>10. ASSUME NEW o \in Ops, Fence(o) PROVE ChainInv'
  <2>0. st[o] = "fencing" /\ of' = of /\ st' = [st EXCEPT ![o] = "finishing"] /\ SettleChain(of[o])
    BY <1>10 DEF Fence
  <2>1. of[o] \in Owners /\ chain[of[o]] # <<>> /\ Head(chain[of[o]]) = o
    BY <2>0, Placed DEF Live, Asking
  <2>2. st'[o] \notin Asking /\ \A n \in Ops : n # o => st'[n] = st[n] /\ of'[n] = of[n]
    BY <1>0, <2>0 DEF TypeOperation, Asking
  <2>. QED
    BY <1>0, <2>0, <2>1, <2>2, ChainTail
<1>11. ASSUME NEW o \in Ops, Decide(o) PROVE ChainInv'
  <2>1. /\ st[o] = "answered" /\ \E s \in {"delaying", "running", "finishing"} : st' = [st EXCEPT ![o] = s]
        /\ UNCHANGED <<chain, of>>
    BY <1>11 DEF Decide
  <2>. QED
    BY <1>0, <2>1, ChainFrame DEF TypeOperation, Chained, Asking
<1>12. ASSUME NEW o \in Ops, Poll(o) PROVE ChainInv'
  <2>1. /\ st[o] = "delaying" /\ \E s \in {"answered", "finishing"} : st' = [st EXCEPT ![o] = s]
        /\ UNCHANGED <<chain, of>>
    BY <1>12, PollEffect DEF Poll
  <2>. QED
    BY <1>0, <2>1, ChainFrame DEF TypeOperation, Chained, Asking
<1>13. ASSUME NEW o \in Ops, Complete(o) PROVE ChainInv'
  BY <1>0, <1>13, ChainFrame DEF TypeOperation, Chained, Asking, Complete
<1>14. ASSUME NEW o \in Ops, Settle(o) PROVE ChainInv'
  <2>1. /\ st[o] = "finishing" /\ st' = [st EXCEPT ![o] = "settled"] /\ chain' = chain
        /\ \A n \in Ops : n # o => of'[n] = of[n]
    BY <1>14 DEF Settle, Forget
  <2>. QED
    BY <1>0, <2>1, ChainFrame DEF TypeOperation, Chained, Asking
<1>15. ASSUME NEW p \in Owners, WithOwnership(p) PROVE ChainInv'
  BY <1>0, <1>15, ChainFrame DEF TypeOperation, Chained, Asking, WithOwnership
<1>16. ASSUME NEW p \in Owners, AdminSettles(p) PROVE ChainInv'
  BY <1>0, <1>16, ChainFrame DEF TypeOperation, Chained, Asking, AdminSettles
<1>17. ASSUME NEW p \in Owners, Close(p) PROVE ChainInv'
  BY <1>0, <1>17, ChainFrame DEF TypeOperation, Chained, Asking, Close, CloseStep
<1>18. ASSUME NEW p \in Owners, Join(p) PROVE ChainInv'
  BY <1>0, <1>18, ChainFrame DEF TypeOperation, Chained, Asking, Join, CloseStep, LiveOf
<1>19. ASSUME NEW p \in Owners, Retry(p) PROVE ChainInv'
  <2>1. PICK o \in Ops : Retried(p, o)
    BY <1>19, RetryEffect
  <2>2. st' = st /\ chain' = chain
    BY <1>19, RetryEffect
  <2>3. o \in unfinished /\ \A n \in Ops : n # o => of'[n] = of[n]
    BY <2>1 DEF Retried, Forget
  <2>4. st[o] \in {"finishing", "settled"}
    BY <2>3, Parts DEF TaskInv
  <2>. QED
    BY <1>0, <2>2, <2>3, <2>4, ChainFrame DEF TypeOperation, Chained, Asking
<1>20. ASSUME NEW p \in Owners, Retire(p) PROVE ChainInv'
  <2>1. UNCHANGED <<chain, st, of>>
    BY <1>20, RetireEffect
  <2>. QED
    BY <1>0, <2>1, ChainFrame
<1>21. ASSUME NEW p \in Owners, Unlock(p) PROVE ChainInv'
  BY <1>0, <1>21, ChainFrame DEF TypeOperation, Chained, Asking, Unlock, CloseStep
<1>22. ASSUME NEW p \in Owners, Unlink(p) PROVE ChainInv'
  BY <1>0, <1>22, ChainFrame DEF TypeOperation, Chained, Asking, Unlink, CloseStep
<1>23. ASSUME NEW p \in Owners, Crash(p) PROVE ChainInv'
  <2>0. chain \in [Owners -> Seq(Ops)]
    BY <1>0 DEF TypeOperation
  <2>1. /\ chain'[p] = <<>> /\ of' = of /\ \A q \in Owners : q # p => chain'[q] = chain[q]
        /\ \A n \in Ops : of[n] # p => st'[n] = st[n]
        /\ \A n \in Ops : st'[n] \in Asking => st[n] \in Asking /\ of[n] # p
    BY <2>0, <1>23 DEF Crash, LiveOf, Live, Asking
  <2>2. \A q \in Owners : \A i \in 1 .. Len(chain[q]) :
          /\ chain[q][i] \in Ops /\ of[chain[q][i]] = q /\ st[chain[q][i]] \in Chained
          /\ \A j \in 1 .. Len(chain[q]) : chain[q][i] = chain[q][j] => i = j
    BY <1>0, <2>0 DEF ChainInv, Chained
  <2>3. ASSUME NEW q \in Owners, NEW i \in 1 .. Len(chain'[q])
        PROVE  /\ of'[chain'[q][i]] = q /\ st'[chain'[q][i]] \in Chained
               /\ \A j \in 1 .. Len(chain'[q]) : chain'[q][i] = chain'[q][j] => i = j
    <3>1. q # p
      BY <2>1, <2>3
    <3>. QED
      BY <2>1, <2>2, <2>3, <3>1
  <2>4. ASSUME NEW n \in Ops, st'[n] \in Asking
        PROVE  chain'[of'[n]] # <<>> /\ Head(chain'[of'[n]]) = n
    <3>1. of[n] # p /\ of[n] \in Owners /\ chain[of[n]] # <<>> /\ Head(chain[of[n]]) = n
      BY <2>1, <2>4, Placed DEF Asking, Live
    <3>. QED
      BY <2>1, <3>1
  <2>. QED
    BY <2>3, <2>4 DEF ChainInv, Chained
<1>24. ASSUME PressureSample \/ \E o \in Ops : DeadlinePasses(o) PROVE ChainInv'
  BY <1>0, <1>24, EnvironmentEffect, ChainFrame DEF TypeOperation, Chained, Asking, Keeps,
     OnlyDb
<1>25. ASSUME UNCHANGED vars PROVE ChainInv'
  BY <1>0, <1>25, ChainFrame DEF TypeOperation, Chained, Asking, vars
<1>. QED
  BY <1>1, <1>2, <1>3, <1>4, <1>5, <1>6, <1>7, <1>8, <1>9, <1>10, <1>11, <1>12, <1>13,
     <1>14, <1>15, <1>16, <1>17, <1>18, <1>19, <1>20, <1>21, <1>22, <1>23, <1>24, <1>25,
     Zenon DEF Next, OpenStep, CloseOwned, OpStep


(***************************************************************************)
(* The serial counter                                                      *)
(***************************************************************************)

\* A step that touches neither the counters of p nor its registrations.
CounterKept(p) ==
  /\ up'[p] = up[p] /\ db'.last[p] = db.last[p] /\ sequence'[p] = sequence[p]
  /\ (p \in db'.reg => p \in db.reg) /\ (closed[p] => closed'[p])
  /\ \A n \in Ops : of[n] = p /\ st[n] \in Asking => of'[n] = p /\ st'[n] \in Asking

\* It keeps the counter in step.
LEMMA CounterFrame ==
  ASSUME NEW p \in Owners, CounterInv, CounterKept(p)
  PROVE  CounterOf(p)'
BY DEF CounterInv, CounterOf, CounterKept

\* The numbers of a task that has one.
LEMMA Numbers ==
  ASSUME Inv, NEW o \in Ops, st[o] \in Live \/ o \in unfinished
  PROVE  /\ of[o] \in Owners /\ of[o] \in db.reg /\ up[of[o]] = "open"
         /\ seq[o] \in Nat /\ sequence[of[o]] \in Nat /\ db.last \in [Owners -> Nat]
         /\ db.last[of[o]] \in Nat
         /\ sequence[of[o]] = db.last[of[o]] \/ sequence[of[o]] = db.last[of[o]] + 1
         /\ sequence[of[o]] = db.last[of[o]] \/ closed[of[o]]
              \/ \E n \in Ops : of[n] = of[o] /\ st[n] \in Asking
<1>1. TaskInv /\ TypeOperation /\ CounterInv /\ db.last \in [Owners -> Nat]
  BY Parts, RowsFields
<1>2. of[o] \in Owners /\ of[o] \in db.reg /\ up[of[o]] = "open"
  BY <1>1, Placed DEF TaskInv
<1>3. CounterOf(of[o])
  BY <1>1, <1>2 DEF CounterInv
<1>. QED
  BY <1>1, <1>2, <1>3 DEF CounterOf, TypeOperation

\* Only one registration of a process is under way.
LEMMA OneAsks ==
  ASSUME ChainInv, NEW o \in Ops, NEW n \in Ops, st[o] \in Asking, st[n] \in Asking, of[o] = of[n]
  PROVE  o = n
BY DEF ChainInv

\* What a call for o does to the counters in the database.
LEMMA CountedStep ==
  ASSUME Inv, NEW o \in Ops, st[o] \in Live \/ o \in unfinished, db'.last \in {db.last, Counted(o)}
  PROVE  /\ \A q \in Owners : q # of[o] => db'.last[q] = db.last[q]
         /\ \/ db'.last[of[o]] = db.last[of[o]]
            \/ seq[o] = db.last[of[o]] + 1 /\ db'.last[of[o]] = seq[o]
         /\ db'.last = Counted(o) /\ seq[o] = db.last[of[o]] + 1 => db'.last[of[o]] = seq[o]
<1>1. of[o] \in Owners /\ db.last \in [Owners -> Nat]
  BY Numbers
<1>. QED
  BY <1>1 DEF Counted

\* Every step keeps the counters in step.
LEMMA CounterNext ==
  ASSUME Inv, [Next]_vars
  PROVE  CounterInv'
<1>. USE DEF process, operation
<1>0. TypeProcess /\ TypeOperation /\ LockInv /\ CloseInv /\ TaskInv /\ ChainInv /\ CounterInv /\ NumberInv
  BY Parts
<1>1. ASSUME NEW p \in Owners, OpenStarts(p) PROVE CounterInv'
  <2>k. \A q \in Owners : q # p => CounterKept(q)
    BY <1>0, <1>1 DEF TypeProcess, TypeOperation, CounterKept, OpenStarts
  <2>m. CounterOf(p)'
    BY <1>0, <1>1 DEF TypeProcess, TypeOperation, CounterInv, CounterOf, CloseInv,
       OpenStarts
  <2>. QED
    BY <1>0, <2>k, <2>m, CounterFrame DEF CounterInv
<1>2. ASSUME NEW p \in Owners, NEW o \in Owners, Inspect(p, o) PROVE CounterInv'
  <2>k. \A q \in Owners : CounterKept(q)
    BY <1>0, <1>2 DEF TypeProcess, TypeOperation, CounterKept, Asking, Inspect, Unlocked
  <2>. QED
    BY <1>0, <2>k, CounterFrame DEF CounterInv
<1>3. ASSUME NEW p \in Owners, NEW o \in Owners, Reclaim(p, o) PROVE CounterInv'
  <2>1. /\ up[p] = "opening" /\ held[p] = {o} /\ o \in db.reg /\ db'.reg \in {db.reg, db.reg \ {o}}
        /\ up' = up \/ up' = [up EXCEPT ![p] = "failed"]
        /\ UNCHANGED <<closed, st, of, sequence>>
        /\ \A q \in Owners \ {o} : db'.last[q] = db.last[q]
        /\ o \in db'.reg => db' = db
    BY <1>3, ReclaimEffect DEF Dropped
  <2>2. o # p /\ up[o] \notin {"new", "opening", "registering"} /\ up[o] # "open"
    BY <1>0, <2>1 DEF LockInv
  <2>k. \A q \in Owners : q # o /\ q # p => CounterKept(q)
    BY <1>0, <2>1 DEF TypeProcess, CounterKept
  <2>m. CounterOf(o)'
    BY <1>0, <2>1, <2>2 DEF TypeProcess, CounterOf
  <2>n. CounterOf(p)'
    BY <1>0, <2>1, <2>2 DEF TypeProcess, CounterInv, CounterOf
  <2>. QED
    BY <1>0, <2>k, <2>m, <2>n, CounterFrame DEF CounterInv
<1>4. ASSUME NEW p \in Owners, NEW o \in Owners, UnlinkReclaimed(p, o) PROVE CounterInv'
  <2>k. \A q \in Owners : q # p => CounterKept(q)
    BY <1>0, <1>4 DEF TypeProcess, TypeOperation, CounterKept, UnlinkReclaimed
  <2>m. CounterOf(p)'
    BY <1>0, <1>4 DEF TypeProcess, TypeOperation, CounterInv, CounterOf, CloseInv,
       UnlinkReclaimed
  <2>. QED
    BY <1>0, <2>k, <2>m, CounterFrame DEF CounterInv
<1>5. ASSUME NEW p \in Owners, CreateLock(p) PROVE CounterInv'
  <2>k. \A q \in Owners : q # p => CounterKept(q)
    BY <1>0, <1>5 DEF TypeProcess, TypeOperation, CounterKept, CreateLock
  <2>m. CounterOf(p)'
    BY <1>0, <1>5 DEF TypeProcess, TypeOperation, CounterInv, CounterOf, CloseInv,
       CreateLock
  <2>. QED
    BY <1>0, <2>k, <2>m, CounterFrame DEF CounterInv
<1>6. ASSUME NEW p \in Owners, RegisterOwner(p) PROVE CounterInv'
  <2>1. /\ up[p] = "registering" /\ UNCHANGED <<closed, st, of, sequence>> /\ db'.last = db.last
        /\ db'.reg \in {db.reg, db.reg \cup {p}} /\ \E u \in {"open", "failed"} : up' = [up EXCEPT ![p] = u]
    BY <1>6, RegisterEffect DEF RegisterOwner
  <2>k. \A q \in Owners : q # p => CounterKept(q)
    BY <1>0, <2>1 DEF TypeProcess, CounterKept
  <2>m. CounterOf(p)'
    BY <1>0, <2>1 DEF TypeProcess, CounterInv, CounterOf
  <2>. QED
    BY <1>0, <2>k, <2>m, CounterFrame DEF CounterInv
<1>7. ASSUME NEW p \in Owners, NEW o \in Ops, Run(p, o) PROVE CounterInv'
  <2>k. \A q \in Owners : CounterKept(q)
    BY <1>0, <1>7 DEF TypeProcess, TypeOperation, CounterKept, Asking, Run
  <2>. QED
    BY <1>0, <2>k, CounterFrame DEF CounterInv
<1>8. ASSUME NEW p \in Owners, Register(p) PROVE CounterInv'
  <2>0. PICK o \in Ops : o = Head(chain[p]) /\ st[o] = "waiting" /\ chain[p] # <<>>
          /\ UNCHANGED <<db, up, closed>>
    BY <1>0, <1>8 DEF TypeOperation, Register
  <2>a. of[o] = p /\ \A n \in Ops : of[n] = p => st[n] \notin Asking
    <3>1. chain[p] \in Seq(Ops) /\ chain[p] # <<>>
      BY <1>0, <2>0 DEF TypeOperation
    <3>2. 1 \in 1 .. Len(chain[p]) /\ o = chain[p][1]
      BY <2>0, <3>1
    <3>. QED
      BY <1>0, <2>0, <3>2 DEF ChainInv, Asking
  <2>1. CASE st' = [st EXCEPT ![o] = "settled"] /\ sequence' = sequence
             /\ \A n \in Ops : n # o => of'[n] = of[n]
    <3>1. \A q \in Owners : CounterKept(q)
      BY <1>0, <2>0, <2>1 DEF TypeOperation, CounterKept, Asking
    <3>. QED
      BY <1>0, <3>1, CounterFrame DEF CounterInv
  <2>2. CASE /\ ~closed[of[o]] /\ sequence' = [sequence EXCEPT ![p] = @ + 1]
             /\ st' = [st EXCEPT ![o] = "requesting"] /\ of' = of
    <3>1. up[p] = "open" /\ sequence[p] \in Nat /\ sequence[p] = db.last[p]
      BY <2>0, <2>a, <2>2, Numbers DEF Live
    <3>2. \A q \in Owners : q # p => CounterKept(q)
      BY <1>0, <2>0, <2>a, <2>2 DEF TypeOperation, CounterKept
    <3>3. of'[o] = p /\ st'[o] \in Asking /\ sequence'[p] = db.last[p] + 1
      BY <1>0, <2>0, <2>a, <2>2, <3>1 DEF TypeOperation, Asking
    <3>4. CounterOf(p)'
      BY <2>0, <3>1, <3>3 DEF CounterOf
    <3>. QED
      BY <1>0, <3>2, <3>4, CounterFrame DEF CounterInv
  <2>. QED
    BY <1>8, <2>0, <2>1, <2>2 DEF Register, Forget, MayProceed
<1>9. ASSUME NEW o \in Ops, Ask(o) PROVE CounterInv'
  <2>0. st[o] = "requesting" /\ UNCHANGED <<up, closed, of, sequence>>
    BY <1>9 DEF Ask
  <2>1. /\ db'.reg = db.reg /\ db'.last \in {db.last, Counted(o)}
        /\ \/ st' = [st EXCEPT ![o] = "answered"] /\ db'.last = Counted(o)
           \/ st' = [st EXCEPT ![o] = "fencing"]
    BY <1>9, AskEffect DEF Asked, Keeps
  <2>2. PICK p \in Owners : p = of[o] /\ up[p] = "open" /\ db.last[p] \in Nat
    BY <2>0, Numbers DEF Live
  <2>3. seq[o] = sequence[p] /\ seq[o] = db.last[p] + 1
    BY <1>0, <2>0, <2>2 DEF NumberInv, NumberOf, Asking
  <2>4. /\ \A q \in Owners : q # p => db'.last[q] = db.last[q]
        /\ db'.last[p] = db.last[p] \/ db'.last[p] = seq[o]
        /\ db'.last = Counted(o) => db'.last[p] = seq[o]
    BY <2>0, <2>1, <2>2, <2>3, CountedStep DEF Live
  <2>k. \A q \in Owners : q # p => CounterKept(q)
    BY <1>0, <2>0, <2>1, <2>2, <2>4 DEF TypeOperation, CounterKept
  <2>5. st' = [st EXCEPT ![o] = "fencing"] => st'[o] \in Asking
    BY <1>0 DEF TypeOperation, Asking
  <2>m. CounterOf(p)'
    BY <2>0, <2>1, <2>2, <2>3, <2>4, <2>5 DEF CounterOf
  <2>. QED
    BY <1>0, <2>k, <2>m, CounterFrame DEF CounterInv
<1>10. ASSUME NEW o \in Ops, Fence(o) PROVE CounterInv'
  <2>0. st[o] = "fencing" /\ st' = [st EXCEPT ![o] = "finishing"] /\ UNCHANGED <<up, of, sequence>>
    BY <1>10 DEF Fence
  <2>1. /\ db'.reg = db.reg /\ db'.last \in {db.last, Counted(o)}
        /\ \/ closed' = closed /\ db'.last = Counted(o)
           \/ closed' = [closed EXCEPT ![of[o]] = TRUE]
    BY <1>10, FenceEffect DEF Reported, Keeps
  <2>2. PICK p \in Owners : /\ p = of[o] /\ up[p] = "open" /\ db.last[p] \in Nat
                            /\ sequence[p] = db.last[p] \/ sequence[p] = db.last[p] + 1
    BY <2>0, Numbers DEF Live
  <2>3. seq[o] = sequence[p]
    BY <1>0, <2>0, <2>2 DEF NumberInv, NumberOf, Asking
  <2>4. /\ \A q \in Owners : q # p => db'.last[q] = db.last[q]
        /\ db'.last[p] = db.last[p] \/ (seq[o] = db.last[p] + 1 /\ db'.last[p] = seq[o])
        /\ db'.last = Counted(o) => db'.last[p] = sequence[p]
    BY <2>0, <2>1, <2>2, <2>3, CountedStep DEF Live
  <2>5. closed'[p] \/ db'.last[p] = sequence[p]
    BY <1>0, <2>1, <2>2, <2>4 DEF TypeProcess
  <2>6. \A q \in Owners : closed[q] => closed'[q]
    BY <1>0, <2>1 DEF TypeProcess
  <2>k. \A q \in Owners : q # p => CounterKept(q)
    BY <1>0, <2>0, <2>1, <2>2, <2>4, <2>6 DEF TypeOperation, CounterKept
  <2>7. sequence[p] = db'.last[p] \/ sequence[p] = db'.last[p] + 1
    BY <2>2, <2>3, <2>4
  <2>m. CounterOf(p)'
    BY <2>0, <2>2, <2>5, <2>7 DEF CounterOf
  <2>. QED
    BY <1>0, <2>k, <2>m, CounterFrame DEF CounterInv
<1>11. ASSUME NEW o \in Ops, Decide(o) PROVE CounterInv'
  <2>1. /\ st[o] = "answered" /\ \E s \in {"delaying", "running", "finishing"} : st' = [st EXCEPT ![o] = s]
        /\ UNCHANGED <<db, up, sequence, closed, of>>
    BY <1>11 DEF Decide
  <2>k. \A q \in Owners : CounterKept(q)
    BY <1>0, <2>1 DEF TypeOperation, CounterKept, Asking
  <2>. QED
    BY <1>0, <2>k, CounterFrame DEF CounterInv
<1>12. ASSUME NEW o \in Ops, Poll(o) PROVE CounterInv'
  <2>1. /\ st[o] = "delaying" /\ db'.reg = db.reg /\ db'.last = db.last
        /\ \E s \in {"answered", "finishing"} : st' = [st EXCEPT ![o] = s]
        /\ UNCHANGED <<up, sequence, closed, of>>
    BY <1>12, PollEffect DEF Poll, Keeps
  <2>k. \A q \in Owners : CounterKept(q)
    BY <1>0, <2>1 DEF TypeOperation, CounterKept, Asking
  <2>. QED
    BY <1>0, <2>k, CounterFrame DEF CounterInv
<1>13. ASSUME NEW o \in Ops, Complete(o) PROVE CounterInv'
  <2>k. \A q \in Owners : CounterKept(q)
    BY <1>0, <1>13 DEF TypeProcess, TypeOperation, CounterKept, Asking, Complete
  <2>. QED
    BY <1>0, <2>k, CounterFrame DEF CounterInv
<1>14. ASSUME NEW o \in Ops, Settle(o) PROVE CounterInv'
  <2>0. /\ st[o] = "finishing" /\ st' = [st EXCEPT ![o] = "settled"] /\ UNCHANGED <<up, sequence>>
        /\ \A n \in Ops : n # o => of'[n] = of[n]
    BY <1>14 DEF Settle, Forget
  <2>1. /\ db'.reg = db.reg /\ db'.last \in {db.last, Counted(o)}
        /\ closed' = closed \/ closed' = [closed EXCEPT ![of[o]] = TRUE]
    BY <1>14, SettleEffect DEF Reported, Keeps
  <2>2. PICK q \in Owners : /\ q = of[o] /\ up[q] = "open" /\ db.last[q] \in Nat /\ sequence[q] \in Nat /\ seq[o] \in Nat
                            /\ sequence[q] = db.last[q] \/ sequence[q] = db.last[q] + 1
                            /\ sequence[q] = db.last[q] \/ closed[q] \/ \E n \in Ops : of[n] = q /\ st[n] \in Asking
    BY <2>0, Numbers DEF Live
  <2>3. seq[o] <= sequence[q]
    BY <1>0, <2>0, <2>2 DEF NumberInv, NumberOf, Numbered, Live
  <2>4. /\ \A r \in Owners : r # q => db'.last[r] = db.last[r]
        /\ db'.last[q] = db.last[q] \/ (seq[o] = db.last[q] + 1 /\ db'.last[q] = seq[o])
    BY <2>0, <2>1, <2>2, CountedStep DEF Live
  <2>5. db'.last[q] = db.last[q] \/ db'.last[q] = sequence[q]
    BY <2>2, <2>3, <2>4
  <2>6. \A r \in Owners : closed[r] => closed'[r]
    BY <1>0, <2>1 DEF TypeProcess
  <2>7. \A n \in Ops : st[n] \in Asking => st'[n] = st[n] /\ of'[n] = of[n]
    BY <1>0, <2>0, <2>1 DEF TypeOperation, Asking
  <2>k. \A r \in Owners : r # q => CounterKept(r)
    BY <1>0, <2>0, <2>1, <2>4, <2>6, <2>7 DEF CounterKept
  <2>8. sequence[q] = db'.last[q] \/ sequence[q] = db'.last[q] + 1
    BY <2>2, <2>5
  <2>9. CASE db'.last[q] = db.last[q]
    <3>1. CounterKept(q)
      BY <1>0, <2>0, <2>1, <2>6, <2>7, <2>9 DEF CounterKept
    <3>. QED
      BY <1>0, <2>k, <3>1, CounterFrame DEF CounterInv
  <2>10. CASE db'.last[q] = sequence[q]
    <3>1. CounterOf(q)'
      BY <2>0, <2>1, <2>2, <2>10 DEF CounterOf
    <3>. QED
      BY <1>0, <2>k, <3>1, CounterFrame DEF CounterInv
  <2>. QED
    BY <2>5, <2>9, <2>10
<1>15. ASSUME NEW p \in Owners, WithOwnership(p) PROVE CounterInv'
  <2>k. \A q \in Owners : CounterKept(q)
    BY <1>0, <1>15 DEF TypeProcess, TypeOperation, CounterKept, Asking, WithOwnership
  <2>. QED
    BY <1>0, <2>k, CounterFrame DEF CounterInv
<1>16. ASSUME NEW p \in Owners, AdminSettles(p) PROVE CounterInv'
  <2>k. \A q \in Owners : CounterKept(q)
    BY <1>0, <1>16 DEF TypeProcess, TypeOperation, CounterKept, Asking, AdminSettles
  <2>. QED
    BY <1>0, <2>k, CounterFrame DEF CounterInv
<1>17. ASSUME NEW p \in Owners, Close(p) PROVE CounterInv'
  <2>k. \A q \in Owners : CounterKept(q)
    BY <1>0, <1>17 DEF TypeProcess, TypeOperation, CounterKept, Asking, Close, CloseStep
  <2>. QED
    BY <1>0, <2>k, CounterFrame DEF CounterInv
<1>18. ASSUME NEW p \in Owners, Join(p) PROVE CounterInv'
  <2>k. \A q \in Owners : CounterKept(q)
    BY <1>0, <1>18 DEF TypeProcess, TypeOperation, CounterKept, Asking, Join, CloseStep,
       LiveOf
  <2>. QED
    BY <1>0, <2>k, CounterFrame DEF CounterInv
<1>19. ASSUME NEW p \in Owners, Retry(p) PROVE CounterInv'
  <2>a. PICK o \in Ops : Retried(p, o)
    BY <1>19, RetryEffect
  <2>b. o \in unfinished /\ \A n \in Ops : n # o => of'[n] = of[n]
    BY <2>a DEF Retried, Forget
  <2>0. /\ o \in unfinished /\ st[o] \in {"finishing", "settled"} /\ st' = st /\ UNCHANGED <<up, sequence>>
        /\ \A n \in Ops : n # o => of'[n] = of[n]
    BY <1>0, <1>19, <2>b, RetryEffect DEF TaskInv
  <2>1. /\ db'.reg = db.reg /\ db'.last \in {db.last, Counted(o)}
        /\ closed' = closed \/ closed' = [closed EXCEPT ![of[o]] = TRUE]
    BY <2>a DEF Retried, Reported, Keeps
  <2>2. PICK q \in Owners : /\ q = of[o] /\ up[q] = "open" /\ db.last[q] \in Nat /\ sequence[q] \in Nat /\ seq[o] \in Nat
                            /\ sequence[q] = db.last[q] \/ sequence[q] = db.last[q] + 1
                            /\ sequence[q] = db.last[q] \/ closed[q] \/ \E n \in Ops : of[n] = q /\ st[n] \in Asking
    BY <2>0, Numbers DEF Live
  <2>3. seq[o] <= sequence[q]
    BY <1>0, <2>0, <2>2 DEF NumberInv, NumberOf, Numbered, Live
  <2>4. /\ \A r \in Owners : r # q => db'.last[r] = db.last[r]
        /\ db'.last[q] = db.last[q] \/ (seq[o] = db.last[q] + 1 /\ db'.last[q] = seq[o])
    BY <2>0, <2>1, <2>2, CountedStep DEF Live
  <2>5. db'.last[q] = db.last[q] \/ db'.last[q] = sequence[q]
    BY <2>2, <2>3, <2>4
  <2>6. \A r \in Owners : closed[r] => closed'[r]
    BY <1>0, <2>1 DEF TypeProcess
  <2>7. \A n \in Ops : st[n] \in Asking => st'[n] = st[n] /\ of'[n] = of[n]
    BY <1>0, <2>0, <2>1 DEF TypeOperation, Asking
  <2>k. \A r \in Owners : r # q => CounterKept(r)
    BY <1>0, <2>0, <2>1, <2>4, <2>6, <2>7 DEF CounterKept
  <2>8. sequence[q] = db'.last[q] \/ sequence[q] = db'.last[q] + 1
    BY <2>2, <2>5
  <2>9. CASE db'.last[q] = db.last[q]
    <3>1. CounterKept(q)
      BY <1>0, <2>0, <2>1, <2>6, <2>7, <2>9 DEF CounterKept
    <3>. QED
      BY <1>0, <2>k, <3>1, CounterFrame DEF CounterInv
  <2>10. CASE db'.last[q] = sequence[q]
    <3>1. CounterOf(q)'
      BY <2>0, <2>1, <2>2, <2>10 DEF CounterOf
    <3>. QED
      BY <1>0, <2>k, <3>1, CounterFrame DEF CounterInv
  <2>. QED
    BY <2>5, <2>9, <2>10
<1>20. ASSUME NEW p \in Owners, Retire(p) PROVE CounterInv'
  <2>1. /\ closing[p] = "retrying" /\ UNCHANGED <<up, closed, st, of, sequence>>
        /\ db'.reg \in {db.reg, db.reg \ {p}}
        /\ \A q \in Owners \ {p} : db'.last[q] = db.last[q]
        /\ p \in db'.reg => db' = db
    BY <1>20, RetireEffect DEF Dropped
  <2>2. up[p] = "open"
    BY <1>0, <2>1 DEF CloseInv
  <2>k. \A q \in Owners : q # p => CounterKept(q)
    BY <1>0, <2>1 DEF CounterKept
  <2>m. CounterOf(p)'
    BY <1>0, <2>1, <2>2 DEF CounterInv, CounterOf
  <2>. QED
    BY <1>0, <2>k, <2>m, CounterFrame DEF CounterInv
<1>21. ASSUME NEW p \in Owners, Unlock(p) PROVE CounterInv'
  <2>k. \A q \in Owners : CounterKept(q)
    BY <1>0, <1>21 DEF TypeProcess, TypeOperation, CounterKept, Asking, Unlock, CloseStep
  <2>. QED
    BY <1>0, <2>k, CounterFrame DEF CounterInv
<1>22. ASSUME NEW p \in Owners, Unlink(p) PROVE CounterInv'
  <2>k. \A q \in Owners : q # p => CounterKept(q)
    BY <1>0, <1>22 DEF TypeProcess, TypeOperation, CounterKept, Unlink, CloseStep
  <2>m. CounterOf(p)'
    BY <1>0, <1>22 DEF TypeProcess, TypeOperation, CounterInv, CounterOf, CloseInv, Unlink,
       CloseStep
  <2>. QED
    BY <1>0, <2>k, <2>m, CounterFrame DEF CounterInv
<1>23. ASSUME NEW p \in Owners, Crash(p) PROVE CounterInv'
  <2>1. /\ up' = [up EXCEPT ![p] = "dead"] /\ sequence' = [sequence EXCEPT ![p] = 0]
        /\ closed' = [closed EXCEPT ![p] = FALSE] /\ UNCHANGED <<db, of>>
        /\ \A n \in Ops : of[n] # p => st'[n] = st[n]
    BY <1>23 DEF Crash, LiveOf
  <2>k. \A q \in Owners : q # p => CounterKept(q)
    BY <1>0, <2>1 DEF TypeProcess, TypeOperation, CounterKept
  <2>m. CounterOf(p)'
    BY <1>0, <2>1 DEF TypeProcess, CounterOf
  <2>. QED
    BY <1>0, <2>k, <2>m, CounterFrame DEF CounterInv
<1>24. ASSUME PressureSample \/ \E o \in Ops : DeadlinePasses(o) PROVE CounterInv'
  <2>1. db'.reg = db.reg /\ db'.last = db.last /\ UNCHANGED <<up, sequence, closed, st, of>>
    BY <1>24, EnvironmentEffect DEF Keeps, OnlyDb
  <2>k. \A q \in Owners : CounterKept(q)
    BY <2>1 DEF CounterKept
  <2>. QED
    BY <1>0, <2>k, CounterFrame DEF CounterInv
<1>25. ASSUME UNCHANGED vars PROVE CounterInv'
  <2>k. \A q \in Owners : CounterKept(q)
    BY <1>0, <1>25 DEF TypeProcess, TypeOperation, CounterKept, Asking, vars
  <2>. QED
    BY <1>0, <2>k, CounterFrame DEF CounterInv
<1>. QED
  BY <1>1, <1>2, <1>3, <1>4, <1>5, <1>6, <1>7, <1>8, <1>9, <1>10, <1>11, <1>12, <1>13,
     <1>14, <1>15, <1>16, <1>17, <1>18, <1>19, <1>20, <1>21, <1>22, <1>23, <1>24, <1>25,
     Zenon DEF Next, OpenStep, CloseOwned, OpStep


(***************************************************************************)
(* The sequence numbers                                                    *)
(***************************************************************************)

\* Tasks whose registration was answered.
Told == {"answered", "delaying", "running"}

\* Operation n keeps its number, if it has one afterwards, and the counters
\* say of it what they said before, or more.
NumberStays(n) ==
  Numbered(n)' =>
    /\ Numbered(n) /\ of'[n] = of[n] /\ seq'[n] = seq[n]
    /\ sequence'[of[n]] = sequence[of[n]]
    /\ st'[n] \in Asking => st[n] \in Asking
    /\ st'[n] = "requesting" => st[n] = "requesting" /\ db'.last[of[n]] = db.last[of[n]]
    /\ st'[n] \in Told => \/ st[n] \in Told /\ db'.last[of[n]] = db.last[of[n]]
                          \/ seq[n] <= db'.last[of[n]]

\* Who has a call under way, or was answered, has a number.
LEMMA AskingNumbered ==
  ASSUME NEW n \in Ops
  PROVE  st[n] \in Asking \cup Told => Numbered(n)
BY DEF Asking, Told, Numbered, Live

\* An operation that keeps its number keeps it in place.
LEMMA NumberFrame ==
  ASSUME NEW n \in Ops, NumberInv, NumberStays(n)
  PROVE  NumberOf(n)'
<1>1. /\ st[n] \in Asking \cup Told => Numbered(n)
      /\ (st[n] \in Asking \cup Told => Numbered(n))'
  BY AskingNumbered DEF Asking, Told, Numbered, Live
<1>2. NumberOf(n)
  BY DEF NumberInv
<1>3. CASE ~Numbered(n)'
  <2>1. st'[n] \notin Asking /\ st'[n] \notin Told
    BY <1>1, <1>3
  <2>. QED
    BY <1>3, <2>1 DEF NumberOf, Asking, Told
<1>4. CASE Numbered(n)'
  BY <1>1, <1>2, <1>4 DEF NumberOf, NumberStays, Asking, Told
<1>. QED
  BY <1>3, <1>4

\* A step in which all numbers stay.
LEMMA NumbersStay ==
  ASSUME NumberInv, \A n \in Ops : NumberStays(n)
  PROVE  NumberInv'
<1>1. \A n \in Ops : NumberOf(n)'
  BY NumberFrame
<1>2. \A n \in Ops : Numbered(n)' => Numbered(n) /\ of'[n] = of[n] /\ seq'[n] = seq[n]
  BY DEF NumberStays
<1>3. Distinct'
  BY <1>2, Zenon DEF NumberInv, Distinct
<1>. QED
  BY <1>1, <1>3, Zenon DEF NumberInv

\* An operation the step does not touch.
LEMMA NumberUntouched ==
  ASSUME NEW n \in Ops, st'[n] = st[n], of'[n] = of[n], seq'[n] = seq[n],
         n \in unfinished' => n \in unfinished,
         Numbered(n) => sequence'[of[n]] = sequence[of[n]] /\ db'.last[of[n]] = db.last[of[n]]
  PROVE  NumberStays(n)
<1>1. Numbered(n)' => Numbered(n)
  BY DEF Numbered
<1>. QED
  BY <1>1 DEF NumberStays

\* Every step keeps the numbers in place.
LEMMA NumberNext ==
  ASSUME Inv, [Next]_vars
  PROVE  NumberInv'
<1>. USE DEF process, operation
<1>0. TypeProcess /\ TypeOperation /\ LockInv /\ CloseInv /\ TaskInv /\ ChainInv /\ CounterInv /\ NumberInv
  BY Parts
<1>1. ASSUME NEW p \in Owners, OpenStarts(p) PROVE NumberInv'
  <2>1. UNCHANGED <<st, of, seq, sequence, unfinished>> /\ db'.last = db.last
    BY <1>1 DEF vars, OpenStarts
  <2>2. \A n \in Ops : NumberStays(n)
    BY <2>1, NumberUntouched
  <2>. QED
    BY <1>0, <2>2, NumbersStay
<1>2. ASSUME NEW p \in Owners, NEW o \in Owners, Inspect(p, o) PROVE NumberInv'
  <2>1. UNCHANGED <<st, of, seq, sequence, unfinished>> /\ db'.last = db.last
    BY <1>2 DEF vars, Inspect, Unlocked
  <2>2. \A n \in Ops : NumberStays(n)
    BY <2>1, NumberUntouched
  <2>. QED
    BY <1>0, <2>2, NumbersStay
<1>3. ASSUME NEW p \in Owners, NEW o \in Owners, Reclaim(p, o) PROVE NumberInv'
  <2>1. /\ up[p] = "opening" /\ held[p] = {o} /\ o \in db.reg
        /\ UNCHANGED <<st, of, seq, sequence, unfinished>>
        /\ \A q \in Owners \ {o} : db'.last[q] = db.last[q]
    BY <1>3, ReclaimEffect DEF Dropped
  <2>2. up[o] # "open"
    BY <1>0, <2>1 DEF LockInv
  <2>3. \A n \in Ops : Numbered(n) => of[n] \in Owners \ {o}
    BY <2>2, Numbers DEF Numbered
  <2>4. \A n \in Ops : NumberStays(n)
    BY <2>1, <2>3, NumberUntouched
  <2>. QED
    BY <1>0, <2>4, NumbersStay
<1>4. ASSUME NEW p \in Owners, NEW o \in Owners, UnlinkReclaimed(p, o) PROVE NumberInv'
  <2>1. UNCHANGED <<st, of, seq, sequence, unfinished>> /\ db'.last = db.last
    BY <1>4 DEF vars, UnlinkReclaimed
  <2>2. \A n \in Ops : NumberStays(n)
    BY <2>1, NumberUntouched
  <2>. QED
    BY <1>0, <2>2, NumbersStay
<1>5. ASSUME NEW p \in Owners, CreateLock(p) PROVE NumberInv'
  <2>1. UNCHANGED <<st, of, seq, sequence, unfinished>> /\ db'.last = db.last
    BY <1>5 DEF vars, CreateLock
  <2>2. \A n \in Ops : NumberStays(n)
    BY <2>1, NumberUntouched
  <2>. QED
    BY <1>0, <2>2, NumbersStay
<1>6. ASSUME NEW p \in Owners, RegisterOwner(p) PROVE NumberInv'
  <2>1. UNCHANGED <<st, of, seq, sequence, unfinished>> /\ db'.last = db.last
    BY <1>6, RegisterEffect DEF vars, RegisterOwner
  <2>2. \A n \in Ops : NumberStays(n)
    BY <2>1, NumberUntouched
  <2>. QED
    BY <1>0, <2>2, NumbersStay
<1>7. ASSUME NEW p \in Owners, NEW o \in Ops, Run(p, o) PROVE NumberInv'
  <2>1. /\ st[o] = "idle" /\ st' = [st EXCEPT ![o] = "waiting"] /\ UNCHANGED <<db, seq, sequence, unfinished>>
        /\ of' = [of EXCEPT ![o] = p]
    BY <1>7 DEF Run
  <2>2. \A n \in Ops : n # o => NumberStays(n)
    BY <1>0, <2>1, NumberUntouched DEF TypeOperation
  <2>3. ~Numbered(o)'
    BY <1>0, <2>1 DEF TypeOperation, TaskInv, Numbered, Live
  <2>. QED
    BY <1>0, <2>2, <2>3, NumbersStay DEF NumberStays
<1>8. ASSUME NEW p \in Owners, Register(p) PROVE NumberInv'
  <2>0. PICK o \in Ops : o = Head(chain[p]) /\ st[o] = "waiting" /\ chain[p] # <<>>
          /\ UNCHANGED <<db, unfinished>>
    BY <1>0, <1>8 DEF TypeOperation, Register
  <2>a. of[o] = p /\ \A n \in Ops : of[n] = p => st[n] \notin Asking
    <3>1. chain[p] \in Seq(Ops) /\ chain[p] # <<>>
      BY <1>0, <2>0 DEF TypeOperation
    <3>2. 1 \in 1 .. Len(chain[p]) /\ o = chain[p][1]
      BY <2>0, <3>1
    <3>. QED
      BY <1>0, <2>0, <3>2 DEF ChainInv, Asking
  <2>b. o \notin unfinished
    BY <1>0, <2>0 DEF TaskInv
  <2>1. CASE st' = [st EXCEPT ![o] = "settled"] /\ sequence' = sequence /\ Forget({o})
    <3>1. \A n \in Ops : n # o => st'[n] = st[n] /\ of'[n] = of[n] /\ seq'[n] = seq[n]
      BY <1>0, <2>1 DEF TypeOperation, Forget
    <3>2. \A n \in Ops : n # o => NumberStays(n)
      BY <2>0, <2>1, <3>1, NumberUntouched
    <3>3. ~Numbered(o)'
      BY <1>0, <2>0, <2>b, <2>1 DEF TypeOperation, Numbered, Live
    <3>. QED
      BY <1>0, <3>2, <3>3, NumbersStay DEF NumberStays
  <2>2. CASE /\ ~closed[of[o]] /\ sequence' = [sequence EXCEPT ![p] = @ + 1]
             /\ seq' = [seq EXCEPT ![o] = sequence[p] + 1]
             /\ st' = [st EXCEPT ![o] = "requesting"] /\ of' = of
    <3>1. sequence[p] \in Nat /\ sequence[p] = db.last[p]
      BY <2>0, <2>a, <2>2, Numbers DEF Live
    <3>2. \A n \in Ops : n # o => st'[n] = st[n] /\ seq'[n] = seq[n] /\ (Numbered(n)' <=> Numbered(n))
      BY <1>0, <2>0, <2>2 DEF TypeOperation, Numbered
    <3>3. /\ st'[o] = "requesting" /\ seq'[o] = sequence[p] + 1 /\ sequence'[p] = sequence[p] + 1
          /\ \A q \in Owners : q # p => sequence'[q] = sequence[q]
      BY <1>0, <2>2 DEF TypeOperation
    <3>4. \A n \in Ops : n # o /\ of[n] # p => NumberStays(n)
      <4>1. \A n \in Ops : Numbered(n) => of[n] \in Owners
        BY Numbers DEF Numbered
      <4>. QED
        BY <2>0, <2>2, <3>2, <3>3, <4>1, NumberUntouched
    <3>5. \A n \in Ops : Numbered(n) => seq[n] \in Nat /\ seq[n] <= sequence[of[n]]
      BY <1>0, Numbers DEF NumberInv, NumberOf, Numbered
    <3>6. \A n \in Ops : n # o => NumberOf(n)'
      <4>. SUFFICES ASSUME NEW n \in Ops, n # o PROVE NumberOf(n)'
        OBVIOUS
      <4>1. CASE of[n] # p
        BY <1>0, <3>4, <4>1, NumberFrame
      <4>2. CASE of[n] = p
        <5>1. NumberOf(n) /\ st'[n] \notin Asking
          BY <1>0, <2>a, <3>2, <4>2 DEF NumberInv
        <5>. QED
          BY <2>0, <2>2, <3>1, <3>2, <3>3, <3>5, <4>2, <5>1 DEF NumberOf, Asking
      <4>. QED
        BY <4>1, <4>2
    <3>7. NumberOf(o)'
      BY <2>0, <2>a, <2>2, <3>1, <3>3 DEF NumberOf, Asking
    <3>8. Distinct'
      <4>1. \A n \in Ops : n # o /\ Numbered(n)' /\ of'[n] = p => seq'[n] # seq'[o]
        BY <2>2, <3>1, <3>2, <3>3, <3>5
      <4>2. of'[o] = p
        BY <2>a, <2>2
      <4>3. \A n, m \in Ops : n # o /\ m # o /\ Numbered(n)' /\ Numbered(m)' /\ of'[n] = of'[m] /\ seq'[n] = seq'[m] => n = m
        BY <1>0, <2>2, <3>2 DEF NumberInv, Distinct
      <4>. QED
        BY <4>1, <4>2, <4>3 DEF Distinct
    <3>. QED
      BY <3>6, <3>7, <3>8, Zenon DEF NumberInv
  <2>. QED
    BY <1>8, <2>0, <2>1, <2>2 DEF Register, MayProceed
<1>9. ASSUME NEW o \in Ops, Ask(o) PROVE NumberInv'
  <2>0. st[o] = "requesting" /\ UNCHANGED <<of, seq, sequence, unfinished>>
    BY <1>9 DEF Ask
  <2>1. /\ db'.last \in {db.last, Counted(o)}
        /\ \/ st' = [st EXCEPT ![o] = "answered"] /\ db'.last = Counted(o)
           \/ st' = [st EXCEPT ![o] = "fencing"]
    BY <1>9, AskEffect DEF Asked
  <2>2. PICK p \in Owners : p = of[o] /\ db.last[p] \in Nat
    BY <2>0, Numbers DEF Live
  <2>3. seq[o] = db.last[p] + 1
    BY <1>0, <2>0, <2>2 DEF NumberInv, NumberOf
  <2>4. /\ \A q \in Owners : q # p => db'.last[q] = db.last[q]
        /\ db'.last[p] = db.last[p] \/ db'.last[p] = seq[o]
        /\ db'.last = Counted(o) => db'.last[p] = seq[o]
    BY <2>0, <2>1, <2>2, <2>3, CountedStep DEF Live
  <2>5. \A n \in Ops : n # o => NumberStays(n)
    <3>. SUFFICES ASSUME NEW n \in Ops, n # o, Numbered(n) PROVE NumberStays(n)
      <4>1. \A n \in Ops : n # o => (Numbered(n)' <=> Numbered(n))
        BY <1>0, <2>0, <2>1 DEF TypeOperation, Numbered
      <4>. QED
        BY <4>1 DEF NumberStays
    <3>1. st'[n] = st[n] /\ (Numbered(n)' <=> Numbered(n)) /\ of[n] \in Owners /\ seq[n] \in Nat
      BY <1>0, <2>0, <2>1, Numbers DEF TypeOperation, Numbered
    <3>2. CASE of[n] # p
      BY <2>0, <2>4, <3>1, <3>2, NumberUntouched
    <3>3. CASE of[n] = p
      <4>1. st[n] \notin Asking
        BY <1>0, <2>0, <2>2, <3>3, OneAsks DEF Asking
      <4>2. st[n] \in Told => seq[n] <= db.last[p]
        BY <1>0, <3>3 DEF NumberInv, NumberOf, Told
      <4>3. st[n] \in Told => seq[n] <= db'.last[p]
        BY <2>2, <2>3, <2>4, <3>1, <4>2
      <4>. QED
        BY <2>0, <3>1, <3>3, <4>1, <4>3 DEF NumberStays, Asking
    <3>. QED
      BY <3>2, <3>3
  <2>6. NumberStays(o)
    <3>1. st'[o] \in {"answered", "fencing"} /\ (st'[o] = "answered" => db'.last = Counted(o))
      BY <1>0, <2>1 DEF TypeOperation
    <3>2. Numbered(o) /\ st[o] \in Asking
      BY <2>0 DEF Numbered, Live, Asking
    <3>3. st'[o] \in Told => seq[o] <= db'.last[p]
      BY <2>2, <2>3, <2>4, <3>1 DEF Told
    <3>. QED
      BY <2>0, <2>2, <3>1, <3>2, <3>3 DEF NumberStays
  <2>. QED
    BY <1>0, <2>5, <2>6, NumbersStay
<1>10. ASSUME NEW o \in Ops, Fence(o) PROVE NumberInv'
  <2>0. st[o] = "fencing" /\ st' = [st EXCEPT ![o] = "finishing"] /\ UNCHANGED <<of, seq, sequence>>
    BY <1>10 DEF Fence
  <2>1. /\ db'.last \in {db.last, Counted(o)} /\ unfinished' \in {unfinished \ {o}, unfinished \cup {o}}
    BY <1>10, FenceEffect DEF Reported
  <2>2. PICK q \in Owners : q = of[o] /\ db.last[q] \in Nat /\ seq[o] \in Nat
    BY <2>0, Numbers DEF Live
  <2>4. /\ \A r \in Owners : r # q => db'.last[r] = db.last[r]
        /\ db'.last[q] = db.last[q] \/ (seq[o] = db.last[q] + 1 /\ db'.last[q] = seq[o])
    BY <2>0, <2>1, <2>2, CountedStep DEF Live
  <2>5. \A n \in Ops : n # o => NumberStays(n)
    <3>. SUFFICES ASSUME NEW n \in Ops, n # o, Numbered(n) PROVE NumberStays(n)
      <4>1. \A n \in Ops : n # o => (Numbered(n)' <=> Numbered(n))
        BY <1>0, <2>0, <2>1 DEF TypeOperation, Numbered
      <4>. QED
        BY <4>1 DEF NumberStays
    <3>1. /\ st'[n] = st[n] /\ (Numbered(n)' <=> Numbered(n)) /\ of[n] \in Owners /\ seq[n] \in Nat
          /\ of'[n] = of[n] /\ seq'[n] = seq[n] /\ (n \in unfinished' => n \in unfinished)
      BY <1>0, <2>0, <2>1, Numbers DEF TypeOperation, Numbered
    <3>2. CASE of[n] # q \/ db'.last[q] = db.last[q]
      BY <2>0, <2>4, <3>1, <3>2, NumberUntouched
    <3>3. CASE of[n] = q /\ seq[o] = db.last[q] + 1 /\ db'.last[q] = seq[o]
      <4>1. st[n] # "requesting"
        <5>1. st[n] = "requesting" => seq[n] = seq[o]
          BY <1>0, <3>3 DEF NumberInv, NumberOf
        <5>2. Numbered(o)
          BY <2>0 DEF Numbered, Live
        <5>. QED
          BY <1>0, <2>2, <3>3, <5>1, <5>2 DEF NumberInv, Distinct
      <4>2. st[n] \in Told => seq[n] <= db.last[q]
        BY <1>0, <3>3 DEF NumberInv, NumberOf, Told
      <4>3. st[n] \in Told => seq[n] <= db'.last[q]
        BY <2>2, <3>1, <3>3, <4>2
      <4>. QED
        BY <2>0, <3>1, <3>3, <4>1, <4>3 DEF NumberStays
    <3>. QED
      BY <2>4, <3>2, <3>3
  <2>6. NumberStays(o)
    <3>2. Numbered(o)
      BY <2>0 DEF Numbered, Live
    <3>3. st'[o] = "finishing"
      BY <1>0, <2>0 DEF TypeOperation
    <3>. QED
      BY <2>0, <3>2, <3>3 DEF NumberStays, Asking, Told
  <2>. QED
    BY <1>0, <2>5, <2>6, NumbersStay
<1>11. ASSUME NEW o \in Ops, Decide(o) PROVE NumberInv'
  <2>1. /\ st[o] = "answered" /\ \E s \in {"delaying", "running", "finishing"} : st' = [st EXCEPT ![o] = s]
        /\ UNCHANGED <<db, of, seq, sequence, unfinished>>
    BY <1>11 DEF Decide
  <2>2. \A n \in Ops : n # o => NumberStays(n)
    BY <1>0, <2>1, NumberUntouched DEF TypeOperation
  <2>3. NumberStays(o)
    BY <1>0, <2>1 DEF TypeOperation, NumberStays, Numbered, Live, Asking, Told
  <2>. QED
    BY <1>0, <2>2, <2>3, NumbersStay
<1>12. ASSUME NEW o \in Ops, Poll(o) PROVE NumberInv'
  <2>1. /\ st[o] = "delaying" /\ db'.last = db.last /\ UNCHANGED <<of, seq, sequence, unfinished>>
        /\ \E s \in {"answered", "finishing"} : st' = [st EXCEPT ![o] = s]
    BY <1>12, PollEffect DEF Poll
  <2>2. \A n \in Ops : n # o => NumberStays(n)
    BY <1>0, <2>1, NumberUntouched DEF TypeOperation
  <2>3. NumberStays(o)
    BY <1>0, <2>1 DEF TypeOperation, NumberStays, Numbered, Live, Asking, Told
  <2>. QED
    BY <1>0, <2>2, <2>3, NumbersStay
<1>13. ASSUME NEW o \in Ops, Complete(o) PROVE NumberInv'
  <2>1. st[o] = "running" /\ st' = [st EXCEPT ![o] = "finishing"] /\ UNCHANGED <<db, of, seq, sequence, unfinished>>
    BY <1>13 DEF Complete
  <2>2. \A n \in Ops : n # o => NumberStays(n)
    BY <1>0, <2>1, NumberUntouched DEF TypeOperation
  <2>3. NumberStays(o)
    BY <1>0, <2>1 DEF TypeOperation, NumberStays, Numbered, Live, Asking, Told
  <2>. QED
    BY <1>0, <2>2, <2>3, NumbersStay
<1>14. ASSUME NEW o \in Ops, Settle(o) PROVE NumberInv'
  <2>0. /\ st[o] = "finishing" /\ st' = [st EXCEPT ![o] = "settled"] /\ sequence' = sequence
        /\ \A n \in Ops : n # o => of'[n] = of[n] /\ seq'[n] = seq[n]
    BY <1>14 DEF Settle, Forget
  <2>1. db'.last \in {db.last, Counted(o)} /\ unfinished' \in {unfinished \ {o}, unfinished \cup {o}}
    BY <1>14, SettleEffect DEF Reported
  <2>c. o \in unfinished' => of' = of /\ seq' = seq
    BY <1>14 DEF Settle
  <2>d. st'[o] = "settled"
    BY <1>0, <2>0 DEF TypeOperation
  <2>2. PICK q \in Owners : q = of[o] /\ db.last[q] \in Nat /\ seq[o] \in Nat
    BY <2>0, Numbers DEF Live
  <2>4. /\ \A r \in Owners : r # q => db'.last[r] = db.last[r]
        /\ db'.last[q] = db.last[q] \/ (seq[o] = db.last[q] + 1 /\ db'.last[q] = seq[o])
    BY <2>0, <2>1, <2>2, CountedStep DEF Live
  <2>5. \A n \in Ops : n # o => NumberStays(n)
    <3>. SUFFICES ASSUME NEW n \in Ops, n # o, Numbered(n) PROVE NumberStays(n)
      <4>1. \A n \in Ops : n # o => (Numbered(n)' <=> Numbered(n))
        BY <1>0, <2>0, <2>1 DEF TypeOperation, Numbered
      <4>. QED
        BY <4>1 DEF NumberStays
    <3>1. /\ st'[n] = st[n] /\ (Numbered(n)' <=> Numbered(n)) /\ of[n] \in Owners /\ seq[n] \in Nat
          /\ of'[n] = of[n] /\ seq'[n] = seq[n] /\ (n \in unfinished' => n \in unfinished)
      BY <1>0, <2>0, <2>1, Numbers DEF TypeOperation, Numbered
    <3>2. CASE of[n] # q \/ db'.last[q] = db.last[q]
      BY <2>0, <2>4, <3>1, <3>2, NumberUntouched
    <3>3. CASE of[n] = q /\ seq[o] = db.last[q] + 1 /\ db'.last[q] = seq[o]
      <4>1. st[n] # "requesting"
        <5>1. st[n] = "requesting" => seq[n] = seq[o]
          BY <1>0, <3>3 DEF NumberInv, NumberOf
        <5>2. Numbered(o)
          BY <2>0 DEF Numbered, Live
        <5>. QED
          BY <1>0, <2>2, <3>3, <5>1, <5>2 DEF NumberInv, Distinct
      <4>2. st[n] \in Told => seq[n] <= db.last[q]
        BY <1>0, <3>3 DEF NumberInv, NumberOf, Told
      <4>3. st[n] \in Told => seq[n] <= db'.last[q]
        BY <2>2, <3>1, <3>3, <4>2
      <4>. QED
        BY <2>0, <3>1, <3>3, <4>1, <4>3 DEF NumberStays
    <3>. QED
      BY <2>4, <3>2, <3>3
  <2>6. NumberStays(o)
    <3>1. CASE o \in unfinished'
      <4>1. Numbered(o) /\ of'[o] = of[o] /\ seq'[o] = seq[o] /\ st'[o] \in {"finishing", "settled"}
        BY <1>0, <2>0, <2>c, <3>1 DEF Numbered, Live, TypeOperation
      <4>. QED
        BY <2>0, <4>1 DEF NumberStays, Asking, Told
    <3>2. CASE o \notin unfinished'
      <4>1. ~Numbered(o)'
        BY <1>0, <2>0, <2>d, <3>2 DEF Numbered, Live, TypeOperation
      <4>. QED
        BY <4>1 DEF NumberStays
    <3>. QED
      BY <3>1, <3>2
  <2>. QED
    BY <1>0, <2>5, <2>6, NumbersStay
<1>15. ASSUME NEW p \in Owners, WithOwnership(p) PROVE NumberInv'
  <2>1. UNCHANGED <<st, of, seq, sequence, unfinished>> /\ db'.last = db.last
    BY <1>15 DEF vars, WithOwnership
  <2>2. \A n \in Ops : NumberStays(n)
    BY <2>1, NumberUntouched
  <2>. QED
    BY <1>0, <2>2, NumbersStay
<1>16. ASSUME NEW p \in Owners, AdminSettles(p) PROVE NumberInv'
  <2>1. UNCHANGED <<st, of, seq, sequence, unfinished>> /\ db'.last = db.last
    BY <1>16 DEF vars, AdminSettles
  <2>2. \A n \in Ops : NumberStays(n)
    BY <2>1, NumberUntouched
  <2>. QED
    BY <1>0, <2>2, NumbersStay
<1>17. ASSUME NEW p \in Owners, Close(p) PROVE NumberInv'
  <2>1. UNCHANGED <<st, of, seq, sequence, unfinished>> /\ db'.last = db.last
    BY <1>17 DEF vars, Close, CloseStep
  <2>2. \A n \in Ops : NumberStays(n)
    BY <2>1, NumberUntouched
  <2>. QED
    BY <1>0, <2>2, NumbersStay
<1>18. ASSUME NEW p \in Owners, Join(p) PROVE NumberInv'
  <2>1. UNCHANGED <<st, of, seq, sequence, unfinished>> /\ db'.last = db.last
    BY <1>18 DEF vars, Join, CloseStep, LiveOf
  <2>2. \A n \in Ops : NumberStays(n)
    BY <2>1, NumberUntouched
  <2>. QED
    BY <1>0, <2>2, NumbersStay
<1>19. ASSUME NEW p \in Owners, Retry(p) PROVE NumberInv'
  <2>a. PICK o \in Ops : Retried(p, o)
    BY <1>19, RetryEffect
  <2>b. o \in unfinished /\ of[o] = p /\ \A n \in Ops : n # o => of'[n] = of[n] /\ seq'[n] = seq[n]
    BY <2>a DEF Retried, Forget
  <2>0. /\ o \in unfinished /\ st[o] \in {"finishing", "settled"} /\ st' = st /\ sequence' = sequence
        /\ \A n \in Ops : n # o => of'[n] = of[n] /\ seq'[n] = seq[n]
    BY <1>0, <1>19, <2>b, RetryEffect DEF TaskInv
  <2>1. db'.last \in {db.last, Counted(o)} /\ unfinished' \in {unfinished \ {o}, unfinished \cup {o}}
    BY <2>a DEF Retried, Reported
  <2>c. o \in unfinished' => of' = of /\ seq' = seq
    BY <2>a DEF Retried
  <2>d. st'[o] = "settled"
    BY <1>0, <1>19, <2>0, <2>b DEF TaskInv, Retry, Live
  <2>2. PICK q \in Owners : q = of[o] /\ db.last[q] \in Nat /\ seq[o] \in Nat
    BY <2>0, Numbers DEF Live
  <2>4. /\ \A r \in Owners : r # q => db'.last[r] = db.last[r]
        /\ db'.last[q] = db.last[q] \/ (seq[o] = db.last[q] + 1 /\ db'.last[q] = seq[o])
    BY <2>0, <2>1, <2>2, CountedStep DEF Live
  <2>5. \A n \in Ops : n # o => NumberStays(n)
    <3>. SUFFICES ASSUME NEW n \in Ops, n # o, Numbered(n) PROVE NumberStays(n)
      <4>1. \A n \in Ops : n # o => (Numbered(n)' <=> Numbered(n))
        BY <1>0, <2>0, <2>1 DEF TypeOperation, Numbered
      <4>. QED
        BY <4>1 DEF NumberStays
    <3>1. /\ st'[n] = st[n] /\ (Numbered(n)' <=> Numbered(n)) /\ of[n] \in Owners /\ seq[n] \in Nat
          /\ of'[n] = of[n] /\ seq'[n] = seq[n] /\ (n \in unfinished' => n \in unfinished)
      BY <1>0, <2>0, <2>1, Numbers DEF TypeOperation, Numbered
    <3>2. CASE of[n] # q \/ db'.last[q] = db.last[q]
      BY <2>0, <2>4, <3>1, <3>2, NumberUntouched
    <3>3. CASE of[n] = q /\ seq[o] = db.last[q] + 1 /\ db'.last[q] = seq[o]
      <4>1. st[n] # "requesting"
        <5>1. st[n] = "requesting" => seq[n] = seq[o]
          BY <1>0, <3>3 DEF NumberInv, NumberOf
        <5>2. Numbered(o)
          BY <2>0 DEF Numbered, Live
        <5>. QED
          BY <1>0, <2>2, <3>3, <5>1, <5>2 DEF NumberInv, Distinct
      <4>2. st[n] \in Told => seq[n] <= db.last[q]
        BY <1>0, <3>3 DEF NumberInv, NumberOf, Told
      <4>3. st[n] \in Told => seq[n] <= db'.last[q]
        BY <2>2, <3>1, <3>3, <4>2
      <4>. QED
        BY <2>0, <3>1, <3>3, <4>1, <4>3 DEF NumberStays
    <3>. QED
      BY <2>4, <3>2, <3>3
  <2>6. NumberStays(o)
    <3>1. CASE o \in unfinished'
      <4>1. Numbered(o) /\ of'[o] = of[o] /\ seq'[o] = seq[o] /\ st'[o] \in {"finishing", "settled"}
        BY <1>0, <2>0, <2>c, <3>1 DEF Numbered, Live, TypeOperation
      <4>. QED
        BY <2>0, <4>1 DEF NumberStays, Asking, Told
    <3>2. CASE o \notin unfinished'
      <4>1. ~Numbered(o)'
        BY <1>0, <2>0, <2>d, <3>2 DEF Numbered, Live, TypeOperation
      <4>. QED
        BY <4>1 DEF NumberStays
    <3>. QED
      BY <3>1, <3>2
  <2>. QED
    BY <1>0, <2>5, <2>6, NumbersStay
<1>20. ASSUME NEW p \in Owners, Retire(p) PROVE NumberInv'
  <2>1. /\ closing[p] = "retrying" /\ \A n \in unfinished : of[n] # p
        /\ UNCHANGED <<st, of, seq, sequence, unfinished>>
        /\ \A q \in Owners \ {p} : db'.last[q] = db.last[q]
    BY <1>20, RetireEffect DEF Dropped
  <2>2. \A n \in Ops : Numbered(n) => of[n] \in Owners \ {p}
    BY <1>0, <2>1, Numbers DEF Numbered, TaskInv
  <2>3. \A n \in Ops : NumberStays(n)
    BY <2>1, <2>2, NumberUntouched
  <2>. QED
    BY <1>0, <2>3, NumbersStay
<1>21. ASSUME NEW p \in Owners, Unlock(p) PROVE NumberInv'
  <2>1. UNCHANGED <<st, of, seq, sequence, unfinished>> /\ db'.last = db.last
    BY <1>21 DEF vars, Unlock, CloseStep
  <2>2. \A n \in Ops : NumberStays(n)
    BY <2>1, NumberUntouched
  <2>. QED
    BY <1>0, <2>2, NumbersStay
<1>22. ASSUME NEW p \in Owners, Unlink(p) PROVE NumberInv'
  <2>1. UNCHANGED <<st, of, seq, sequence, unfinished>> /\ db'.last = db.last
    BY <1>22 DEF vars, Unlink, CloseStep
  <2>2. \A n \in Ops : NumberStays(n)
    BY <2>1, NumberUntouched
  <2>. QED
    BY <1>0, <2>2, NumbersStay
<1>23. ASSUME NEW p \in Owners, Crash(p) PROVE NumberInv'
  <2>1. /\ \A n \in Ops : st'[n] = IF of[n] = p /\ st[n] \in Live THEN "dead" ELSE st[n]
        /\ unfinished' = {n \in unfinished : of[n] # p} /\ UNCHANGED <<db, of, seq>>
        /\ \A q \in Owners : q # p => sequence'[q] = sequence[q]
    BY <1>0, <1>23 DEF Crash, LiveOf, TypeOperation
  <2>2. \A n \in Ops : of[n] = p => ~Numbered(n)'
    BY <2>1 DEF Numbered, Live
  <2>3. \A n \in Ops : Numbered(n) => of[n] \in Owners
    BY Numbers DEF Numbered
  <2>4. \A n \in Ops : of[n] # p => NumberStays(n)
    BY <2>1, <2>3, NumberUntouched
  <2>. QED
    BY <1>0, <2>2, <2>4, NumbersStay DEF NumberStays
<1>24. ASSUME PressureSample \/ \E o \in Ops : DeadlinePasses(o) PROVE NumberInv'
  <2>1. UNCHANGED <<st, of, seq, sequence, unfinished>> /\ db'.last = db.last
    BY <1>24, EnvironmentEffect DEF vars, Keeps, OnlyDb
  <2>2. \A n \in Ops : NumberStays(n)
    BY <2>1, NumberUntouched
  <2>. QED
    BY <1>0, <2>2, NumbersStay
<1>25. ASSUME UNCHANGED vars PROVE NumberInv'
  <2>1. UNCHANGED <<st, of, seq, sequence, unfinished>> /\ db'.last = db.last
    BY <1>25 DEF vars, vars
  <2>2. \A n \in Ops : NumberStays(n)
    BY <2>1, NumberUntouched
  <2>. QED
    BY <1>0, <2>2, NumbersStay
<1>. QED
  BY <1>1, <1>2, <1>3, <1>4, <1>5, <1>6, <1>7, <1>8, <1>9, <1>10, <1>11, <1>12, <1>13,
     <1>14, <1>15, <1>16, <1>17, <1>18, <1>19, <1>20, <1>21, <1>22, <1>23, <1>24, <1>25,
     Zenon DEF Next, OpenStep, CloseOwned, OpStep


(***************************************************************************)
(* The invariant, and what it gives                                        *)
(***************************************************************************)

\* Every step preserves the invariant.
LEMMA NextInv ==
  ASSUME Inv, [Next]_vars
  PROVE  Inv'
<1>1. TypeOK'
  BY TypeProcessNext, TypeOperationNext, TypeRowsNext DEF TypeOK, TypeRows
<1>2. LockInv' /\ CloseInv' /\ TaskInv' /\ RowInv' /\ ActiveInv'
  BY LockNext, CloseNext, TaskNext, RowNext, ActiveNext
<1>3. ChainInv' /\ CounterInv' /\ NumberInv'
  BY ChainNext, CounterNext, NumberNext
<1>. QED
  BY <1>1, <1>2, <1>3 DEF Inv

\* The invariant holds throughout.
THEOREM Invariance == Spec => []Inv
<1>1. Init => Inv
  BY InitInv
<1>2. Inv /\ [Next]_vars => Inv'
  BY NextInv
<1>. QED
  BY <1>1, <1>2, PTL DEF Spec

\* While a model callback runs its request occupies an active row of a
\* registered owner, and while administrative work runs its process is
\* registered (gateway-model-budget.ts, execute and withOwnership).
THEOREM CallbacksAccounted == Spec => []RunningIsAccounted
<1>1. ASSUME Inv PROVE RunningIsAccounted
  <2>1. TaskInv /\ ActiveInv /\ CloseInv
    BY <1>1, Parts
  <2>. QED
    BY <2>1 DEF RunningIsAccounted, TaskInv, ActiveInv, Admitted, CloseInv, Live
<1>. QED
  BY <1>1, Invariance, PTL

\* A row always has somebody who will remove it: its task, the completion kept
\* for close, or the recovery of its dead owner (finish, closeOwned and open).
THEOREM RowsHaveOwners == Spec => []NoLeakedRow
<1>1. ASSUME Inv PROVE NoLeakedRow
  <2>1. RowInv
    BY <1>1, Parts
  <2>. QED
    BY <2>1 DEF RowInv, RowOf, NoLeakedRow
<1>. QED
  BY <1>1, Invariance, PTL

\* Types; a registered owner has its file, and a live one its lock, which nobody
\* else holds: open can recover every dead owner and no live one.
THEOREM OwnersRecoverable == Spec => []Recoverable
<1>1. ASSUME Inv PROVE Recoverable
  <2>1. TypeOK /\ LockInv /\ db \in Rows
    BY <1>1, Parts
  <2>2. db.reg \subseteq Owners
    BY <2>1, RowsFields
  <2>3. OwnerHoldsLock
    BY <2>1, <2>2 DEF LockInv, OwnerHoldsLock
  <2>. QED
    BY <2>1, <2>3 DEF Recoverable, OwnerFileRemains, LockInv
<1>. QED
  BY <1>1, Invariance, PTL

\* The serial counter has no gap: a registration asks for the sequence after
\* the last one the database knows, and a completion is for one it can know.
THEOREM CounterHasNoGap == Spec => []SequenceContiguous
<1>1. ASSUME Inv PROVE SequenceContiguous
  <2>. SUFFICES ASSUME NEW o \in Ops
                PROVE  /\ st[o] = "requesting" => seq[o] = db.last[of[o]] + 1
                       /\ st[o] \in {"answered", "delaying", "running"} => seq[o] <= db.last[of[o]]
                       /\ st[o] \in {"fencing", "finishing"} \/ o \in unfinished =>
                            seq[o] <= db.last[of[o]] + 1
    BY DEF SequenceContiguous
  <2>1. NumberOf(o)
    BY <1>1, Parts DEF NumberInv
  <2>2. st[o] \in {"fencing", "finishing"} => st[o] \in Live /\ Numbered(o)
    BY DEF Numbered, Live
  <2>3. o \in unfinished => Numbered(o)
    BY DEF Numbered
  <2>4. ASSUME st[o] \in {"fencing", "finishing"} \/ o \in unfinished
        PROVE  seq[o] <= db.last[of[o]] + 1
    <3>1. /\ seq[o] \in Nat /\ sequence[of[o]] \in Nat /\ db.last[of[o]] \in Nat
          /\ sequence[of[o]] = db.last[of[o]] \/ sequence[of[o]] = db.last[of[o]] + 1
      BY <1>1, <2>2, <2>4, Numbers
    <3>2. seq[o] <= sequence[of[o]]
      BY <2>1, <2>2, <2>3, <2>4 DEF NumberOf
    <3>. QED
      BY <3>1, <3>2
  <2>. QED
    BY <2>1, <2>4 DEF NumberOf
<1>. QED
  BY <1>1, Invariance, PTL
=============================================================================
