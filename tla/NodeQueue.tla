------------------------------ MODULE NodeQueue ------------------------------
(***************************************************************************)
(* The fair queue of one node by itself: the transactions of               *)
(* NodeResourceBudget in every order, called by owners that register,      *)
(* finish and register again.  What the owners must do in order to call    *)
(* them safely is GatewayModelBudget.                                      *)
(***************************************************************************)
EXTENDS NodeResourceBudget

CONSTANTS
  OwnerOf,        \* the Gateway process an operation belongs to
  MaxRequests     \* bound: registrations of one owner

ASSUME QueueAssumption == OwnerOf \in [Ops -> Owners] /\ MaxRequests \in Nat

VARIABLES
  db,             \* the node's rows
  seq             \* the sequence number of each operation's last registration

vars == <<db, seq>>

Init ==
  /\ db = [InitialRows EXCEPT !.reg = Owners]
  /\ seq = [o \in Ops |-> 0]

\* A sequence number is of no use once the row is gone.
Keep(s) == seq' = [o \in Ops |-> IF db'.row[o] = NoRow THEN 0 ELSE s[o]]

\* An owner registers the next request of o's user and project.
Arrive(o) ==
  LET p == OwnerOf[o]  s == [seq EXCEPT ![o] = db.last[p] + 1] IN
  /\ db.row[o] = NoRow /\ db.last[p] < MaxRequests
  /\ db' = Request(db, s, p, o).rows /\ Keep(s)

\* A callback is done, or a queued request is withdrawn.
Leave(o) ==
  /\ db.row[o] # NoRow
  /\ db' = Finish(db, seq, OwnerOf[o], o, IF db.row[o].state = "active" THEN "quiescent" ELSE "not-started").rows
  /\ Keep(seq)

\* An owner polls; which of the operations it asks about only changes the reply.
Polls ==
  LET known == {o \in Ops : db.row[o] # NoRow}
      asked == CHOOSE o \in known : TRUE
  IN known # {} /\ db' = Status(db, seq, OwnerOf[asked], asked).rows /\ Keep(seq)

\* A queue deadline passes, between two transactions or during the next.
DeadlinePasses(o) ==
  /\ o \in Queued(db) \ (db.overdue \cup db.late)
  /\ \/ db' = [db EXCEPT !.overdue = @ \cup {o}]
     \/ db' = [db EXCEPT !.late = @ \cup {o}]
  /\ Keep(seq)

\* The last sample runs out, now or after some more grants.
SampleExpires ==
  \E k \in 0 .. db.credits - 1 : db' = [db EXCEPT !.credits = k] /\ Keep(seq)

\* The pressure sampler publishes an observation.
PressureSample == \E k \in 0 .. MaxCredits : db' = Observe(db, seq, k) /\ Keep(seq)

\* A Runtime start spends a credit, and later registers or is given up.
RuntimeStart == db' = AdmitRuntimeStart(db, seq) /\ Keep(seq)
RuntimeRegisters == db.pending /\ db' = RegisterRuntime(db) /\ Keep(seq)

Next ==
  \/ \E o \in Ops : Arrive(o) \/ Leave(o) \/ DeadlinePasses(o)
  \/ Polls \/ PressureSample \/ SampleExpires \/ RuntimeStart \/ RuntimeRegisters

Spec == Init /\ [][Next]_vars

(***************************************************************************)
(* Properties                                                              *)
(***************************************************************************)

\* Grants since n was queued in which nobody of n's class has had a turn.
PassedOver(n, same(_, _)) ==
  {i \in db.since[n] + 1 .. Len(db.grants) :
     \A j \in i .. Len(db.grants) : ~same(db.grants[j], n)}

\* Equal users (node-resource-budget.ts:1, migration 105): while a request
\* waits, no other user is granted twice unless the request's own user is
\* granted in between, however the other users register and withdraw.
FairUsers ==
  \A n \in Queued(db) : \A i, j \in PassedOver(n, SameUser) :
    i # j => ~SameUser(db.grants[i], db.grants[j])

\* Round robin over one user's projects: while a request waits, no other
\* project of its user is granted twice in a row.
FairProjects ==
  \A n \in Queued(db) : \A i, j \in PassedOver(n, SameProject) :
    i # j /\ SameUser(db.grants[i], n) => ~SameProject(db.grants[i], db.grants[j])

\* A request whose deadline has passed is never granted, also when it passes
\* after the granting transaction has taken its lock, and no request is granted
\* while an allocated Runtime has not registered.
GrantsAreCurrent ==
  [][\A o \in Queued(db) : db'.row[o].state = "active" =>
       o \notin db.overdue \cup db.late /\ ~db.pending]_vars

\* A poll or a sample leaves no credit unspent while somebody waits and no Runtime
\* is awaited, also when a deadline passes under the loop: what has expired is
\* deleted and the next request considered.
NoIdleCredit ==
  [][Polls \/ PressureSample =>
       db'.pending \/ db'.credits = 0 \/ Queued(db') = {}]_vars

\* The limits on what waits hold after every transaction, although a request
\* that finds a free credit and nobody waiting skips them.
QueueBounded ==
  /\ Cardinality(Queued(db)) <= MaxQueued
  /\ \A o \in Queued(db) :
       /\ Cardinality({n \in Queued(db) : SameUser(n, o)}) <= MaxQueuedPerUser
       /\ Cardinality({n \in Queued(db) : Project[n] = Project[o]}) <= MaxQueuedPerProject

\* Users and projects take turns in a queue that stays within its limits.
FairTurns == FairUsers /\ FairProjects /\ QueueBounded
=============================================================================
