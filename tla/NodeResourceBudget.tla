------------------------- MODULE NodeResourceBudget -------------------------
(***************************************************************************)
(* Node-wide model admission, kept in PostgreSQL                           *)
(* (gateway/src/node-resource-budget.ts and migration 105).  Every method  *)
(* is one transaction that first locks the node's row, so a method is an   *)
(* operator from the rows before it to the rows after it; the Gateway      *)
(* processes that call the methods are in GatewayModelBudget.              *)
(*                                                                         *)
(* The rows d are one record:                                              *)
(*   reg      owners with a row in node_resource_gateways                  *)
(*   last     last_sequence of each owner in node_resource_runtimes        *)
(*   row      the request row of an operation: its state and the positions *)
(*            user_turn and project_turn it is ordered by                  *)
(*   credits  starts the last pressure sample still allows; a sample whose *)
(*            valid_until has passed counts as a sample of zero credits    *)
(*   turn     next_turn                                                    *)
(*   pending  an instance was allocated and its Runtime has not registered *)
(*   overdue  operations whose queue deadline has passed                   *)
(*   late     operations whose deadline passes during the next             *)
(*            transaction, after it has taken the lock                     *)
(*   grants   history: the operations granted so far, in order             *)
(*   since    history: how many grants there were when o was queued        *)
(***************************************************************************)
EXTENDS Naturals, Sequences, FiniteSets

CONSTANTS
  Owners,               \* Gateway processes
  Ops,                  \* model operations
  Actor, Project,       \* the user and the project of an operation
  MaxQueued, MaxQueuedPerUser, MaxQueuedPerProject,   \* the queue limits
  MaxCredits            \* the most starts one pressure sample allows

ASSUME BudgetAssumption ==
  /\ {MaxQueued, MaxQueuedPerUser, MaxQueuedPerProject, MaxCredits} \subseteq Nat
  /\ DOMAIN Actor = Ops /\ DOMAIN Project = Ops

SameUser(o, n) == Actor[o] = Actor[n]
SameProject(o, n) == SameUser(o, n) /\ Project[o] = Project[n]

NoRow == [state |-> "none", userTurn |-> 0, projectTurn |-> 0]

\* The values of the rows.
Row == [state : {"none", "queued", "active"}, userTurn : Nat, projectTurn : Nat]
Rows == [reg : SUBSET Owners, last : [Owners -> Nat], row : [Ops -> Row],
         credits : 0 .. MaxCredits, turn : Nat, pending : BOOLEAN,
         overdue : SUBSET Ops, late : SUBSET Ops, grants : Seq(Ops), since : [Ops -> Nat]]

\* An empty node.
InitialRows ==
  [reg |-> {}, last |-> [p \in Owners |-> 0], row |-> [o \in Ops |-> NoRow],
   credits |-> 0, turn |-> 0, pending |-> FALSE, overdue |-> {}, late |-> {},
   grants |-> <<>>, since |-> [o \in Ops |-> 0]]

Queued(d) == {o \in Ops : d.row[o].state = "queued"}

\* Delete the queued requests whose deadline has passed.
DropOverdue(d) ==
  [d EXCEPT !.row = [o \in Ops |-> IF o \in Queued(d) \cap d.overdue THEN NoRow ELSE d.row[o]],
            !.overdue = {}]

\* lock_node_resources: taking the node lock deletes what is overdue.  Turns only
\* order the requests that are queued: with none queued the counter and the
\* history restart, which keeps them small.
Lock(rows) ==
  LET d == [DropOverdue(rows) EXCEPT !.overdue = rows.late, !.late = {}] IN
  IF Queued(d) # {} THEN d ELSE [d EXCEPT !.turn = 0, !.grants = <<>>, !.since = [o \in Ops |-> 0]]

(***************************************************************************)
(* schedule_node_resources                                                 *)
(***************************************************************************)

\* ORDER BY user_turn, project_turn, sequence: seq[o] is o's sequence number.
Before(d, seq, o, n) ==
  LET r == d.row[o]  s == d.row[n] IN
  \/ r.userTurn < s.userTurn
  \/ r.userTurn = s.userTurn /\ r.projectTurn < s.projectTurn
  \/ r.userTurn = s.userTurn /\ r.projectTurn = s.projectTurn /\ seq[o] <= seq[n]

\* A grant that leaves the user's other requests where they were.
GrantInPlace(d, o) ==
  [d EXCEPT !.credits = @ - 1, !.turn = @ + 1, !.grants = Append(@, o),
            !.row[o] = [NoRow EXCEPT !.state = "active"]]

\* Mutant of Grant: the user's requests move, the project's turn stays.
GrantMovesUserOnly(d, o) ==
  [GrantInPlace(d, o) EXCEPT !.row = [n \in Ops |->
     IF n \in Queued(d) \ {o} /\ SameUser(n, o)
     THEN [@[n] EXCEPT !.userTurn = d.turn + 1] ELSE @[n]]]

\* Spend one credit on o; what its user, and its project of that user, still
\* has queued moves behind everybody who waits now.
Grant(d, o) ==
  LET g == GrantInPlace(d, o)
      moved == [n \in Ops |->
        IF n \in Queued(d) \ {o} /\ SameUser(n, o)
        THEN [g.row[n] EXCEPT !.userTurn = d.turn + 1,
                              !.projectTurn = IF SameProject(n, o) THEN d.turn + 1 ELSE @]
        ELSE g.row[n]]
  IN [g EXCEPT !.row = moved]

First(d, seq) == CHOOSE o \in Queued(d) : \A n \in Queued(d) : Before(d, seq, o, n)

\* Mutant of Round: the deadline is not looked at again.
RoundGrantsLate(d, seq) ==
  IF d.credits = 0 \/ Queued(d) = {} THEN d ELSE Grant(d, First(d, seq))

\* Mutant of Round: the loop ends at a request whose deadline has passed.
RoundStopsAtLate(d, seq) ==
  IF d.credits = 0 \/ Queued(d) = {} \/ First(d, seq) \in d.overdue THEN d
  ELSE Grant(d, First(d, seq))

\* One round of the loop: grant the first request, or, if its deadline has
\* passed since the lock was taken, delete whatever is overdue and go on.
Round(d, seq) ==
  IF d.credits = 0 \/ Queued(d) = {} THEN d
  ELSE IF First(d, seq) \in d.overdue THEN DropOverdue(d)
  ELSE Grant(d, First(d, seq))

\* Grant in order while there is a credit and a request; nothing while some
\* allocated Runtime has not registered.  One round at most deletes.
Schedule(d, seq) ==
  LET run[k \in 0 .. MaxCredits + 1] == IF k = 0 THEN d ELSE Round(run[k - 1], seq)
  IN IF d.pending \/ d.credits = 0 \/ Queued(d) = {} THEN d ELSE run[MaxCredits + 1]

(***************************************************************************)
(* The methods.  Each returns the rows after it and, where the caller uses *)
(* it, a reply; the reply "error" stands for a thrown NodeResourceBudget-  *)
(* Error, whose transaction rolls back.                                    *)
(***************************************************************************)

\* read: the state of o's row, closed when there is none.
StateOf(d, o) == IF d.row[o].state = "none" THEN "closed" ELSE d.row[o].state

Full(waiting, o) ==
  \/ Cardinality(waiting) >= MaxQueued
  \/ Cardinality({n \in waiting : SameUser(n, o)}) >= MaxQueuedPerUser
  \/ Cardinality({n \in waiting : Project[n] = Project[o]}) >= MaxQueuedPerProject

\* request, for a sequence the owner has not used: advance the counter, then
\* admit at once, refuse, or queue behind the user's and the project's turn.
Request(rows, seq, owner, o) ==
  LET d == Lock(rows)
      e == Schedule([d EXCEPT !.last[owner] = seq[o]], seq)
      waiting == Queued(e)
      immediate == ~e.pending /\ waiting = {} /\ e.credits > 0
      turn == e.turn + 1
      inherit(peers, field) == IF peers = {} THEN turn ELSE e.row[CHOOSE n \in peers : TRUE][field]
      row == [state |-> "queued",
              userTurn |-> inherit({n \in waiting : SameUser(n, o)}, "userTurn"),
              projectTurn |-> inherit({n \in waiting : SameProject(n, o)}, "projectTurn")]
      f == Schedule([e EXCEPT !.turn = turn, !.row[o] = row, !.since[o] = Len(e.grants)], seq)
  IN IF owner \notin rows.reg \/ seq[o] > d.last[owner] + 1 THEN [rows |-> rows, reply |-> "error"]
     ELSE IF seq[o] <= d.last[owner] THEN [rows |-> d, reply |-> "closed"]
     ELSE IF ~immediate /\ Full(waiting, o) THEN [rows |-> e, reply |-> "refused"]
     ELSE [rows |-> f, reply |-> StateOf(f, o)]

\* status: expiry and grants first, then the row.
Status(rows, seq, owner, o) ==
  LET d == Schedule(Lock(rows), seq) IN
  IF owner \notin rows.reg THEN [rows |-> rows, reply |-> "error"]
  ELSE [rows |-> d, reply |-> StateOf(d, o)]

\* finish with outcome not-started or quiescent: delete the row; not-started
\* for the next sequence also uses that sequence up, so that a registration
\* still under way cannot be admitted afterwards.
Finish(rows, seq, owner, o, outcome) ==
  LET d == Lock(rows)
      unknown == \/ seq[o] > d.last[owner] + 1
                 \/ seq[o] = d.last[owner] + 1 /\ outcome # "not-started"
      e == [d EXCEPT !.row[o] = NoRow,
              !.last[owner] = IF seq[o] = @ + 1 THEN seq[o] ELSE @]
  IN IF owner \notin rows.reg \/ unknown THEN [rows |-> rows, reply |-> "error"]
     ELSE [rows |-> Schedule(e, seq), reply |-> "ok"]

\* registerGateway.
RegisterGateway(rows, owner) == [Lock(rows) EXCEPT !.reg = @ \cup {owner}]

\* gatewayStopped: drop the owner, its counter and all its requests; of[o] is
\* the owner of operation o.
GatewayStopped(rows, seq, of, owner) ==
  LET d == Lock(rows) IN
  IF owner \notin rows.reg THEN rows
  ELSE Schedule([d EXCEPT !.reg = @ \ {owner}, !.last[owner] = 0,
                   !.row = [o \in Ops |-> IF of[o] = owner THEN NoRow ELSE d.row[o]]], seq)

\* observe: a pressure sample replaces the credits.
Observe(rows, seq, credits) == Schedule([Lock(rows) EXCEPT !.credits = credits], seq)

\* admitRuntimeStart: one credit is spent on a Runtime, whose registration the
\* node then waits for.
AdmitRuntimeStart(rows, seq) ==
  LET d == Schedule(Lock(rows), seq) IN
  IF d.pending \/ d.credits = 0 THEN d ELSE [d EXCEPT !.credits = @ - 1, !.pending = TRUE]

\* register: the Runtime's registration; nothing is scheduled.
RegisterRuntime(rows) == [Lock(rows) EXCEPT !.pending = FALSE]
=============================================================================
