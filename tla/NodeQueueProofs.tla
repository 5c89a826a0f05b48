---------------------------- MODULE NodeQueueProofs ----------------------------
(***************************************************************************)
(* Users and projects take turns in the node's queue, which stays within   *)
(* its limits and grants nothing overdue, for any number of operations,    *)
(* users, projects, owners and credits.                                    *)
(***************************************************************************)
EXTENDS NodeQueue, NodeResourceBudgetProofs, FiniteSetTheorems

(***************************************************************************)
(* The invariant, as predicates on the rows d                              *)
(***************************************************************************)

\* The turns of what is queued: one for a user, one for a project of a user,
\* and none above the counter.
Ordered(d) ==
  /\ \A o, n \in Queued(d) : SameUser(o, n) => d.row[o].userTurn = d.row[n].userTurn
  /\ \A o, n \in Queued(d) : SameProject(o, n) => d.row[o].projectTurn = d.row[n].projectTurn
  /\ \A o \in Queued(d) : d.row[o].userTurn <= d.turn /\ d.row[o].projectTurn <= d.turn

\* The grants since n was queued after which n's user, or n's project, has had
\* none.
UserPassed(d, n) ==
  {i \in d.since[n] + 1 .. Len(d.grants) :
     \A j \in i .. Len(d.grants) : ~SameUser(d.grants[j], n)}
ProjectPassed(d, n) ==
  {i \in d.since[n] + 1 .. Len(d.grants) :
     \A j \in i .. Len(d.grants) : ~SameProject(d.grants[j], n)}

\* While n waits no other user has two of them, and who has one is behind n.
UsersFair(d) ==
  \A n \in Queued(d) : \A i \in UserPassed(d, n) :
    /\ \A j \in UserPassed(d, n) : i # j => ~SameUser(d.grants[i], d.grants[j])
    /\ \A o \in Queued(d) : SameUser(o, d.grants[i]) => d.row[n].userTurn < d.row[o].userTurn

\* The same for the projects of n's user.
ProjectsFair(d) ==
  \A n \in Queued(d) : \A i \in ProjectPassed(d, n) : SameUser(d.grants[i], n) =>
    /\ \A j \in ProjectPassed(d, n) : i # j => ~SameProject(d.grants[i], d.grants[j])
    /\ \A o \in Queued(d) : SameProject(o, d.grants[i]) => d.row[n].projectTurn < d.row[o].projectTurn

Turns(d) == Ordered(d) /\ UsersFair(d) /\ ProjectsFair(d)

\* A set of waiting requests is finite and within the limits.
Within(waiting) ==
  /\ IsFiniteSet(waiting) /\ Cardinality(waiting) <= MaxQueued
  /\ \A o \in waiting :
       /\ Cardinality({n \in waiting : SameUser(n, o)}) <= MaxQueuedPerUser
       /\ Cardinality({n \in waiting : Project[n] = Project[o]}) <= MaxQueuedPerProject

\* The inductive invariant.
QueueInv ==
  /\ db \in Rows /\ seq \in [Ops -> Nat]
  /\ Turns(db) /\ Within(Queued(db))

\* Since the rows d, what was overdue is gone, what became overdue during the
\* transaction is gone or still waits as overdue, and nothing was granted while
\* a Runtime was awaited.
Fresh(d, e) ==
  /\ d.pending => e.pending
  /\ \A o \in Queued(d) :
       /\ o \in d.overdue => e.row[o].state = "none"
       /\ o \in d.late => e.row[o].state = "none" \/ o \in Queued(e) \cap e.overdue
       /\ d.pending => e.row[o].state # "active"

(***************************************************************************)
(* The limits                                                              *)
(***************************************************************************)

\* Who leaves keeps the limits.
LEMMA WithinLess ==
  ASSUME NEW waiting, Within(waiting), NEW fewer, fewer \subseteq waiting
  PROVE  Within(fewer)
<1>0. {MaxQueued, MaxQueuedPerUser, MaxQueuedPerProject} \subseteq Nat
  BY BudgetAssumption
<1>1. ASSUME NEW S, NEW T, IsFiniteSet(T), S \subseteq T, NEW k \in Nat, Cardinality(T) <= k
      PROVE  IsFiniteSet(S) /\ Cardinality(S) <= k
  <2>1. /\ IsFiniteSet(S) /\ Cardinality(S) <= Cardinality(T)
        /\ Cardinality(S) \in Nat /\ Cardinality(T) \in Nat
    BY <1>1, FS_Subset, FS_CardinalityType
  <2>. QED
    BY <1>1, <2>1
<1>2. IsFiniteSet(waiting) /\ Cardinality(waiting) <= MaxQueued
  BY DEF Within
<1>3. IsFiniteSet(fewer) /\ Cardinality(fewer) <= MaxQueued
  BY <1>0, <1>1, <1>2
<1>4. ASSUME NEW o \in fewer
      PROVE  /\ Cardinality({n \in fewer : SameUser(n, o)}) <= MaxQueuedPerUser
             /\ Cardinality({n \in fewer : Project[n] = Project[o]}) <= MaxQueuedPerProject
  <2>. DEFINE users == {n \in waiting : SameUser(n, o)}
              projects == {n \in waiting : Project[n] = Project[o]}
  <2>1. Cardinality(users) <= MaxQueuedPerUser /\ Cardinality(projects) <= MaxQueuedPerProject
    BY DEF Within
  <2>2. IsFiniteSet(users) /\ IsFiniteSet(projects)
    BY <1>2, FS_Subset
  <2>3. {n \in fewer : SameUser(n, o)} \subseteq users
        /\ {n \in fewer : Project[n] = Project[o]} \subseteq projects
    OBVIOUS
  <2>. QED
    BY <1>0, <1>1, <2>1, <2>2, <2>3
<1>. QED
  BY <1>3, <1>4 DEF Within

\* Nobody waits.
LEMMA WithinNone == Within({})
<1>1. IsFiniteSet({}) /\ Cardinality({}) = 0
  BY FS_EmptySet
<1>2. MaxQueued \in Nat
  BY BudgetAssumption
<1>. QED
  BY <1>1, <1>2 DEF Within

\* One more in a finite set that had room.
LEMMA OneMore ==
  ASSUME NEW S, IsFiniteSet(S), NEW o, NEW T, T \subseteq S \cup {o}, NEW k \in Nat,
         ~(Cardinality(S) >= k)
  PROVE  IsFiniteSet(T) /\ Cardinality(T) <= k
<1>1. Cardinality(S) \in Nat /\ IsFiniteSet(S \cup {o}) /\ Cardinality(S \cup {o}) <= Cardinality(S) + 1
      /\ Cardinality(S \cup {o}) \in Nat
  <2>1. IsFiniteSet(S \cup {o}) /\ Cardinality(S) \in Nat
        /\ Cardinality(S \cup {o}) = (IF o \in S THEN Cardinality(S) ELSE Cardinality(S) + 1)
    BY FS_AddElement, FS_CardinalityType
  <2>. QED
    BY <2>1
<1>2. IsFiniteSet(T) /\ Cardinality(T) <= Cardinality(S \cup {o}) /\ Cardinality(T) \in Nat
  BY <1>1, FS_Subset, FS_CardinalityType
<1>. QED
  BY <1>1, <1>2

\* Who finds room may join.
LEMMA WithinMore ==
  ASSUME NEW waiting \in SUBSET Ops, Within(waiting), NEW o \in Ops, ~Full(waiting, o)
  PROVE  Within(waiting \cup {o})
<1>0. MaxQueued \in Nat /\ MaxQueuedPerUser \in Nat /\ MaxQueuedPerProject \in Nat
  BY BudgetAssumption
<1>. DEFINE all == waiting \cup {o}
            users(n) == {m \in waiting : SameUser(m, n)}
            projects(n) == {m \in waiting : Project[m] = Project[n]}
<1>1. /\ ~(Cardinality(waiting) >= MaxQueued)
      /\ ~(Cardinality(users(o)) >= MaxQueuedPerUser)
      /\ ~(Cardinality(projects(o)) >= MaxQueuedPerProject)
  BY DEF Full
<1>2. IsFiniteSet(waiting) /\ IsFiniteSet(users(o)) /\ IsFiniteSet(projects(o))
  BY FS_Subset DEF Within
<1>3. IsFiniteSet(all) /\ Cardinality(all) <= MaxQueued
  BY <1>0, <1>1, <1>2, OneMore
<1>4. ASSUME NEW n \in all PROVE Cardinality({m \in all : SameUser(m, n)}) <= MaxQueuedPerUser
  <2>1. CASE SameUser(o, n)
    <3>1. {m \in all : SameUser(m, n)} \subseteq users(o) \cup {o}
      BY <2>1 DEF SameUser
    <3>. QED
      BY <1>0, <1>1, <1>2, <3>1, OneMore
  <2>2. CASE ~SameUser(o, n)
    <3>1. n \in waiting /\ {m \in all : SameUser(m, n)} = users(n)
      BY <2>2 DEF SameUser
    <3>. QED
      BY <3>1 DEF Within
  <2>. QED
    BY <2>1, <2>2
<1>5. ASSUME NEW n \in all PROVE Cardinality({m \in all : Project[m] = Project[n]}) <= MaxQueuedPerProject
  <2>1. CASE Project[o] = Project[n]
    <3>1. {m \in all : Project[m] = Project[n]} \subseteq projects(o) \cup {o}
      BY <2>1
    <3>. QED
      BY <1>0, <1>1, <1>2, <3>1, OneMore
  <2>2. CASE Project[o] # Project[n]
    <3>1. n \in waiting /\ {m \in all : Project[m] = Project[n]} = projects(n)
      BY <2>2
    <3>. QED
      BY <3>1 DEF Within
  <2>. QED
    BY <2>1, <2>2
<1>. QED
  BY <1>3, <1>4, <1>5 DEF Within

(***************************************************************************)
(* The turns                                                               *)
(***************************************************************************)

\* From d to e some requests left the queue; those that stay are as they were.
Thinned(d, e) ==
  /\ Queued(e) \subseteq Queued(d) /\ \A o \in Queued(e) : e.row[o] = d.row[o]
  /\ e.turn = d.turn /\ e.grants = d.grants /\ e.since = d.since

\* Who leaves disturbs no turn.
LEMMA ThinnedTurns ==
  ASSUME NEW d, NEW e, Turns(d), Thinned(d, e)
  PROVE  Turns(e)
<1>1. Ordered(e)
  BY DEF Turns, Ordered, Thinned
<1>2. \A n \in Ops : UserPassed(e, n) = UserPassed(d, n) /\ ProjectPassed(e, n) = ProjectPassed(d, n)
  BY DEF UserPassed, ProjectPassed, Thinned
<1>3. Queued(e) \subseteq Ops
  BY DEF Queued
<1>4. UsersFair(e)
  BY <1>2, <1>3 DEF Turns, UsersFair, Thinned
<1>5. ProjectsFair(e)
  BY <1>2, <1>3 DEF Turns, ProjectsFair, Thinned
<1>. QED
  BY <1>1, <1>4, <1>5 DEF Turns

\* From d to e, o is queued behind its user's and its project's requests, or
\* behind everybody.
Joined(d, e, o) ==
  /\ o \notin Queued(d) /\ Queued(e) = Queued(d) \cup {o}
  /\ \A n \in Queued(d) : e.row[n] = d.row[n] /\ e.since[n] = d.since[n]
  /\ e.turn = d.turn + 1 /\ e.grants = d.grants /\ e.since[o] = Len(d.grants)
  /\ \/ /\ e.row[o].userTurn = d.turn + 1 /\ \A n \in Queued(d) : ~SameUser(n, o)
     \/ \E n \in Queued(d) : SameUser(n, o) /\ e.row[o].userTurn = d.row[n].userTurn
  /\ \/ /\ e.row[o].projectTurn = d.turn + 1 /\ \A n \in Queued(d) : ~SameProject(n, o)
     \/ \E n \in Queued(d) : SameProject(n, o) /\ e.row[o].projectTurn = d.row[n].projectTurn

\* Turns are natural numbers.
LEMMA TurnTypes ==
  ASSUME NEW d \in Rows
  PROVE  /\ d.turn \in Nat /\ d.grants \in Seq(Ops) /\ Len(d.grants) \in Nat
         /\ \A n \in Ops : d.row[n].userTurn \in Nat /\ d.row[n].projectTurn \in Nat
         /\ \A n \in Ops : d.since[n] \in Nat
         /\ Queued(d) \subseteq Ops
<1>1. d.row \in [Ops -> Row] /\ d.turn \in Nat /\ d.grants \in Seq(Ops) /\ d.since \in [Ops -> Nat]
  BY RowsFields
<1>. QED
  BY <1>1 DEF Row, Queued

\* Who joins disturbs no turn.
LEMMA JoinedTurns ==
  ASSUME NEW d \in Rows, NEW e \in Rows, NEW o \in Ops, Turns(d), Joined(d, e, o)
  PROVE  Turns(e)
<1>0. /\ d.turn \in Nat /\ Len(d.grants) \in Nat /\ Queued(d) \subseteq Ops /\ e.turn = d.turn + 1
      /\ \A n \in Queued(d) : d.row[n].userTurn \in Nat /\ d.row[n].projectTurn \in Nat
      /\ e.row[o].userTurn \in Nat /\ e.row[o].projectTurn \in Nat
      /\ Queued(e) = Queued(d) \cup {o} /\ \A n \in Queued(d) : e.row[n] = d.row[n]
      /\ e.grants = d.grants /\ o \notin Queued(d)
  BY TurnTypes DEF Joined
<1>1. \A n \in Queued(d) : d.row[n].userTurn <= d.turn /\ d.row[n].projectTurn <= d.turn
  BY DEF Turns, Ordered
<1>2. /\ \A n \in Queued(d) : SameUser(n, o) => e.row[o].userTurn = d.row[n].userTurn
      /\ \A n \in Queued(d) : SameProject(n, o) => e.row[o].projectTurn = d.row[n].projectTurn
  BY DEF Joined, Turns, Ordered, SameUser, SameProject
<1>3. e.row[o].userTurn <= e.turn /\ e.row[o].projectTurn <= e.turn
  BY <1>0, <1>1 DEF Joined
<1>4. Ordered(e)
  <2>1. \A n \in Queued(e) : e.row[n].userTurn <= e.turn /\ e.row[n].projectTurn <= e.turn
    <3>1. ASSUME NEW n \in Queued(e) PROVE e.row[n].userTurn <= e.turn /\ e.row[n].projectTurn <= e.turn
      <4>1. CASE n = o
        BY <4>1, <1>3
      <4>2. CASE n \in Queued(d)
        <5>1. /\ e.row[n] = d.row[n] /\ d.row[n].userTurn \in Nat /\ d.row[n].projectTurn \in Nat
              /\ d.row[n].userTurn <= d.turn /\ d.row[n].projectTurn <= d.turn
          BY <4>2, <1>0, <1>1, Zenon
        <5>. QED
          BY <5>1, <1>0
      <4>. QED
        BY <4>1, <4>2, <1>0
    <3>. QED
      BY <3>1
  <2>2. \A n, m \in Queued(e) : SameUser(n, m) => e.row[n].userTurn = e.row[m].userTurn
    BY <1>0, <1>2 DEF Turns, Ordered, SameUser
  <2>3. \A n, m \in Queued(e) : SameProject(n, m) => e.row[n].projectTurn = e.row[m].projectTurn
    BY <1>0, <1>2 DEF Turns, Ordered, SameProject, SameUser
  <2>. QED
    BY <2>1, <2>2, <2>3 DEF Ordered
<1>5. /\ \A n \in Queued(d) : UserPassed(e, n) = UserPassed(d, n) /\ ProjectPassed(e, n) = ProjectPassed(d, n)
      /\ UserPassed(e, o) = {} /\ ProjectPassed(e, o) = {}
  <2>1. e.since[o] + 1 .. Len(e.grants) = {}
    BY <1>0 DEF Joined
  <2>. QED
    BY <2>1 DEF UserPassed, ProjectPassed, Joined
<1>6. UsersFair(e)
  <2>1. ASSUME NEW n \in Queued(d), NEW i \in UserPassed(d, n), SameUser(o, d.grants[i])
        PROVE  d.row[n].userTurn < e.row[o].userTurn
    <3>1. CASE e.row[o].userTurn = d.turn + 1
      BY <1>0, <1>1, <3>1
    <3>2. CASE \E m \in Queued(d) : SameUser(m, o) /\ e.row[o].userTurn = d.row[m].userTurn
      BY <2>1, <3>2 DEF Turns, UsersFair, SameUser
    <3>. QED
      BY <3>1, <3>2 DEF Joined
  <2>. QED
    BY <1>0, <1>5, <2>1 DEF Turns, UsersFair
<1>7. ProjectsFair(e)
  <2>1. ASSUME NEW n \in Queued(d), NEW i \in ProjectPassed(d, n), SameUser(d.grants[i], n),
               SameProject(o, d.grants[i])
        PROVE  d.row[n].projectTurn < e.row[o].projectTurn
    <3>1. CASE e.row[o].projectTurn = d.turn + 1
      BY <1>0, <1>1, <3>1
    <3>2. CASE \E m \in Queued(d) : SameProject(m, o) /\ e.row[o].projectTurn = d.row[m].projectTurn
      <4>1. PICK m \in Queued(d) : SameProject(m, o) /\ e.row[o].projectTurn = d.row[m].projectTurn
        BY <3>2
      <4>2. SameProject(m, d.grants[i])
        BY <2>1, <4>1 DEF SameProject, SameUser
      <4>. QED
        BY <2>1, <4>1, <4>2 DEF Turns, ProjectsFair
    <3>. QED
      BY <3>1, <3>2 DEF Joined
  <2>. QED
    BY <1>0, <1>5, <2>1 DEF Turns, ProjectsFair
<1>. QED
  BY <1>4, <1>6, <1>7 DEF Turns

\* A grant to the first request in the order keeps the turns.
LEMMA GrantedTurns ==
  ASSUME NEW d \in Rows, NEW e \in Rows, NEW o \in Queued(d), NEW seq1, Turns(d), Granted(d, e, o),
         \A n \in Queued(d) : Before(d, seq1, o, n)
  PROVE  Turns(e)
<1>0. /\ d.turn \in Nat /\ d.grants \in Seq(Ops) /\ Len(d.grants) \in Nat /\ Queued(d) \subseteq Ops
      /\ \A n \in Ops : d.row[n].userTurn \in Nat /\ d.row[n].projectTurn \in Nat /\ d.since[n] \in Nat
  BY TurnTypes
<1>. DEFINE last == Len(d.grants) + 1
<1>1. /\ Len(e.grants) = last /\ e.grants[last] = o
      /\ \A i \in 1 .. Len(d.grants) : e.grants[i] = d.grants[i]
      /\ Queued(e) \subseteq Queued(d) /\ e.turn = d.turn + 1 /\ e.since = d.since
  BY <1>0 DEF Granted
<1>2. \A n \in Queued(d) : d.row[n].userTurn <= d.turn /\ d.row[n].projectTurn <= d.turn
  BY DEF Turns, Ordered
<1>3. \A n \in Queued(e) : n \in Queued(d) /\ n \in Ops
        /\ e.row[n].userTurn = (IF SameUser(n, o) THEN d.turn + 1 ELSE d.row[n].userTurn)
        /\ e.row[n].projectTurn = (IF SameProject(n, o) THEN d.turn + 1 ELSE d.row[n].projectTurn)
  BY <1>0 DEF Granted
<1>4. Ordered(e)
  <2>1. \A n \in Queued(e) : e.row[n].userTurn <= e.turn /\ e.row[n].projectTurn <= e.turn
    BY <1>0, <1>1, <1>2, <1>3
  <2>2. \A n, m \in Queued(e) : SameUser(n, m) => e.row[n].userTurn = e.row[m].userTurn
    BY <1>3 DEF Turns, Ordered, SameUser
  <2>3. \A n, m \in Queued(e) : SameProject(n, m) => e.row[n].projectTurn = e.row[m].projectTurn
    BY <1>3 DEF Turns, Ordered, SameProject, SameUser
  <2>. QED
    BY <2>1, <2>2, <2>3 DEF Ordered
<1>5. \A n \in Queued(d) : d.row[o].userTurn <= d.row[n].userTurn
  BY <1>0 DEF Before
<1>6. \A n \in Queued(d) : SameUser(o, n) => d.row[o].projectTurn <= d.row[n].projectTurn
  <2>1. \A n \in Queued(d) : SameUser(o, n) => d.row[o].userTurn = d.row[n].userTurn
    BY DEF Turns, Ordered
  <2>. QED
    BY <1>0, <2>1 DEF Before
<1>7. ASSUME NEW n \in Queued(e), NEW i \in UserPassed(e, n)
      PROVE  /\ ~SameUser(o, n) /\ i \in 1 .. last
             /\ i # last => i \in UserPassed(d, n) /\ e.grants[i] = d.grants[i]
  <2>0. n \in Ops /\ d.since[n] \in Nat
    BY <1>0, <1>3
  <2>1. /\ i \in d.since[n] + 1 .. last /\ \A j \in i .. last : ~SameUser(e.grants[j], n)
    BY <1>1, <1>7 DEF UserPassed
  <2>2. last \in i .. last /\ i \in 1 .. last
    BY <1>0, <2>0, <2>1
  <2>3. ~SameUser(o, n)
    BY <1>1, <2>1, <2>2
  <2>4. ASSUME i # last PROVE i \in UserPassed(d, n) /\ e.grants[i] = d.grants[i]
    <3>1. i \in d.since[n] + 1 .. Len(d.grants) /\ i \in 1 .. Len(d.grants)
      BY <1>0, <2>0, <2>1, <2>2, <2>4
    <3>2. \A j \in i .. Len(d.grants) : j \in i .. last /\ e.grants[j] = d.grants[j]
      BY <1>0, <1>1, <3>1
    <3>. QED
      BY <1>1, <2>1, <3>1, <3>2 DEF UserPassed
  <2>. QED
    BY <2>2, <2>3, <2>4
<1>8. ASSUME NEW n \in Queued(e), NEW i \in UserPassed(d, n) PROVE ~SameUser(o, d.grants[i])
  <2>1. n \in Queued(d) /\ n \in Ops /\ o \in Ops
    BY <1>0, <1>3
  <2>2. SameUser(o, d.grants[i]) => d.row[n].userTurn < d.row[o].userTurn
    BY <2>1, <1>8 DEF Turns, UsersFair
  <2>3. d.row[o].userTurn <= d.row[n].userTurn
    BY <1>5, <2>1
  <2>. QED
    BY <1>0, <2>1, <2>2, <2>3
<1>9. UsersFair(e)
  <2>. SUFFICES ASSUME NEW n \in Queued(e), NEW i \in UserPassed(e, n)
                PROVE  /\ \A j \in UserPassed(e, n) : i # j => ~SameUser(e.grants[i], e.grants[j])
                       /\ \A m \in Queued(e) : SameUser(m, e.grants[i]) => e.row[n].userTurn < e.row[m].userTurn
    BY DEF UsersFair
  <2>1. n \in Queued(d) /\ n \in Ops /\ e.row[n].userTurn = d.row[n].userTurn
    BY <1>3, <1>7 DEF SameUser
  <2>2. ASSUME NEW j \in UserPassed(e, n), i # j PROVE ~SameUser(e.grants[i], e.grants[j])
    <3>1. CASE i = last
      <4>1. j # last
        BY <2>2, <3>1
      <4>2. j \in UserPassed(d, n) /\ e.grants[j] = d.grants[j] /\ e.grants[i] = o
        BY <1>1, <1>7, <3>1, <4>1
      <4>. QED
        BY <1>8, <4>2
    <3>2. CASE j = last
      <4>1. i # last
        BY <2>2, <3>2
      <4>2. i \in UserPassed(d, n) /\ e.grants[i] = d.grants[i] /\ e.grants[j] = o
        BY <1>1, <1>7, <3>2, <4>1
      <4>3. ~SameUser(o, d.grants[i])
        BY <1>8, <4>2
      <4>. QED
        BY <4>2, <4>3 DEF SameUser
    <3>3. CASE i # last /\ j # last
      <4>1. i \in UserPassed(d, n) /\ e.grants[i] = d.grants[i] /\ j \in UserPassed(d, n) /\ e.grants[j] = d.grants[j]
        BY <1>7, <3>3
      <4>. QED
        BY <2>1, <2>2, <4>1 DEF Turns, UsersFair
    <3>. QED
      BY <3>1, <3>2, <3>3
  <2>3. ASSUME NEW m \in Queued(e), SameUser(m, e.grants[i]) PROVE e.row[n].userTurn < e.row[m].userTurn
    <3>0. m \in Queued(d) /\ m \in Ops /\ d.row[n].userTurn <= d.turn
      BY <1>2, <1>3, <2>1
    <3>1. CASE i = last
      <4>1. e.row[m].userTurn = d.turn + 1
        BY <1>1, <1>3, <2>3, <3>1
      <4>. QED
        BY <1>0, <2>1, <3>0, <4>1
    <3>2. CASE i # last
      <4>1. i \in UserPassed(d, n) /\ e.grants[i] = d.grants[i]
        BY <1>7, <3>2
      <4>2. ~SameUser(m, o)
        BY <1>8, <2>3, <4>1 DEF SameUser
      <4>3. e.row[m].userTurn = d.row[m].userTurn
        BY <1>3, <4>2
      <4>. QED
        BY <2>1, <2>3, <3>0, <4>1, <4>3 DEF Turns, UsersFair
    <3>. QED
      BY <3>1, <3>2
  <2>. QED
    BY <2>2, <2>3
<1>10. ASSUME NEW n \in Queued(e), NEW i \in ProjectPassed(e, n)
      PROVE  /\ ~SameProject(o, n) /\ i \in 1 .. last
             /\ i # last => i \in ProjectPassed(d, n) /\ e.grants[i] = d.grants[i]
  <2>0. n \in Ops /\ d.since[n] \in Nat
    BY <1>0, <1>3
  <2>1. /\ i \in d.since[n] + 1 .. last /\ \A j \in i .. last : ~SameProject(e.grants[j], n)
    BY <1>1, <1>10 DEF ProjectPassed
  <2>2. last \in i .. last /\ i \in 1 .. last
    BY <1>0, <2>0, <2>1
  <2>3. ~SameProject(o, n)
    BY <1>1, <2>1, <2>2
  <2>4. ASSUME i # last PROVE i \in ProjectPassed(d, n) /\ e.grants[i] = d.grants[i]
    <3>1. i \in d.since[n] + 1 .. Len(d.grants) /\ i \in 1 .. Len(d.grants)
      BY <1>0, <2>0, <2>1, <2>2, <2>4
    <3>2. \A j \in i .. Len(d.grants) : j \in i .. last /\ e.grants[j] = d.grants[j]
      BY <1>0, <1>1, <3>1
    <3>. QED
      BY <1>1, <2>1, <3>1, <3>2 DEF ProjectPassed
  <2>. QED
    BY <2>2, <2>3, <2>4
<1>11. ASSUME NEW n \in Queued(e), NEW i \in ProjectPassed(d, n), SameUser(d.grants[i], n)
       PROVE  ~SameProject(o, d.grants[i])
  <2>1. n \in Queued(d) /\ n \in Ops /\ o \in Ops
    BY <1>0, <1>3
  <2>2. SameProject(o, d.grants[i]) => d.row[n].projectTurn < d.row[o].projectTurn
    BY <2>1, <1>11 DEF Turns, ProjectsFair
  <2>3. SameProject(o, d.grants[i]) => d.row[o].projectTurn <= d.row[n].projectTurn
    BY <1>6, <2>1, <1>11 DEF SameProject, SameUser
  <2>. QED
    BY <1>0, <2>1, <2>2, <2>3
<1>12. ProjectsFair(e)
  <2>. SUFFICES ASSUME NEW n \in Queued(e), NEW i \in ProjectPassed(e, n), SameUser(e.grants[i], n)
                PROVE  /\ \A j \in ProjectPassed(e, n) : i # j => ~SameProject(e.grants[i], e.grants[j])
                       /\ \A m \in Queued(e) : SameProject(m, e.grants[i]) => e.row[n].projectTurn < e.row[m].projectTurn
    BY DEF ProjectsFair
  <2>1. n \in Queued(d) /\ n \in Ops /\ e.row[n].projectTurn = d.row[n].projectTurn
    BY <1>3, <1>10 DEF SameProject, SameUser
  <2>2. ASSUME NEW j \in ProjectPassed(e, n), i # j PROVE ~SameProject(e.grants[i], e.grants[j])
    <3>1. CASE i = last
      <4>1. j # last
        BY <2>2, <3>1
      <4>2. j \in ProjectPassed(d, n) /\ e.grants[j] = d.grants[j] /\ e.grants[i] = o
        BY <1>1, <1>10, <3>1, <4>1
      <4>3. SameProject(o, d.grants[j]) => SameUser(d.grants[j], n)
        BY <4>2 DEF SameProject, SameUser
      <4>. QED
        BY <1>11, <4>2, <4>3
    <3>2. CASE j = last
      <4>1. i # last
        BY <2>2, <3>2
      <4>2. i \in ProjectPassed(d, n) /\ e.grants[i] = d.grants[i] /\ e.grants[j] = o
        BY <1>1, <1>10, <3>2, <4>1
      <4>3. ~SameProject(o, d.grants[i])
        BY <1>11, <4>2
      <4>. QED
        BY <4>2, <4>3 DEF SameProject, SameUser
    <3>3. CASE i # last /\ j # last
      <4>1. i \in ProjectPassed(d, n) /\ e.grants[i] = d.grants[i] /\ j \in ProjectPassed(d, n) /\ e.grants[j] = d.grants[j]
        BY <1>10, <3>3
      <4>. QED
        BY <2>1, <2>2, <4>1 DEF Turns, ProjectsFair
    <3>. QED
      BY <3>1, <3>2, <3>3
  <2>3. ASSUME NEW m \in Queued(e), SameProject(m, e.grants[i]) PROVE e.row[n].projectTurn < e.row[m].projectTurn
    <3>0. m \in Queued(d) /\ m \in Ops /\ d.row[n].projectTurn <= d.turn
      BY <1>2, <1>3, <2>1
    <3>1. CASE i = last
      <4>1. e.row[m].projectTurn = d.turn + 1
        BY <1>1, <1>3, <2>3, <3>1
      <4>. QED
        BY <1>0, <2>1, <3>0, <4>1
    <3>2. CASE i # last
      <4>1. i \in ProjectPassed(d, n) /\ e.grants[i] = d.grants[i]
        BY <1>10, <3>2
      <4>2. ~SameProject(m, o)
        BY <1>11, <2>3, <4>1 DEF SameProject, SameUser
      <4>3. e.row[m].projectTurn = d.row[m].projectTurn
        BY <1>3, <4>2
      <4>. QED
        BY <2>1, <2>3, <3>0, <4>1, <4>3 DEF Turns, ProjectsFair
    <3>. QED
      BY <3>1, <3>2
  <2>. QED
    BY <2>2, <2>3
<1>. QED
  BY <1>4, <1>9, <1>12 DEF Turns

(***************************************************************************)
(* The scheduler                                                           *)
(***************************************************************************)

\* What a round keeps: the turns, and nobody joins; with a credit it takes a
\* request off the queue.
Rounded(d, e) ==
  /\ Turns(e) /\ Queued(e) \subseteq Queued(d)
  /\ d.credits # 0 /\ Queued(d) # {} => Queued(e) # Queued(d)

\* A round grants the first request or takes away what is overdue.
LEMMA RoundTurns ==
  ASSUME NEW d \in Rows, NEW s \in [Ops -> Nat], Turns(d)
  PROVE  Rounded(d, Round(d, s))
<1>0. d.credits \in 0 .. MaxCredits /\ MaxCredits \in Nat
  BY RowsFields, BudgetAssumption
<1>1. CASE d.credits = 0 \/ Queued(d) = {}
  BY <1>1 DEF Round, Rounded
<1>. DEFINE o == First(d, s)
<1>2. ASSUME ~(d.credits = 0 \/ Queued(d) = {})
      PROVE  o \in Queued(d) /\ o \in Ops /\ \A m \in Queued(d) : Before(d, s, o, m)
  BY <1>2, FirstQueued DEF Queued
<1>3. CASE ~(d.credits = 0 \/ Queued(d) = {}) /\ o \in d.overdue
  <2>. DEFINE e == DropOverdue(d)
  <2>1. Round(d, s) = e
    BY <1>3 DEF Round
  <2>2. /\ \A n \in Ops : e.row[n] = IF n \in Queued(d) \cap d.overdue THEN NoRow ELSE d.row[n]
        /\ e.turn = d.turn /\ e.grants = d.grants /\ e.since = d.since
    BY DropStep
  <2>3. NoRow.state = "none"
    BY DEF NoRow
  <2>. HIDE DEF e, o
  <2>4. Thinned(d, e) /\ o \notin Queued(e)
    BY <1>2, <1>3, <2>2, <2>3 DEF Thinned, Queued
  <2>5. Turns(e)
    BY <2>4, ThinnedTurns
  <2>. QED
    BY <1>2, <1>3, <2>1, <2>4, <2>5 DEF Rounded, Thinned
<1>4. CASE ~(d.credits = 0 \/ Queued(d) = {}) /\ o \notin d.overdue
  <2>. DEFINE e == Grant(d, o)
  <2>1. Round(d, s) = e
    BY <1>4 DEF Round
  <2>2. d.credits >= 1
    BY <1>0, <1>4
  <2>. HIDE DEF o
  <2>3. e \in Rows /\ Granted(d, e, o)
    BY <1>2, <1>4, <2>2, GrantStep
  <2>. HIDE DEF e
  <2>4. Turns(e)
    BY <1>2, <1>4, <2>3, GrantedTurns
  <2>5. Queued(e) = Queued(d) \ {o}
    BY <2>3 DEF Granted
  <2>. QED
    BY <1>2, <1>4, <2>1, <2>4, <2>5 DEF Rounded
<1>. QED
  BY <1>1, <1>3, <1>4

\* So does every number of rounds but none.
LEMMA RoundsTurns ==
  ASSUME NEW d \in Rows, NEW s \in [Ops -> Nat], Turns(d), NEW n \in 1 .. MaxCredits + 1
  PROVE  Rounded(d, Rounds(d, s)[n])
<1>0. MaxCredits \in Nat
  BY BudgetAssumption
<1>. DEFINE r(k) == Rounds(d, s)[k]
            P(k) == Rounded(d, r(k))
            bad == {k \in 1 .. MaxCredits + 1 : ~P(k)}
<1>1. P(1)
  <2>1. r(1) = Round(d, s)
    BY <1>0, RoundsUnfold
  <2>. QED
    BY <2>1, RoundTurns
<1>2. ASSUME NEW k \in 2 .. MaxCredits + 1, P(k - 1) PROVE P(k)
  <2>. DEFINE e == r(k - 1)
              f == Round(e, s)
  <2>1. r(k) = f
    BY <1>0, RoundsUnfold
  <2>2. e \in Rows
    <3>1. k - 1 \in 0 .. MaxCredits + 1
      BY <1>0
    <3>. QED
      BY <3>1, RoundsStep DEF Scheduled
  <2>3. Rounded(d, e)
    BY <1>2
  <2>. HIDE DEF e
  <2>4. Rounded(e, f)
    BY <2>2, <2>3, RoundTurns DEF Rounded
  <2>. HIDE DEF f, r
  <2>. QED
    BY <2>1, <2>3, <2>4 DEF Rounded
<1>. SUFFICES ASSUME bad # {} PROVE FALSE
  OBVIOUS
<1>3. bad \subseteq Nat
  BY <1>0
<1>. HIDE DEF P
<1>4. PICK m \in bad : \A k \in bad : m <= k
  BY <1>3, Least
<1>5. m \in 2 .. MaxCredits + 1
  BY <1>0, <1>1, <1>4
<1>6. m - 1 \in 1 .. MaxCredits + 1 /\ m - 1 \notin bad
  BY <1>0, <1>4, <1>5
<1>. QED
  BY <1>2, <1>4, <1>5, <1>6

\* schedule_node_resources keeps the turns and queues nobody; with a credit, and
\* no Runtime to wait for, it takes the only request there is.
LEMMA ScheduleTurns ==
  ASSUME NEW d \in Rows, NEW s \in [Ops -> Nat], Turns(d)
  PROVE  /\ Turns(Schedule(d, s)) /\ Queued(Schedule(d, s)) \subseteq Queued(d)
         /\ d.pending => Schedule(d, s) = d
         /\ ~d.pending /\ d.credits > 0 =>
              \A o \in Ops : Queued(d) = {o} => Queued(Schedule(d, s)) = {}
<1>1. MaxCredits + 1 \in 1 .. MaxCredits + 1 /\ d.credits \in Nat
  BY RowsFields, BudgetAssumption
<1>2. Schedule(d, s) = IF d.pending \/ d.credits = 0 \/ Queued(d) = {} THEN d
                       ELSE Rounds(d, s)[MaxCredits + 1]
  BY RoundsUnfold
<1>3. Rounded(d, Rounds(d, s)[MaxCredits + 1])
  BY <1>1, RoundsTurns
<1>4. CASE d.pending \/ d.credits = 0 \/ Queued(d) = {}
  BY <1>2, <1>4
<1>5. CASE ~(d.pending \/ d.credits = 0 \/ Queued(d) = {})
  BY <1>1, <1>2, <1>3, <1>5 DEF Rounded
<1>. QED
  BY <1>4, <1>5

(***************************************************************************)
(* The steps of a transaction                                              *)
(***************************************************************************)

\* The rows e that a transaction has made of d are in order.
Sound(d, e) == e \in Rows /\ Turns(e) /\ Within(Queued(e)) /\ Fresh(d, e)

\* Taking the lock.
LEMMA LockSound ==
  ASSUME NEW d \in Rows, Turns(d), Within(Queued(d))
  PROVE  Sound(d, Lock(d)) /\ Scheduled(d, Lock(d))
<1>. DEFINE e == Lock(d)
<1>1. /\ Scheduled(d, e) /\ e \in Rows /\ e.pending = d.pending /\ e.overdue = d.late
      /\ \A n \in Ops : e.row[n] = IF n \in Queued(d) \cap d.overdue THEN NoRow ELSE d.row[n]
      /\ Queued(e) = {} \/ (e.turn = d.turn /\ e.grants = d.grants /\ e.since = d.since)
  BY LockStep DEF Scheduled, Same
<1>2. NoRow.state = "none" /\ Queued(d) \subseteq Ops
  BY DEF NoRow, Queued
<1>. HIDE DEF e
<1>3. Queued(e) \subseteq Queued(d) /\ \A o \in Queued(e) : e.row[o] = d.row[o]
  BY <1>1, <1>2 DEF Queued
<1>4. Turns(e)
  <2>1. CASE Queued(e) = {}
    BY <2>1 DEF Turns, Ordered, UsersFair, ProjectsFair
  <2>2. CASE e.turn = d.turn /\ e.grants = d.grants /\ e.since = d.since
    BY <1>3, <2>2, ThinnedTurns DEF Thinned
  <2>. QED
    BY <1>1, <2>1, <2>2
<1>5. Fresh(d, e)
  BY <1>1, <1>2 DEF Fresh, Queued
<1>. QED
  BY <1>1, <1>3, <1>4, <1>5, WithinLess DEF Sound, e

\* Scheduling.
LEMMA ScheduleSound ==
  ASSUME NEW c \in Rows, NEW d, NEW s \in [Ops -> Nat], Sound(c, d)
  PROVE  Sound(c, Schedule(d, s))
<1>0. d \in Rows /\ Turns(d) /\ Within(Queued(d)) /\ Fresh(c, d)
  BY DEF Sound
<1>. DEFINE e == Schedule(d, s)
<1>1. /\ Turns(e) /\ Queued(e) \subseteq Queued(d) /\ (d.pending => e = d)
      /\ e \in Rows /\ e.pending = d.pending /\ Spares(d, e, {}) /\ Held(d, e)
  BY <1>0, ScheduleTurns, ScheduleStep DEF Scheduled, Same
<1>. HIDE DEF e
<1>2. Queued(c) \subseteq Ops
  BY DEF Queued
<1>3. Fresh(c, e)
  BY <1>0, <1>1, <1>2 DEF Fresh, Spares, Held
<1>. QED
  BY <1>0, <1>1, <1>3, WithinLess DEF Sound, e

\* Rows are removed.
LEMMA ThinnedSound ==
  ASSUME NEW c \in Rows, NEW d, Sound(c, d), NEW e \in Rows, Thinned(d, e),
         d.pending => e.pending, e.overdue = d.overdue,
         \A o \in Ops : e.row[o] = d.row[o] \/ e.row[o] = NoRow
  PROVE  Sound(c, e)
<1>1. NoRow.state = "none" /\ Queued(c) \subseteq Ops
  BY DEF NoRow, Queued
<1>2. Fresh(c, e)
  BY <1>1 DEF Sound, Fresh, Queued
<1>3. Queued(e) \subseteq Queued(d)
  BY DEF Thinned
<1>. QED
  BY <1>2, <1>3, ThinnedTurns, WithinLess DEF Sound

(***************************************************************************)
(* The transactions                                                        *)
(***************************************************************************)

\* What was waiting and is granted was neither overdue, before the lock or since,
\* nor behind a Runtime.
Current(d, e) ==
  \A o \in Queued(d) : e.row[o].state = "active" => o \notin d.overdue \cup d.late /\ ~d.pending

\* What a transaction makes of the rows d.
Result(d, e) == e \in Rows /\ Turns(e) /\ Within(Queued(e)) /\ Current(d, e)

\* A transaction whose rows are in order, or that rolled back.
LEMMA SoundResult ==
  ASSUME NEW d \in Rows, Turns(d), Within(Queued(d)), NEW e, Sound(d, e) \/ e = d
  PROVE  Result(d, e)
<1>1. Current(d, d)
  BY DEF Current, Queued
<1>2. Sound(d, e) => Current(d, e)
  BY DEF Sound, Fresh, Current, Queued
<1>. QED
  BY <1>1, <1>2 DEF Sound, Result

\* The row of a request joins the queue at its user's and its project's turn.
LEMMA JoinSound ==
  ASSUME NEW c \in Rows, NEW e, NEW s \in [Ops -> Nat], Sound(c, e), NEW o \in Ops,
         o \notin Queued(c), o \notin Queued(e),
         NEW userTurn, NEW projectTurn,
         userTurn = (IF {n \in Queued(e) : SameUser(n, o)} = {} THEN e.turn + 1
                     ELSE e.row[CHOOSE n \in {m \in Queued(e) : SameUser(m, o)} : TRUE]["userTurn"]),
         projectTurn = (IF {n \in Queued(e) : SameProject(n, o)} = {} THEN e.turn + 1
                        ELSE e.row[CHOOSE n \in {m \in Queued(e) : SameProject(m, o)} : TRUE]["projectTurn"]),
         \/ ~e.pending /\ Queued(e) = {} /\ e.credits > 0
         \/ ~Full(Queued(e), o),
         NEW g, g = [e EXCEPT !.turn = e.turn + 1, !.since[o] = Len(e.grants),
                       !.row[o] = [state |-> "queued", userTurn |-> userTurn, projectTurn |-> projectTurn]]
  PROVE  Sound(c, Schedule(g, s))
<1>0. e \in Rows /\ Turns(e) /\ Within(Queued(e)) /\ Fresh(c, e)
  BY DEF Sound
<1>1. /\ e.row \in [Ops -> Row] /\ e.turn \in Nat /\ Len(e.grants) \in Nat /\ e.since \in [Ops -> Nat]
      /\ Queued(e) \subseteq Ops
      /\ \A n \in Ops : e.row[n].userTurn \in Nat /\ e.row[n].projectTurn \in Nat
  BY <1>0, RowsFields, TurnTypes
<1>2. /\ \/ userTurn = e.turn + 1 /\ \A n \in Queued(e) : ~SameUser(n, o)
         \/ \E n \in Queued(e) : SameUser(n, o) /\ userTurn = e.row[n].userTurn
      /\ \/ projectTurn = e.turn + 1 /\ \A n \in Queued(e) : ~SameProject(n, o)
         \/ \E n \in Queued(e) : SameProject(n, o) /\ projectTurn = e.row[n].projectTurn
  <2>. DEFINE users == {n \in Queued(e) : SameUser(n, o)}
              projects == {n \in Queued(e) : SameProject(n, o)}
  <2>1. users # {} => (CHOOSE n \in users : TRUE) \in users
    OBVIOUS
  <2>2. projects # {} => (CHOOSE n \in projects : TRUE) \in projects
    OBVIOUS
  <2>. QED
    BY <2>1, <2>2
<1>3. userTurn \in Nat /\ projectTurn \in Nat
  BY <1>1, <1>2
<1>. DEFINE row == [state |-> "queued", userTurn |-> userTurn, projectTurn |-> projectTurn]
            grown == [e.row EXCEPT ![o] = row]
            since == [e.since EXCEPT ![o] = Len(e.grants)]
            turn == e.turn + 1
<1>4. /\ row \in Row /\ row.state = "queued" /\ row.userTurn = userTurn /\ row.projectTurn = projectTurn
  BY <1>3 DEF Row
<1>5. /\ grown \in [Ops -> Row] /\ grown[o] = row /\ \A n \in Ops : n # o => grown[n] = e.row[n]
      /\ since \in [Ops -> Nat] /\ since[o] = Len(e.grants) /\ \A n \in Ops : n # o => since[n] = e.since[n]
      /\ turn \in Nat
  BY <1>1, <1>4
<1>6. g = [e EXCEPT !.turn = turn, !.row = grown, !.since = since]
  BY <1>0 DEF Rows
<1>. HIDE DEF row, grown, since, turn
<1>7. /\ g \in Rows /\ g.row = grown /\ g.since = since /\ g.turn = turn /\ g.grants = e.grants
      /\ g.pending = e.pending /\ g.credits = e.credits /\ g.overdue = e.overdue
  BY <1>0, <1>5, <1>6 DEF Rows
<1>8. Queued(g) = Queued(e) \cup {o}
  <2>1. \A n \in Ops : g.row[n].state = "queued" <=> e.row[n].state = "queued" \/ n = o
    BY <1>4, <1>5, <1>7
  <2>. QED
    BY <2>1, Zenon DEF Queued
<1>9. Joined(e, g, o)
  BY <1>1, <1>2, <1>4, <1>5, <1>7, <1>8 DEF Joined, turn
<1>10. Turns(g)
  BY <1>0, <1>7, <1>9, JoinedTurns
<1>11. Fresh(c, g)
  <2>1. \A n \in Queued(c) : n \in Ops /\ n # o
    BY DEF Queued
  <2>. QED
    BY <1>0, <1>5, <1>7, <2>1 DEF Fresh, Queued
<1>12. CASE ~Full(Queued(e), o)
  <2>0. Queued(e) \in SUBSET Ops
    BY <1>1
  <2>1. Within(Queued(e) \cup {o})
    BY <1>0, <1>12, <2>0, WithinMore, Zenon
  <2>2. Sound(c, g)
    BY <1>7, <1>8, <1>10, <1>11, <2>1, Zenon DEF Sound
  <2>. QED
    BY <2>2, ScheduleSound
<1>13. CASE ~e.pending /\ Queued(e) = {} /\ e.credits > 0
  <2>. DEFINE f == Schedule(g, s)
  <2>1. Queued(g) = {o} /\ ~g.pending /\ g.credits > 0
    BY <1>7, <1>8, <1>13
  <2>0. g \in Rows
    BY <1>7
  <2>2. Turns(f) /\ Queued(f) = {}
    <3>1. /\ Turns(f)
          /\ ~g.pending /\ g.credits > 0 => \A n \in Ops : Queued(g) = {n} => Queued(f) = {}
      BY <1>10, <2>0, ScheduleTurns
    <3>. HIDE DEF f
    <3>. QED
      BY <2>1, <3>1, Zenon
  <2>3. f \in Rows /\ f.pending = g.pending /\ Spares(g, f, {}) /\ Held(g, f)
    BY <1>7, ScheduleStep DEF Scheduled, Same
  <2>. HIDE DEF f
  <2>4. Fresh(c, f)
    <3>1. Queued(c) \subseteq Ops
      BY DEF Queued
    <3>2. ~c.pending
      BY <1>11, <2>1 DEF Fresh
    <3>. QED
      BY <1>11, <2>3, <3>1, <3>2 DEF Fresh, Spares, Held
  <2>. QED
    BY <2>2, <2>3, <2>4, WithinNone DEF Sound, f
<1>. QED
  BY <1>12, <1>13

\* request, for an operation without a row.
LEMMA RequestSound ==
  ASSUME NEW rows \in Rows, Turns(rows), Within(Queued(rows)), NEW s \in [Ops -> Nat],
         NEW owner \in Owners, NEW o \in Ops, rows.row[o].state = "none"
  PROVE  Result(rows, Request(rows, s, owner, o).rows)
<1>. DEFINE d == Lock(rows)
            d1 == [d EXCEPT !.last[owner] = s[o]]
            e == Schedule(d1, s)
            waiting == Queued(e)
            immediate == ~e.pending /\ waiting = {} /\ e.credits > 0
            users == {n \in waiting : SameUser(n, o)}
            projects == {n \in waiting : SameProject(n, o)}
            turn == e.turn + 1
            userTurn == IF users = {} THEN turn ELSE e.row[CHOOSE n \in users : TRUE]["userTurn"]
            projectTurn == IF projects = {} THEN turn
                           ELSE e.row[CHOOSE n \in projects : TRUE]["projectTurn"]
            row == [state |-> "queued", userTurn |-> userTurn, projectTurn |-> projectTurn]
            g == [e EXCEPT !.turn = turn, !.row[o] = row, !.since[o] = Len(e.grants)]
            f == Schedule(g, s)
            done == Request(rows, s, owner, o)
<1>1. done = IF owner \notin rows.reg \/ s[o] > d.last[owner] + 1 THEN [rows |-> rows, reply |-> "error"]
             ELSE IF s[o] <= d.last[owner] THEN [rows |-> d, reply |-> "closed"]
             ELSE IF ~immediate /\ Full(waiting, o) THEN [rows |-> e, reply |-> "refused"]
             ELSE [rows |-> f, reply |-> StateOf(f, o)]
  BY DEF Request
<1>2. Sound(rows, d) /\ d \in Rows /\ d.row[o].state = "none"
  BY LockSound DEF Sound, Scheduled, Spares
<1>3. Sound(rows, d1) /\ d1.row = d.row
  <2>. DEFINE last == [d.last EXCEPT ![owner] = s[o]]
  <2>. HIDE DEF d
  <2>1. last \in [Owners -> Nat]
    BY <1>2, RowsFields
  <2>2. d1 = [d EXCEPT !.last = last]
    BY <1>2 DEF Rows
  <2>. HIDE DEF last, d1
  <2>3. d1 \in Rows /\ d1.row = d.row /\ d1.pending = d.pending /\ d1.overdue = d.overdue /\ Thinned(d, d1)
    BY <1>2, <2>1, <2>2 DEF Rows, Thinned, Queued
  <2>. QED
    BY <1>2, <2>3, ThinnedSound
<1>. HIDE DEF d, d1
<1>4. Sound(rows, e) /\ e.row[o].state = "none"
  <2>1. d1 \in Rows
    BY <1>3 DEF Sound
  <2>2. Scheduled(d1, e)
    BY <2>1, ScheduleStep
  <2>. HIDE DEF e
  <2>3. e.row[o].state = "none"
    BY <1>2, <1>3, <2>2 DEF Scheduled, Spares
  <2>. QED
    BY <1>3, <2>3, ScheduleSound DEF e
<1>. HIDE DEF e
<1>5. o \notin Queued(rows) /\ o \notin Queued(e)
  BY <1>4 DEF Queued
<1>6. immediate \/ ~Full(waiting, o) => Sound(rows, f)
  <2>1. userTurn = (IF {n \in Queued(e) : SameUser(n, o)} = {} THEN e.turn + 1
                    ELSE e.row[CHOOSE n \in {m \in Queued(e) : SameUser(m, o)} : TRUE]["userTurn"])
    OBVIOUS
  <2>2. projectTurn = (IF {n \in Queued(e) : SameProject(n, o)} = {} THEN e.turn + 1
                       ELSE e.row[CHOOSE n \in {m \in Queued(e) : SameProject(m, o)} : TRUE]["projectTurn"])
    OBVIOUS
  <2>3. g = [e EXCEPT !.turn = e.turn + 1, !.since[o] = Len(e.grants),
               !.row[o] = [state |-> "queued", userTurn |-> userTurn, projectTurn |-> projectTurn]]
    <3>1. e \in Rows
      BY <1>4 DEF Sound
    <3>. HIDE DEF userTurn, projectTurn
    <3>. QED
      BY <3>1 DEF Rows
  <2>. HIDE DEF userTurn, projectTurn, g
  <2>. QED
    BY <1>4, <1>5, <2>1, <2>2, <2>3, JoinSound
<1>. HIDE DEF f, waiting, immediate, done
<1>7. Sound(rows, done.rows) \/ done.rows = rows
  BY <1>1, <1>2, <1>4, <1>6
<1>. QED
  BY <1>7, SoundResult DEF done

\* finish.
LEMMA FinishSound ==
  ASSUME NEW rows \in Rows, Turns(rows), Within(Queued(rows)), NEW s \in [Ops -> Nat],
         NEW owner \in Owners, NEW o \in Ops, NEW outcome
  PROVE  Result(rows, Finish(rows, s, owner, o, outcome).rows)
<1>. DEFINE d == Lock(rows)
            unknown == \/ s[o] > d.last[owner] + 1
                       \/ s[o] = d.last[owner] + 1 /\ outcome # "not-started"
            e == [d EXCEPT !.row[o] = NoRow,
                    !.last[owner] = IF s[o] = @ + 1 THEN s[o] ELSE @]
            f == Schedule(e, s)
            done == Finish(rows, s, owner, o, outcome)
<1>1. done = IF owner \notin rows.reg \/ unknown THEN [rows |-> rows, reply |-> "error"]
             ELSE [rows |-> f, reply |-> "ok"]
  BY DEF Finish
<1>2. Sound(rows, d) /\ d \in Rows
  BY LockSound DEF Sound
<1>3. NoRow \in Row /\ NoRow.state = "none"
  BY DEF NoRow, Row
<1>4. Sound(rows, e)
  <2>. DEFINE shrunk == [d.row EXCEPT ![o] = NoRow]
              counted == [d.last EXCEPT ![owner] = IF s[o] = @ + 1 THEN s[o] ELSE @]
  <2>. HIDE DEF d
  <2>0. d.row \in [Ops -> Row] /\ d.last \in [Owners -> Nat]
    BY <1>2, RowsFields
  <2>1. /\ counted \in [Owners -> Nat] /\ shrunk \in [Ops -> Row]
        /\ \A n \in Ops : shrunk[n] = IF n = o THEN NoRow ELSE d.row[n]
    BY <1>3, <2>0
  <2>2. e = [d EXCEPT !.row = shrunk, !.last = counted]
    BY <1>2 DEF Rows
  <2>. HIDE DEF e, counted, shrunk
  <2>3. /\ e \in Rows /\ e.row = shrunk /\ e.pending = d.pending /\ e.turn = d.turn
        /\ e.grants = d.grants /\ e.since = d.since /\ e.overdue = d.overdue
    BY <1>2, <2>1, <2>2 DEF Rows
  <2>4. Thinned(d, e)
    BY <1>3, <2>1, <2>3 DEF Thinned, Queued
  <2>. QED
    BY <1>2, <2>1, <2>3, <2>4, ThinnedSound
<1>. HIDE DEF d, e, unknown
<1>5. Sound(rows, f)
  BY <1>4, ScheduleSound
<1>. HIDE DEF f, done
<1>6. Sound(rows, done.rows) \/ done.rows = rows
  BY <1>1, <1>5
<1>. QED
  BY <1>6, SoundResult DEF done

\* status, whoever asks.
LEMMA StatusSound ==
  ASSUME NEW rows \in Rows, Turns(rows), Within(Queued(rows)), NEW s \in [Ops -> Nat], NEW owner, NEW o
  PROVE  Result(rows, Status(rows, s, owner, o).rows)
<1>. DEFINE d == Schedule(Lock(rows), s)
            done == Status(rows, s, owner, o)
<1>1. done = IF owner \notin rows.reg THEN [rows |-> rows, reply |-> "error"]
             ELSE [rows |-> d, reply |-> StateOf(d, o)]
  BY DEF Status
<1>2. Sound(rows, d)
  BY LockSound, ScheduleSound
<1>. HIDE DEF d, done
<1>3. Sound(rows, done.rows) \/ done.rows = rows
  BY <1>1, <1>2
<1>. QED
  BY <1>3, SoundResult DEF done

\* A step that changes neither rows nor turns, and only adds to what is awaited.
LEMMA SameSound ==
  ASSUME NEW c \in Rows, NEW d, Sound(c, d), NEW e \in Rows, e.row = d.row, e.turn = d.turn,
         e.grants = d.grants, e.since = d.since, e.overdue = d.overdue, d.pending => e.pending
  PROVE  Sound(c, e)
<1>1. Thinned(d, e)
  BY DEF Thinned, Queued
<1>. QED
  BY <1>1, ThinnedSound

\* observe.
LEMMA ObserveSound ==
  ASSUME NEW rows \in Rows, Turns(rows), Within(Queued(rows)), NEW s \in [Ops -> Nat], NEW k \in 0 .. MaxCredits
  PROVE  Result(rows, Observe(rows, s, k))
<1>. DEFINE d == Lock(rows)
            e == [d EXCEPT !.credits = k]
<1>1. Sound(rows, d) /\ d \in Rows
  BY LockSound DEF Sound
<1>. HIDE DEF d
<1>2. /\ e \in Rows /\ e.row = d.row /\ e.turn = d.turn /\ e.grants = d.grants /\ e.since = d.since
      /\ e.pending = d.pending /\ e.overdue = d.overdue
  BY <1>1 DEF Rows
<1>. HIDE DEF e
<1>3. Sound(rows, e)
  BY <1>1, <1>2, SameSound
<1>4. Sound(rows, Schedule(e, s))
  BY <1>3, ScheduleSound
<1>5. Observe(rows, s, k) = Schedule(e, s)
  BY DEF Observe, e, d
<1>. QED
  BY <1>4, <1>5, SoundResult

\* admitRuntimeStart.
LEMMA RuntimeSound ==
  ASSUME NEW rows \in Rows, Turns(rows), Within(Queued(rows)), NEW s \in [Ops -> Nat]
  PROVE  Result(rows, AdmitRuntimeStart(rows, s))
<1>. DEFINE d == Schedule(Lock(rows), s)
            less == d.credits - 1
            e == [d EXCEPT !.credits = less, !.pending = TRUE]
<1>1. Sound(rows, d) /\ d \in Rows
  BY LockSound, ScheduleSound DEF Sound
<1>2. AdmitRuntimeStart(rows, s) = IF d.pending \/ d.credits = 0 THEN d ELSE e
  <2>1. AdmitRuntimeStart(rows, s) = IF d.pending \/ d.credits = 0 THEN d
                                     ELSE [d EXCEPT !.credits = @ - 1, !.pending = TRUE]
    BY DEF AdmitRuntimeStart
  <2>. HIDE DEF d
  <2>. QED
    BY <1>1, <2>1 DEF Rows
<1>. HIDE DEF d
<1>3. ASSUME d.credits # 0 PROVE Sound(rows, e)
  <2>1. less \in 0 .. MaxCredits
    BY <1>1, <1>3, RowsFields, BudgetAssumption
  <2>. HIDE DEF less
  <2>2. /\ e \in Rows /\ e.row = d.row /\ e.turn = d.turn /\ e.grants = d.grants /\ e.since = d.since
        /\ e.pending /\ e.overdue = d.overdue
    BY <1>1, <2>1 DEF Rows
  <2>. HIDE DEF e
  <2>. QED
    BY <1>1, <2>2, SameSound
<1>. HIDE DEF e
<1>4. Sound(rows, AdmitRuntimeStart(rows, s))
  BY <1>1, <1>2, <1>3
<1>. QED
  BY <1>4, SoundResult

\* register, after which nothing is awaited.
LEMMA RegisteredSound ==
  ASSUME NEW rows \in Rows, Turns(rows), Within(Queued(rows))
  PROVE  Result(rows, RegisterRuntime(rows))
<1>. DEFINE d == Lock(rows)
            e == [d EXCEPT !.pending = FALSE]
<1>1. Sound(rows, d) /\ d \in Rows
  BY LockSound DEF Sound
<1>. HIDE DEF d
<1>2. e \in Rows /\ e.row = d.row /\ e.turn = d.turn /\ e.grants = d.grants /\ e.since = d.since
  BY <1>1 DEF Rows
<1>3. RegisterRuntime(rows) = e
  BY DEF RegisterRuntime, d
<1>. HIDE DEF e
<1>4. Thinned(d, e) /\ Queued(e) = Queued(d)
  BY <1>2 DEF Thinned, Queued
<1>5. Turns(e) /\ Within(Queued(e))
  BY <1>1, <1>4, ThinnedTurns DEF Sound
<1>6. Current(rows, e)
  BY <1>1, <1>2, SoundResult DEF Result, Current
<1>. QED
  BY <1>2, <1>3, <1>5, <1>6 DEF Result

(***************************************************************************)
(* The theorems                                                            *)
(***************************************************************************)

\* A step that leaves the requests and their turns alone.
LEMMA IdleResult ==
  ASSUME NEW rows \in Rows, Turns(rows), Within(Queued(rows)), NEW e \in Rows,
         e.row = rows.row, e.turn = rows.turn, e.grants = rows.grants, e.since = rows.since
  PROVE  Result(rows, e)
<1>1. Thinned(rows, e) /\ Queued(e) = Queued(rows)
  BY DEF Thinned, Queued
<1>2. Current(rows, e)
  BY DEF Current, Queued
<1>. QED
  BY <1>1, <1>2, ThinnedTurns DEF Result

\* A deadline that passes disturbs nobody yet.
LEMMA OverdueResult ==
  ASSUME NEW rows \in Rows, Turns(rows), Within(Queued(rows)), NEW o \in Ops
  PROVE  /\ Result(rows, [rows EXCEPT !.overdue = @ \cup {o}])
         /\ Result(rows, [rows EXCEPT !.late = @ \cup {o}])
<1>. DEFINE more == rows.overdue \cup {o}
            later == rows.late \cup {o}
            e == [rows EXCEPT !.overdue = more]
            f == [rows EXCEPT !.late = later]
<1>1. more \subseteq Ops /\ later \subseteq Ops
  BY RowsFields
<1>. HIDE DEF more, later
<1>2. /\ e \in Rows /\ e.row = rows.row /\ e.turn = rows.turn /\ e.grants = rows.grants /\ e.since = rows.since
      /\ f \in Rows /\ f.row = rows.row /\ f.turn = rows.turn /\ f.grants = rows.grants /\ f.since = rows.since
  BY <1>1 DEF Rows
<1>. HIDE DEF e, f
<1>3. Result(rows, e) /\ Result(rows, f)
  BY <1>2, IdleResult
<1>. QED
  BY <1>3 DEF e, f, more, later

\* Neither does a sample that runs out.
LEMMA ExpiryResult ==
  ASSUME NEW rows \in Rows, Turns(rows), Within(Queued(rows)), NEW k \in 0 .. rows.credits - 1
  PROVE  Result(rows, [rows EXCEPT !.credits = k])
<1>. DEFINE e == [rows EXCEPT !.credits = k]
<1>1. k \in 0 .. MaxCredits
  BY RowsFields, BudgetAssumption
<1>2. e \in Rows /\ e.row = rows.row /\ e.turn = rows.turn /\ e.grants = rows.grants /\ e.since = rows.since
  BY <1>1 DEF Rows
<1>. HIDE DEF e
<1>. QED
  BY <1>2, IdleResult DEF e

\* Every step ends one transaction.
LEMMA NextResult ==
  ASSUME QueueInv, Next
  PROVE  Result(db, db') /\ seq' \in [Ops -> Nat]
<1>0. db \in Rows /\ seq \in [Ops -> Nat] /\ Turns(db) /\ Within(Queued(db))
  BY DEF QueueInv
<1>a. ASSUME NEW s \in [Ops -> Nat], Keep(s) PROVE seq' \in [Ops -> Nat]
  BY <1>a DEF Keep
<1>b. \A o \in Ops : OwnerOf[o] \in Owners
  BY QueueAssumption
<1>1. ASSUME NEW o \in Ops, Arrive(o) PROVE Result(db, db') /\ seq' \in [Ops -> Nat]
  <2>. DEFINE s == [seq EXCEPT ![o] = db.last[OwnerOf[o]] + 1]
  <2>1. db' = Request(db, s, OwnerOf[o], o).rows /\ Keep(s) /\ db.row[o] = NoRow
    BY <1>1 DEF Arrive
  <2>2. s \in [Ops -> Nat]
    BY <1>0, <1>b, RowsFields
  <2>3. db.row[o].state = "none"
    BY <2>1 DEF NoRow
  <2>. HIDE DEF s
  <2>. QED
    BY <1>0, <1>a, <1>b, <2>1, <2>2, <2>3, RequestSound
<1>2. ASSUME NEW o \in Ops, Leave(o) PROVE Result(db, db') /\ seq' \in [Ops -> Nat]
  <2>1. PICK outcome : db' = Finish(db, seq, OwnerOf[o], o, outcome).rows /\ Keep(seq)
    BY <1>2 DEF Leave
  <2>. QED
    BY <1>0, <1>a, <1>b, <2>1, FinishSound
<1>3. ASSUME NEW o \in Ops, DeadlinePasses(o) PROVE Result(db, db') /\ seq' \in [Ops -> Nat]
  <2>1. /\ \/ db' = [db EXCEPT !.overdue = @ \cup {o}]
           \/ db' = [db EXCEPT !.late = @ \cup {o}]
        /\ Keep(seq)
    BY <1>3 DEF DeadlinePasses
  <2>. QED
    BY <1>0, <1>a, <2>1, OverdueResult
<1>4. ASSUME Polls PROVE Result(db, db') /\ seq' \in [Ops -> Nat]
  <2>1. PICK o : db' = Status(db, seq, OwnerOf[o], o).rows /\ Keep(seq)
    BY <1>4 DEF Polls
  <2>. QED
    BY <1>0, <1>a, <2>1, StatusSound
<1>5. ASSUME PressureSample PROVE Result(db, db') /\ seq' \in [Ops -> Nat]
  <2>1. PICK k \in 0 .. MaxCredits : db' = Observe(db, seq, k) /\ Keep(seq)
    BY <1>5 DEF PressureSample
  <2>. QED
    BY <1>0, <1>a, <2>1, ObserveSound
<1>6. ASSUME RuntimeStart PROVE Result(db, db') /\ seq' \in [Ops -> Nat]
  BY <1>0, <1>6, <1>a, RuntimeSound DEF RuntimeStart
<1>7. ASSUME RuntimeRegisters PROVE Result(db, db') /\ seq' \in [Ops -> Nat]
  BY <1>0, <1>7, <1>a, RegisteredSound DEF RuntimeRegisters
<1>8. ASSUME SampleExpires PROVE Result(db, db') /\ seq' \in [Ops -> Nat]
  <2>1. PICK k \in 0 .. db.credits - 1 : db' = [db EXCEPT !.credits = k] /\ Keep(seq)
    BY <1>8 DEF SampleExpires
  <2>. QED
    BY <1>0, <1>a, <2>1, ExpiryResult
<1>. QED
  BY <1>1, <1>2, <1>3, <1>4, <1>5, <1>6, <1>7, <1>8 DEF Next

\* The inductive invariant of the queue holds throughout.
THEOREM QueueInvariance == Spec => []QueueInv
<1>1. Init => QueueInv
  <2>. SUFFICES ASSUME Init PROVE QueueInv
    OBVIOUS
  <2>. DEFINE zero == [p \in Owners |-> 0]
              norows == [o \in Ops |-> NoRow]
              unset == [o \in Ops |-> 0]
              none == <<>>
  <2>1. zero \in [Owners -> Nat] /\ norows \in [Ops -> Row] /\ unset \in [Ops -> Nat] /\ none \in Seq(Ops)
    BY DEF NoRow, Row
  <2>2. db = [reg |-> Owners, last |-> zero, row |-> norows, credits |-> 0, turn |-> 0,
              pending |-> FALSE, overdue |-> {}, late |-> {}, grants |-> none, since |-> unset]
    BY DEF Init, InitialRows
  <2>3. \A o \in Ops : norows[o].state = "none"
    BY DEF NoRow
  <2>4. 0 \in 0 .. MaxCredits
    BY BudgetAssumption
  <2>5. seq \in [Ops -> Nat]
    BY DEF Init
  <2>. HIDE DEF zero, norows, unset, none
  <2>6. db \in Rows /\ db.row = norows
    BY <2>1, <2>2, <2>4 DEF Rows
  <2>7. Queued(db) = {}
    BY <2>3, <2>6 DEF Queued
  <2>8. Turns(db)
    BY <2>7 DEF Turns, Ordered, UsersFair, ProjectsFair
  <2>. QED
    BY <2>5, <2>6, <2>7, <2>8, WithinNone DEF QueueInv
<1>2. QueueInv /\ [Next]_vars => QueueInv'
  <2>1. CASE UNCHANGED vars
    <3>1. QueueInv => QueueInv'
      BY <2>1 DEF vars, QueueInv
    <3>. QED
      BY <3>1
  <2>2. CASE Next
    <3>1. QueueInv => Result(db, db') /\ seq' \in [Ops -> Nat]
      BY <2>2, NextResult
    <3>2. Result(db, db') /\ seq' \in [Ops -> Nat] => QueueInv'
      BY DEF Result, QueueInv
    <3>. QED
      BY <3>1, <3>2
  <2>. QED
    BY <2>1, <2>2
<1>. QED
  BY <1>1, <1>2, PTL DEF Spec

\* While a request waits no other user, and no other project of its user, is
\* granted twice before its own, and the queue stays within its limits, for any
\* sequence of transactions (schedule_node_resources and request).
THEOREM TurnsAreFair == Spec => []FairTurns
<1>1. QueueInv => FairTurns
  <2>. SUFFICES ASSUME QueueInv PROVE FairTurns
    OBVIOUS
  <2>1. Turns(db) /\ Within(Queued(db)) /\ Queued(db) \subseteq Ops
    BY DEF QueueInv, Queued
  <2>2. \A n \in Ops : PassedOver(n, SameUser) = UserPassed(db, n)
    BY DEF PassedOver, UserPassed
  <2>3. \A n \in Ops : PassedOver(n, SameProject) = ProjectPassed(db, n)
    BY DEF PassedOver, ProjectPassed
  <2>4. FairUsers
    BY <2>1, <2>2 DEF FairUsers, Turns, UsersFair
  <2>5. FairProjects
    BY <2>1, <2>3 DEF FairProjects, Turns, ProjectsFair
  <2>6. QueueBounded
    BY <2>1 DEF QueueBounded, Within
  <2>. QED
    BY <2>4, <2>5, <2>6 DEF FairTurns
<1>. QED
  BY <1>1, QueueInvariance, PTL

\* No transaction grants a request whose deadline has passed, before it took its
\* lock or while it was under way, or any while a Runtime has not registered
\* (lock_node_resources, schedule_node_resources).
THEOREM NothingStaleGranted == Spec => GrantsAreCurrent
<1>1. QueueInv /\ [Next]_vars =>
        [\A o \in Queued(db) : db'.row[o].state = "active" =>
           o \notin db.overdue \cup db.late /\ ~db.pending]_vars
  BY NextResult DEF Result, Current
<1>. QED
  BY <1>1, QueueInvariance, PTL DEF Spec, GrantsAreCurrent
=============================================================================
