----------------------- MODULE NodeResourceBudgetProofs -----------------------
(***************************************************************************)
(* What a transaction of the node's budget leaves alone: the lemmas the    *)
(* proofs about its callers rest on, for any number of operations, owners  *)
(* and credits.                                                            *)
(***************************************************************************)
EXTENDS NodeResourceBudget, NaturalsInduction, WellFoundedInduction, TLAPS

\* A set of natural numbers has a least member.
LEMMA Least ==
  ASSUME NEW S, S \subseteq Nat, S # {}
  PROVE  \E m \in S : \A k \in S : m <= k
<1>1. PICK m \in S : \A k \in S : ~(<<k, m>> \in OpToRel(<, Nat))
  BY NatLessThanWellFounded, WFMin, Zenon
<1>2. \A k \in S : ~(k < m)
  BY <1>1 DEF OpToRel
<1>. QED
  BY <1>2

\* An operation with the least value of a key, among some.
LEMMA LeastOf ==
  ASSUME NEW S, S # {}, NEW key, \A o \in S : key[o] \in Nat
  PROVE  \E o \in S : \A n \in S : key[o] <= key[n]
<1>. DEFINE keys == {key[o] : o \in S}
<1>1. keys \subseteq Nat /\ keys # {}
  OBVIOUS
<1>2. PICK m \in keys : \A k \in keys : m <= k
  BY <1>1, Least
<1>. QED
  BY <1>2

\* The fields of the rows.
LEMMA RowsFields ==
  ASSUME NEW d \in Rows
  PROVE  /\ d.reg \subseteq Owners /\ d.last \in [Owners -> Nat] /\ d.row \in [Ops -> Row]
         /\ d.credits \in 0 .. MaxCredits /\ d.turn \in Nat /\ d.pending \in BOOLEAN
         /\ d.overdue \subseteq Ops /\ d.late \subseteq Ops /\ d.grants \in Seq(Ops) /\ d.since \in [Ops -> Nat]
BY DEF Rows

\* The least queued request exists, however many are queued.
LEMMA FirstQueued ==
  ASSUME NEW d \in Rows, NEW seq \in [Ops -> Nat], Queued(d) # {}
  PROVE  First(d, seq) \in Queued(d) /\ \A n \in Queued(d) : Before(d, seq, First(d, seq), n)
<1>. DEFINE users == [o \in Ops |-> d.row[o].userTurn]
            projects == [o \in Ops |-> d.row[o].projectTurn]
            A == Queued(d)
<1>0. d.row \in [Ops -> Row]
  BY RowsFields
<1>1. \A o \in Ops : users[o] \in Nat /\ projects[o] \in Nat /\ seq[o] \in Nat
  BY <1>0 DEF Row
<1>2. A # {} /\ A \subseteq Ops
  BY DEF Queued
<1>3. PICK a \in A : \A n \in A : users[a] <= users[n]
  <2>. HIDE DEF users, projects, A
  <2>. QED
    BY <1>1, <1>2, LeastOf
<1>. DEFINE B == {o \in A : users[o] = users[a]}
<1>4. B # {} /\ B \subseteq Ops
  BY <1>2, <1>3
<1>5. PICK b \in B : \A n \in B : projects[b] <= projects[n]
  <2>. HIDE DEF users, projects, A, B
  <2>. QED
    BY <1>1, <1>4, LeastOf
<1>. DEFINE C == {o \in B : projects[o] = projects[b]}
<1>6. C # {} /\ C \subseteq Ops
  BY <1>4, <1>5
<1>7. PICK c \in C : \A n \in C : seq[c] <= seq[n]
  <2>. HIDE DEF users, projects, A, B, C
  <2>. QED
    BY <1>1, <1>6, LeastOf
<1>8. ASSUME NEW n \in A PROVE Before(d, seq, c, n)
  <2>1. \/ users[c] < users[n]
        \/ users[c] = users[n] /\ projects[c] < projects[n]
        \/ users[c] = users[n] /\ projects[c] = projects[n] /\ seq[c] <= seq[n]
    <3>1. c \in Ops /\ n \in Ops
      BY <1>2, <1>6
    <3>2. users[c] = users[a] /\ projects[c] = projects[b] /\ users[a] <= users[n]
      BY <1>3, <1>7
    <3>3. users[n] = users[a] => projects[b] <= projects[n]
      BY <1>5
    <3>4. users[n] = users[a] /\ projects[n] = projects[b] => seq[c] <= seq[n]
      BY <1>7
    <3>5. users[c] \in Nat /\ users[n] \in Nat /\ projects[c] \in Nat /\ projects[n] \in Nat
      BY <1>1, <3>1
    <3>. HIDE DEF users, projects, A, B, C
    <3>. QED
      BY <3>2, <3>3, <3>4, <3>5
  <2>2. c \in Ops /\ n \in Ops
    BY <1>2, <1>6
  <2>. QED
    BY <2>1, <2>2 DEF Before
<1>9. c \in A
  BY <1>7
<1>. QED
  BY <1>8, <1>9 DEF First

(***************************************************************************)
(* What happens to the states of the rows                                  *)
(***************************************************************************)

\* From d to e, the rows outside X that are active stay active and those that
\* are absent stay absent.
Spares(d, e, X) ==
  \A n \in Ops \ X :
    /\ d.row[n].state = "active" => e.row[n].state = "active"
    /\ d.row[n].state = "none" => e.row[n].state = "none"

\* Only the credits, turns, histories and states of rows differ.
Same(d, e) == e.reg = d.reg /\ e.last = d.last /\ e.pending = d.pending

\* From d to e, what was overdue in the queue is gone, or still overdue there.
Held(d, e) ==
  \A n \in Queued(d) \cap d.overdue :
    e.row[n].state = "none" \/ n \in Queued(e) \cap e.overdue

\* Sparing is transitive.
LEMMA SparesTwice ==
  ASSUME NEW d, NEW e, NEW f, NEW X, Spares(d, e, X), Spares(e, f, X)
  PROVE  Spares(d, f, X)
BY DEF Spares

\* An overdue request is held over two steps that revive nothing.
LEMMA HeldTwice ==
  ASSUME NEW d, NEW e, NEW f, Held(d, e), Held(e, f), Spares(e, f, {})
  PROVE  Held(d, f)
BY DEF Held, Spares, Queued

\* What is spared outside a set is spared outside a larger one.
LEMMA SparesMore ==
  ASSUME NEW d, NEW e, NEW X, NEW Y, X \subseteq Y, Spares(d, e, X)
  PROVE  Spares(d, e, Y)
BY DEF Spares

\* From d to e, o was granted: its user's requests, and its project's, are behind
\* everybody who waits.
Granted(d, e, o) ==
  /\ Queued(e) = Queued(d) \ {o}
  /\ e.grants = Append(d.grants, o) /\ e.since = d.since /\ e.turn = d.turn + 1
  /\ \A n \in Queued(e) :
       /\ e.row[n].userTurn = IF SameUser(n, o) THEN d.turn + 1 ELSE d.row[n].userTurn
       /\ e.row[n].projectTurn = IF SameProject(n, o) THEN d.turn + 1 ELSE d.row[n].projectTurn

\* A grant spends a credit on a queued request.
LEMMA GrantStep ==
  ASSUME NEW d \in Rows, NEW o \in Queued(d), d.credits >= 1
  PROVE  /\ Grant(d, o) \in Rows
         /\ Same(d, Grant(d, o)) /\ Spares(d, Grant(d, o), {}) /\ Granted(d, Grant(d, o), o)
         /\ Grant(d, o).credits = d.credits - 1 /\ Grant(d, o).overdue = d.overdue
<1>. DEFINE g == GrantInPlace(d, o)
<1>0. /\ d.reg \subseteq Owners /\ d.last \in [Owners -> Nat] /\ d.row \in [Ops -> Row]
      /\ d.credits \in 0 .. MaxCredits /\ d.turn \in Nat /\ d.pending \in BOOLEAN
      /\ d.overdue \subseteq Ops /\ d.late \subseteq Ops /\ d.grants \in Seq(Ops) /\ d.since \in [Ops -> Nat]
  BY RowsFields
<1>a. MaxCredits \in Nat
  BY BudgetAssumption
<1>1. o \in Ops /\ d.row[o].state = "queued"
  BY DEF Queued
<1>2. [NoRow EXCEPT !.state = "active"] \in Row
  BY DEF NoRow, Row
<1>3. d.credits - 1 \in 0 .. MaxCredits /\ d.turn + 1 \in Nat /\ Append(d.grants, o) \in Seq(Ops)
  BY <1>0, <1>1, <1>a
<1>. DEFINE active == [NoRow EXCEPT !.state = "active"]
<1>4. /\ g \in Rows /\ g.reg = d.reg /\ g.last = d.last /\ g.pending = d.pending
      /\ g.credits = d.credits - 1 /\ g.row = [d.row EXCEPT ![o] = active]
      /\ g.grants = Append(d.grants, o) /\ g.turn = d.turn + 1 /\ g.since = d.since
      /\ g.overdue = d.overdue
  <2>. HIDE DEF active
  <2>. QED
    BY <1>0, <1>1, <1>2, <1>3 DEF GrantInPlace, Rows, active
<1>. DEFINE moved == [n \in Ops |->
       IF n \in Queued(d) \ {o} /\ SameUser(n, o)
       THEN [g.row[n] EXCEPT !.userTurn = d.turn + 1,
                             !.projectTurn = IF SameProject(n, o) THEN d.turn + 1 ELSE @]
       ELSE g.row[n]]
<1>5. Grant(d, o) = [g EXCEPT !.row = moved]
  BY DEF Grant
<1>6. ASSUME NEW n \in Ops
      PROVE  /\ moved[n] \in Row
             /\ moved[n].state = IF n = o THEN "active" ELSE d.row[n].state
             /\ n \in Queued(d) \ {o} =>
                  /\ moved[n].userTurn = IF SameUser(n, o) THEN d.turn + 1 ELSE d.row[n].userTurn
                  /\ moved[n].projectTurn = IF SameProject(n, o) THEN d.turn + 1 ELSE d.row[n].projectTurn
  <2>1. g.row[n] = (IF n = o THEN active ELSE d.row[n]) /\ g.row[n] \in Row
    BY <1>0, <1>2, <1>4
  <2>2. active.state = "active"
    BY DEF NoRow
  <2>. HIDE DEF g, active
  <2>. QED
    BY <2>1, <2>2, <1>3 DEF Row, SameProject
<1>7. moved \in [Ops -> Row]
  BY <1>6
<1>. HIDE DEF g, moved
<1>. DEFINE e == [g EXCEPT !.row = moved]
<1>8. /\ e \in Rows /\ e.reg = d.reg /\ e.last = d.last /\ e.pending = d.pending
      /\ e.credits = d.credits - 1 /\ e.row = moved
      /\ e.grants = g.grants /\ e.turn = g.turn /\ e.since = g.since /\ e.overdue = d.overdue
  BY <1>4, <1>7 DEF Rows
<1>. HIDE DEF e
<1>9. Same(d, e) /\ Spares(d, e, {})
  BY <1>1, <1>6, <1>8 DEF Same, Spares
<1>10. Queued(e) = Queued(d) \ {o}
  BY <1>1, <1>6, <1>8 DEF Queued
<1>11. Queued(e) \subseteq Ops
  BY DEF Queued
<1>12. Granted(d, e, o)
  BY <1>4, <1>6, <1>8, <1>10, <1>11 DEF Granted
<1>. QED
  BY <1>5, <1>8, <1>9, <1>12 DEF e

(***************************************************************************)
(* The scheduler                                                           *)
(***************************************************************************)

\* Expiry takes queued requests away and leaves the others as they were.
LEMMA DropStep ==
  ASSUME NEW d \in Rows
  PROVE  LET e == DropOverdue(d) IN
         /\ e \in Rows /\ Same(d, e) /\ Spares(d, e, {}) /\ Held(d, e)
         /\ \A n \in Ops : e.row[n] = IF n \in Queued(d) \cap d.overdue THEN NoRow ELSE d.row[n]
         /\ e.turn = d.turn /\ e.grants = d.grants /\ e.since = d.since /\ e.credits = d.credits
<1>. DEFINE kept == [o \in Ops |-> IF o \in Queued(d) \cap d.overdue THEN NoRow ELSE d.row[o]]
            e == DropOverdue(d)
<1>0. d.row \in [Ops -> Row]
  BY RowsFields
<1>1. NoRow \in Row /\ NoRow.state = "none"
  BY DEF NoRow, Row
<1>2. /\ kept \in [Ops -> Row]
      /\ \A n \in Ops : kept[n] = IF n \in Queued(d) \cap d.overdue THEN NoRow ELSE d.row[n]
  BY <1>0, <1>1
<1>3. e = [d EXCEPT !.row = kept, !.overdue = {}]
  BY DEF DropOverdue
<1>. HIDE DEF kept, e
<1>4. /\ e \in Rows /\ Same(d, e) /\ e.row = kept
      /\ e.turn = d.turn /\ e.grants = d.grants /\ e.since = d.since /\ e.credits = d.credits
  BY <1>2, <1>3 DEF Rows, Same
<1>5. Spares(d, e, {}) /\ Held(d, e)
  BY <1>1, <1>2, <1>4 DEF Spares, Held, Queued
<1>. QED
  BY <1>2, <1>4, <1>5 DEF e

\* The rows after each round of the loop.
Unrolled(d, seq, run) ==
  [k \in 0 .. MaxCredits + 1 |-> IF k = 0 THEN d ELSE Round(run[k - 1], seq)]
Rounds(d, seq) == CHOOSE run : run = Unrolled(d, seq, run)

\* The recursive definition has a solution.
LEMMA RoundsExist ==
  ASSUME NEW d, NEW seq
  PROVE  \E run : run = Unrolled(d, seq, run)
<1>. DEFINE P(m) == \E run : run = [k \in 0 .. m |-> IF k = 0 THEN d ELSE Round(run[k - 1], seq)]
<1>1. ASSUME NEW m \in Nat, m = 0 \/ (m # 0 /\ P(m - 1)) PROVE P(m)
  <2>1. CASE m = 0
    <3>. DEFINE f == [k \in 0 .. 0 |-> d]
    <3>1. f = [k \in 0 .. 0 |-> IF k = 0 THEN d ELSE Round(f[k - 1], seq)]
      OBVIOUS
    <3>. QED
      BY <2>1, <3>1
  <2>2. CASE m # 0
    <3>0. m - 1 \in Nat /\ m >= 1
      BY <2>2
    <3>1. PICK f : f = [k \in 0 .. (m - 1) |-> IF k = 0 THEN d ELSE Round(f[k - 1], seq)]
      BY <1>1, <2>2
    <3>. DEFINE g == [k \in 0 .. m |-> IF k = m THEN Round(f[m - 1], seq) ELSE f[k]]
                h == [k \in 0 .. m |-> IF k = 0 THEN d ELSE Round(g[k - 1], seq)]
    <3>2. \A k \in 0 .. (m - 1) : f[k] = IF k = 0 THEN d ELSE Round(f[k - 1], seq)
      BY <3>1
    <3>3. \A k \in 0 .. (m - 1) : g[k] = f[k]
      BY <3>0
    <3>4. ASSUME NEW k \in 0 .. m PROVE g[k] = h[k]
      <4>1. CASE k = 0
        BY <3>0, <3>2, <3>3, <4>1
      <4>2. CASE k # 0
        <5>1. k - 1 \in 0 .. (m - 1)
          BY <3>0, <4>2
        <5>2. h[k] = Round(f[k - 1], seq)
          BY <3>3, <4>2, <5>1
        <5>3. CASE k = m
          BY <5>2, <5>3
        <5>4. CASE k # m
          <6>1. k \in 0 .. (m - 1)
            BY <3>0, <5>4
          <6>. QED
            BY <3>2, <3>3, <4>2, <5>2, <6>1
        <5>. QED
          BY <5>3, <5>4
      <4>. QED
        BY <4>1, <4>2
    <3>5. g = h
      BY <3>4
    <3>. QED
      BY <3>5
  <2>. QED
    BY <2>1, <2>2
<1>2. \A m \in Nat : P(m)
  <2>. DEFINE bad == {m \in Nat : ~P(m)}
  <2>. SUFFICES ASSUME bad # {} PROVE FALSE
    OBVIOUS
  <2>. HIDE DEF P
  <2>1. PICK m \in bad : \A k \in bad : m <= k
    BY Least
  <2>2. m = 0 \/ (m # 0 /\ P(m - 1))
    BY <2>1
  <2>. QED
    BY <1>1, <2>1, <2>2
<1>3. MaxCredits + 1 \in Nat
  BY BudgetAssumption
<1>. QED
  BY <1>2, <1>3 DEF Unrolled

\* Round by round.
LEMMA RoundsUnfold ==
  ASSUME NEW d, NEW seq
  PROVE  /\ Rounds(d, seq)[0] = d
         /\ \A k \in 1 .. MaxCredits + 1 : Rounds(d, seq)[k] = Round(Rounds(d, seq)[k - 1], seq)
         /\ Schedule(d, seq) = IF d.pending \/ d.credits = 0 \/ Queued(d) = {}
                               THEN d ELSE Rounds(d, seq)[MaxCredits + 1]
<1>1. Rounds(d, seq) = Unrolled(d, seq, Rounds(d, seq))
  BY RoundsExist DEF Rounds
<1>2. MaxCredits \in Nat
  BY BudgetAssumption
<1>3. \A k \in 0 .. MaxCredits + 1 :
        Rounds(d, seq)[k] = IF k = 0 THEN d ELSE Round(Rounds(d, seq)[k - 1], seq)
  BY <1>1 DEF Unrolled
<1>4. Schedule(d, seq) = IF d.pending \/ d.credits = 0 \/ Queued(d) = {}
                         THEN d ELSE Rounds(d, seq)[MaxCredits + 1]
  BY DEF Schedule, Rounds, Unrolled
<1>. QED
  BY <1>2, <1>3, <1>4

\* Grants and expiry happened, and nothing else.
Scheduled(d, e) == e \in Rows /\ Same(d, e) /\ Spares(d, e, {})

\* A round grants one request, deletes what is overdue, or does nothing.
LEMMA RoundStep ==
  ASSUME NEW d \in Rows, NEW seq \in [Ops -> Nat]
  PROVE  Scheduled(d, Round(d, seq)) /\ Held(d, Round(d, seq))
<1>0. d.credits \in 0 .. MaxCredits /\ MaxCredits \in Nat
  BY RowsFields, BudgetAssumption
<1>1. CASE d.credits = 0 \/ Queued(d) = {}
  BY <1>1 DEF Round, Scheduled, Same, Spares, Held
<1>. DEFINE o == First(d, seq)
<1>2. CASE ~(d.credits = 0 \/ Queued(d) = {}) /\ o \in d.overdue
  <2>1. Round(d, seq) = DropOverdue(d)
    BY <1>2 DEF Round
  <2>. QED
    BY <2>1, DropStep DEF Scheduled
<1>3. CASE ~(d.credits = 0 \/ Queued(d) = {}) /\ o \notin d.overdue
  <2>1. Round(d, seq) = Grant(d, o)
    BY <1>3 DEF Round
  <2>2. o \in Queued(d) /\ d.credits >= 1
    BY <1>0, <1>3, FirstQueued
  <2>. HIDE DEF o
  <2>. DEFINE e == Grant(d, o)
  <2>3. e \in Rows /\ Same(d, e) /\ Spares(d, e, {}) /\ Granted(d, e, o) /\ e.overdue = d.overdue
    BY <2>2, GrantStep
  <2>. HIDE DEF e
  <2>4. Held(d, e)
    BY <1>3, <2>3 DEF Granted, Held
  <2>. QED
    BY <2>1, <2>3, <2>4 DEF Scheduled, e
<1>. QED
  BY <1>1, <1>2, <1>3

\* No number of rounds disturbs anything else.
LEMMA RoundsStep ==
  ASSUME NEW d \in Rows, NEW seq \in [Ops -> Nat], NEW n \in 0 .. MaxCredits + 1
  PROVE  Scheduled(d, Rounds(d, seq)[n]) /\ Held(d, Rounds(d, seq)[n])
<1>0. MaxCredits \in Nat
  BY BudgetAssumption
<1>. DEFINE r(k) == Rounds(d, seq)[k]
            P(k) == Scheduled(d, r(k)) /\ Held(d, r(k))
            bad == {k \in 0 .. MaxCredits + 1 : ~P(k)}
<1>1. P(0)
  <2>1. r(0) = d
    BY RoundsUnfold
  <2>. QED
    BY <2>1 DEF Scheduled, Same, Spares, Held
<1>2. ASSUME NEW k \in 1 .. MaxCredits + 1, P(k - 1) PROVE P(k)
  <2>. DEFINE e == r(k - 1)
              f == Round(e, seq)
  <2>1. r(k) = f
    BY RoundsUnfold
  <2>2. e \in Rows /\ Same(d, e) /\ Spares(d, e, {}) /\ Held(d, e)
    BY <1>2 DEF Scheduled
  <2>. HIDE DEF e
  <2>3. f \in Rows /\ Same(e, f) /\ Spares(e, f, {}) /\ Held(e, f)
    BY <2>2, RoundStep DEF Scheduled
  <2>. HIDE DEF f, r
  <2>4. Same(d, f) /\ Spares(d, f, {}) /\ Held(d, f)
    BY <2>2, <2>3, SparesTwice, HeldTwice DEF Same
  <2>. QED
    BY <2>1, <2>3, <2>4 DEF Scheduled
<1>. SUFFICES ASSUME bad # {} PROVE FALSE
  OBVIOUS
<1>3. bad \subseteq Nat
  BY <1>0
<1>. HIDE DEF P
<1>4. PICK m \in bad : \A k \in bad : m <= k
  BY <1>3, Least
<1>5. m \in 1 .. MaxCredits + 1
  BY <1>0, <1>1, <1>4
<1>6. m - 1 \in 0 .. MaxCredits + 1 /\ m - 1 \notin bad
  BY <1>0, <1>4, <1>5
<1>. QED
  BY <1>2, <1>4, <1>5, <1>6

\* schedule_node_resources only grants and deletes queued rows, and grants none
\* that is overdue.
LEMMA ScheduleStep ==
  ASSUME NEW d \in Rows, NEW seq \in [Ops -> Nat]
  PROVE  Scheduled(d, Schedule(d, seq)) /\ Held(d, Schedule(d, seq))
<1>1. MaxCredits + 1 \in 0 .. MaxCredits + 1
  BY BudgetAssumption
<1>2. Scheduled(d, d) /\ Held(d, d)
  BY DEF Scheduled, Same, Spares, Held
<1>. QED
  BY <1>1, <1>2, RoundsUnfold, RoundsStep

\* lock_node_resources only drops queued rows.
LEMMA LockStep ==
  ASSUME NEW d \in Rows
  PROVE  /\ Scheduled(d, Lock(d)) /\ Lock(d).overdue = d.late
         /\ \A n \in Ops : Lock(d).row[n] = IF n \in Queued(d) \cap d.overdue THEN NoRow ELSE d.row[n]
         /\ \/ Queued(Lock(d)) = {}
            \/ Lock(d).turn = d.turn /\ Lock(d).grants = d.grants /\ Lock(d).since = d.since
<1>. DEFINE kept == DropOverdue(d)
            e == [kept EXCEPT !.overdue = d.late, !.late = {}]
            f == [e EXCEPT !.turn = 0, !.grants = <<>>, !.since = [o \in Ops |-> 0]]
<1>0. d.late \subseteq Ops
  BY RowsFields
<1>1. /\ kept \in Rows /\ Same(d, kept) /\ Spares(d, kept, {})
      /\ \A n \in Ops : kept.row[n] = IF n \in Queued(d) \cap d.overdue THEN NoRow ELSE d.row[n]
      /\ kept.turn = d.turn /\ kept.grants = d.grants /\ kept.since = d.since
  BY DropStep
<1>2. Lock(d) = IF Queued(e) # {} THEN e ELSE f
  BY DEF Lock
<1>. HIDE DEF kept
<1>3. /\ e \in Rows /\ Same(d, e) /\ e.row = kept.row /\ e.overdue = d.late
      /\ e.turn = d.turn /\ e.grants = d.grants /\ e.since = d.since
  BY <1>0, <1>1 DEF Rows, Same
<1>. HIDE DEF e
<1>4. f \in Rows /\ Same(e, f) /\ f.row = e.row /\ f.overdue = e.overdue
  <2>. DEFINE zero == [o \in Ops |-> 0]
              none == <<>>
  <2>1. zero \in [Ops -> Nat] /\ none \in Seq(Ops)
    OBVIOUS
  <2>2. f = [e EXCEPT !.turn = 0, !.grants = none, !.since = zero]
    OBVIOUS
  <2>. HIDE DEF zero, none, f
  <2>. QED
    BY <1>3, <2>1, <2>2 DEF Rows, Same
<1>. HIDE DEF f
<1>5. Scheduled(d, e) /\ Scheduled(d, f)
  BY <1>1, <1>3, <1>4 DEF Scheduled, Same, Spares
<1>6. Queued(f) = Queued(e)
  BY <1>4 DEF Queued
<1>. QED
  BY <1>1, <1>2, <1>3, <1>4, <1>5, <1>6

\* Expiry and grants together.
LEMMA ScheduledTwice ==
  ASSUME NEW d, NEW e, NEW f, Scheduled(d, e), Scheduled(e, f)
  PROVE  Scheduled(d, f)
BY SparesTwice DEF Scheduled, Same

(***************************************************************************)
(* The transactions                                                        *)
(***************************************************************************)

\* The replies of a request or a poll.
Replies == {"closed", "queued", "active", "refused"}

\* What a reader of the row sees: active only when it is.
LEMMA StateOfRow ==
  ASSUME NEW d \in Rows, NEW o \in Ops
  PROVE  /\ StateOf(d, o) \in Replies
         /\ StateOf(d, o) = "active" => d.row[o].state = "active"
<1>1. d.row[o] \in Row
  BY RowsFields
<1>2. d.row[o].state \in {"none", "queued", "active"}
  BY <1>1 DEF Row
<1>. QED
  BY <1>2 DEF StateOf, Replies

\* After a request for a new sequence number only the row of the request itself
\* can be new, and who is told that it is active has it.
Requested(rows, seq, owner, o, done) ==
  /\ done.rows \in Rows /\ done.rows.reg = rows.reg
  /\ done.rows.last = [rows.last EXCEPT ![owner] = seq[o]]
  /\ Spares(rows, done.rows, {o})
  /\ done.reply \in Replies
  /\ done.reply = "active" => done.rows.row[o].state = "active"

\* A registered owner that asks for its next sequence number gets it.
LEMMA RequestStep ==
  ASSUME NEW rows \in Rows, NEW seq \in [Ops -> Nat], NEW owner \in rows.reg, NEW o \in Ops,
         seq[o] = rows.last[owner] + 1
  PROVE  Requested(rows, seq, owner, o, Request(rows, seq, owner, o))
<1>. DEFINE d == Lock(rows)
            d1 == [d EXCEPT !.last[owner] = seq[o]]
            e == Schedule(d1, seq)
            waiting == Queued(e)
            immediate == ~e.pending /\ waiting = {} /\ e.credits > 0
            turn == e.turn + 1
            users == {n \in waiting : SameUser(n, o)}
            projects == {n \in waiting : SameProject(n, o)}
            userTurn == IF users = {} THEN turn ELSE e.row[CHOOSE n \in users : TRUE]["userTurn"]
            projectTurn == IF projects = {} THEN turn
                           ELSE e.row[CHOOSE n \in projects : TRUE]["projectTurn"]
            row == [state |-> "queued", userTurn |-> userTurn, projectTurn |-> projectTurn]
            e1 == [e EXCEPT !.turn = turn, !.row[o] = row, !.since[o] = Len(e.grants)]
            f == Schedule(e1, seq)
            done == Request(rows, seq, owner, o)
<1>1. done = IF owner \notin rows.reg \/ seq[o] > d.last[owner] + 1 THEN [rows |-> rows, reply |-> "error"]
             ELSE IF seq[o] <= d.last[owner] THEN [rows |-> d, reply |-> "closed"]
             ELSE IF ~immediate /\ Full(waiting, o) THEN [rows |-> e, reply |-> "refused"]
             ELSE [rows |-> f, reply |-> StateOf(f, o)]
  BY DEF Request
<1>2. rows.last \in [Owners -> Nat] /\ owner \in Owners /\ rows.last[owner] \in Nat /\ seq[o] \in Nat
  BY RowsFields
<1>3. d \in Rows /\ Same(rows, d) /\ Spares(rows, d, {})
  BY LockStep DEF Scheduled
<1>4. done = [rows |-> e, reply |-> "refused"] \/ done = [rows |-> f, reply |-> StateOf(f, o)]
  <2>. HIDE DEF d, e, f, done, waiting, immediate
  <2>. QED
    BY <1>1, <1>2, <1>3 DEF Same
<1>5. d1 \in Rows /\ d1.reg = rows.reg /\ d1.last = [rows.last EXCEPT ![owner] = seq[o]]
      /\ Spares(rows, d1, {})
  <2>. HIDE DEF d
  <2>1. [d.last EXCEPT ![owner] = seq[o]] \in [Owners -> Nat]
    BY <1>2, <1>3 DEF Same
  <2>2. d1.row = d.row /\ d1.reg = d.reg /\ d1.last = [d.last EXCEPT ![owner] = seq[o]] /\ d1 \in Rows
    BY <1>3, <2>1 DEF Rows
  <2>. HIDE DEF d1
  <2>. QED
    BY <1>3, <2>2 DEF Same, Spares
<1>6. e \in Rows /\ e.reg = rows.reg /\ e.last = [rows.last EXCEPT ![owner] = seq[o]]
      /\ Spares(rows, e, {})
  <2>. HIDE DEF d1
  <2>1. Scheduled(d1, e)
    BY <1>5, ScheduleStep
  <2>. HIDE DEF e
  <2>. QED
    BY <1>5, <2>1, SparesTwice DEF Scheduled, Same
<1>7. e.row \in [Ops -> Row] /\ e.turn \in Nat /\ e.grants \in Seq(Ops) /\ e.since \in [Ops -> Nat]
  BY <1>6, RowsFields
<1>8. row \in Row
  <2>. HIDE DEF e
  <2>0. turn \in Nat /\ users \subseteq Ops /\ projects \subseteq Ops
    BY <1>7 DEF Queued
  <2>1. userTurn \in Nat
    <3>. HIDE DEF users, turn
    <3>. QED
      BY <1>7, <2>0 DEF Row
  <2>2. projectTurn \in Nat
    <3>. HIDE DEF projects, turn
    <3>. QED
      BY <1>7, <2>0 DEF Row
  <2>. HIDE DEF userTurn, projectTurn
  <2>. QED
    BY <2>1, <2>2 DEF Row
<1>9. e1 \in Rows /\ e1.reg = e.reg /\ e1.last = e.last /\ Spares(e, e1, {o})
  <2>. HIDE DEF e, row, turn
  <2>1. Len(e.grants) \in Nat
    BY <1>7
  <2>2. turn \in Nat
    BY <1>7 DEF turn
  <2>. DEFINE grown == [e.row EXCEPT ![o] = row]
              since == [e.since EXCEPT ![o] = Len(e.grants)]
  <2>3. grown \in [Ops -> Row] /\ since \in [Ops -> Nat] /\ \A n \in Ops \ {o} : grown[n] = e.row[n]
    BY <1>7, <1>8, <2>1
  <2>4. e1 = [e EXCEPT !.turn = turn, !.row = grown, !.since = since]
    BY <1>6 DEF Rows
  <2>. HIDE DEF grown, since, e1
  <2>5. e1 \in Rows /\ e1.reg = e.reg /\ e1.last = e.last /\ e1.row = grown
    BY <1>6, <2>2, <2>3, <2>4 DEF Rows
  <2>. QED
    BY <2>3, <2>5 DEF Spares
<1>10. f \in Rows /\ f.reg = e.reg /\ f.last = e.last /\ Spares(e, f, {o})
  <2>. HIDE DEF e, e1
  <2>1. Scheduled(e1, f)
    BY <1>9, ScheduleStep
  <2>. HIDE DEF f
  <2>2. Spares(e1, f, {o})
    BY <2>1, SparesMore DEF Scheduled
  <2>. QED
    BY <1>9, <2>1, <2>2, SparesTwice DEF Scheduled, Same
<1>. HIDE DEF d, d1, e, e1, f, waiting, immediate, row, done
<1>11. Spares(rows, e, {o})
  BY <1>6, SparesMore
<1>12. Spares(rows, f, {o})
  BY <1>10, <1>11, SparesTwice
<1>13. StateOf(f, o) \in Replies /\ (StateOf(f, o) = "active" => f.row[o].state = "active")
  BY <1>10, StateOfRow
<1>14. CASE done = [rows |-> e, reply |-> "refused"]
  <2>1. done.rows = e /\ done.reply = "refused"
    BY <1>14
  <2>. QED
    BY <1>6, <1>11, <2>1 DEF Replies, Requested, done
<1>15. CASE done = [rows |-> f, reply |-> StateOf(f, o)]
  <2>1. done.rows = f /\ done.reply = StateOf(f, o)
    BY <1>15
  <2>. QED
    BY <1>6, <1>10, <1>12, <1>13, <2>1 DEF Requested, done
<1>. QED
  BY <1>4, <1>14, <1>15

\* A poll expires and grants, and answers with the row.
LEMMA StatusStep ==
  ASSUME NEW rows \in Rows, NEW seq \in [Ops -> Nat], NEW owner \in rows.reg, NEW o \in Ops
  PROVE  LET done == Status(rows, seq, owner, o) IN
         /\ Scheduled(rows, done.rows)
         /\ done.reply \in Replies
         /\ done.reply = "active" => done.rows.row[o].state = "active"
<1>. DEFINE d == Schedule(Lock(rows), seq)
            done == Status(rows, seq, owner, o)
<1>1. Scheduled(rows, Lock(rows)) /\ Lock(rows) \in Rows
  BY LockStep DEF Scheduled
<1>2. Scheduled(rows, d) /\ d \in Rows
  BY <1>1, ScheduleStep, ScheduledTwice DEF Scheduled
<1>3. done = [rows |-> d, reply |-> StateOf(d, o)]
  BY DEF Status
<1>. HIDE DEF d, done
<1>4. done.rows = d /\ done.reply = StateOf(d, o)
  BY <1>3
<1>. QED
  BY <1>2, <1>4, StateOfRow DEF done

\* A completion that answers has deleted the row; it may use the owner's next
\* sequence number up.
Finished(rows, seq, owner, o, done) ==
  /\ done.reply = "error" => done.rows = rows
  /\ done.reply # "error" =>
       LET last == rows.last[owner] IN
       /\ done.rows \in Rows /\ done.rows.reg = rows.reg
       /\ done.rows.last = [rows.last EXCEPT ![owner] = IF seq[o] = last + 1 THEN seq[o] ELSE last]
       /\ done.rows.row[o].state = "none" /\ Spares(rows, done.rows, {o})

\* finish, whatever the outcome reported.
LEMMA FinishStep ==
  ASSUME NEW rows \in Rows, NEW seq \in [Ops -> Nat], NEW owner \in rows.reg, NEW o \in Ops,
         NEW outcome
  PROVE  Finished(rows, seq, owner, o, Finish(rows, seq, owner, o, outcome))
<1>. DEFINE d == Lock(rows)
            last == rows.last[owner]
            counted == [rows.last EXCEPT ![owner] = IF seq[o] = last + 1 THEN seq[o] ELSE last]
            unknown == \/ seq[o] > d.last[owner] + 1
                       \/ seq[o] = d.last[owner] + 1 /\ outcome # "not-started"
            e == [d EXCEPT !.row[o] = NoRow,
                    !.last[owner] = IF seq[o] = @ + 1 THEN seq[o] ELSE @]
            f == Schedule(e, seq)
            done == Finish(rows, seq, owner, o, outcome)
<1>1. done = IF unknown THEN [rows |-> rows, reply |-> "error"] ELSE [rows |-> f, reply |-> "ok"]
  BY DEF Finish
<1>2. rows.last \in [Owners -> Nat] /\ owner \in Owners /\ last \in Nat /\ seq[o] \in Nat
  BY RowsFields
<1>3. d \in Rows /\ Same(rows, d) /\ Spares(rows, d, {}) /\ d.last = rows.last
  BY LockStep DEF Scheduled, Same
<1>4. NoRow \in Row /\ NoRow.state = "none"
  BY DEF NoRow, Row
<1>5. e \in Rows /\ e.reg = rows.reg /\ e.last = counted /\ e.row[o].state = "none"
      /\ Spares(rows, e, {o})
  <2>. DEFINE shrunk == [d.row EXCEPT ![o] = NoRow]
  <2>. HIDE DEF d
  <2>0. d.row \in [Ops -> Row]
    BY <1>3, RowsFields
  <2>1. counted \in [Owners -> Nat] /\ shrunk \in [Ops -> Row] /\ shrunk[o].state = "none"
        /\ \A n \in Ops \ {o} : shrunk[n] = d.row[n]
    BY <1>2, <1>4, <2>0
  <2>2. e = [d EXCEPT !.row = shrunk, !.last = counted]
    BY <1>3 DEF Rows
  <2>. HIDE DEF e, counted, shrunk
  <2>3. e \in Rows /\ e.reg = d.reg /\ e.last = counted /\ e.row = shrunk
    BY <1>3, <2>1, <2>2 DEF Rows
  <2>. QED
    BY <1>3, <2>1, <2>3 DEF Same, Spares
<1>6. f \in Rows /\ f.reg = rows.reg /\ f.last = counted /\ f.row[o].state = "none"
      /\ Spares(rows, f, {o})
  <2>. HIDE DEF e, counted
  <2>1. Scheduled(e, f)
    BY <1>5, ScheduleStep
  <2>. HIDE DEF f
  <2>2. Spares(e, f, {o}) /\ Spares(e, f, {})
    BY <2>1, SparesMore DEF Scheduled
  <2>3. f.row[o].state = "none"
    BY <1>5, <2>2 DEF Spares
  <2>. QED
    BY <1>5, <2>1, <2>2, <2>3, SparesTwice DEF Scheduled, Same
<1>7. unknown => done.rows = rows /\ done.reply = "error"
  BY <1>1
<1>8. ~unknown => done.rows = f /\ done.reply = "ok"
  BY <1>1
<1>9. "ok" # "error"
  OBVIOUS
<1>. HIDE DEF d, e, f, unknown, done, counted, last
<1>. QED
  BY <1>6, <1>7, <1>8, <1>9, Zenon DEF Finished, done, counted, last

\* Removing an owner removes its counter and its rows, and no others.
Stopped(rows, of, owner, after) ==
  /\ after \in Rows /\ after.reg = rows.reg \ {owner}
  /\ \A p \in Owners \ {owner} : after.last[p] = rows.last[p]
  /\ Spares(rows, after, {o \in Ops : of[o] = owner})
  /\ owner \in rows.reg => \A o \in Ops : of[o] = owner => after.row[o].state = "none"
  /\ owner \notin rows.reg => after = rows

\* gatewayStopped.
LEMMA StoppedStep ==
  ASSUME NEW rows \in Rows, NEW seq \in [Ops -> Nat], NEW of, NEW owner \in Owners
  PROVE  Stopped(rows, of, owner, GatewayStopped(rows, seq, of, owner))
<1>. DEFINE d == Lock(rows)
            its == {o \in Ops : of[o] = owner}
            left == [o \in Ops |-> IF of[o] = owner THEN NoRow ELSE d.row[o]]
            e == [d EXCEPT !.reg = @ \ {owner}, !.last[owner] = 0, !.row = left]
            f == Schedule(e, seq)
            after == GatewayStopped(rows, seq, of, owner)
<1>1. after = IF owner \notin rows.reg THEN rows ELSE f
  BY DEF GatewayStopped
<1>2. rows.last \in [Owners -> Nat]
  BY RowsFields
<1>3. d \in Rows /\ d.reg = rows.reg /\ d.last = rows.last /\ Spares(rows, d, {})
  BY LockStep DEF Scheduled, Same
<1>4. NoRow \in Row /\ NoRow.state = "none"
  BY DEF NoRow, Row
<1>5. /\ e \in Rows /\ e.reg = rows.reg \ {owner} /\ e.last = [rows.last EXCEPT ![owner] = 0]
      /\ Spares(rows, e, its) /\ \A o \in its : e.row[o].state = "none"
  <2>. DEFINE zeroed == [d.last EXCEPT ![owner] = 0]
              others == d.reg \ {owner}
  <2>. HIDE DEF d
  <2>0. d.row \in [Ops -> Row] /\ d.reg \subseteq Owners
    BY <1>3, RowsFields
  <2>1. /\ zeroed \in [Owners -> Nat] /\ left \in [Ops -> Row] /\ others \subseteq Owners
        /\ \A n \in its : left[n].state = "none"
        /\ \A n \in Ops \ its : left[n] = d.row[n]
    BY <1>2, <1>3, <1>4, <2>0
  <2>2. e = [d EXCEPT !.reg = others, !.last = zeroed, !.row = left]
    BY <1>3 DEF Rows
  <2>. HIDE DEF e, left, zeroed, others, its
  <2>3. e \in Rows /\ e.reg = others /\ e.last = zeroed /\ e.row = left
    BY <1>3, <2>1, <2>2 DEF Rows
  <2>. QED
    BY <1>3, <2>1, <2>3 DEF Spares, others, zeroed
<1>6. /\ f \in Rows /\ f.reg = rows.reg \ {owner} /\ f.last = [rows.last EXCEPT ![owner] = 0]
      /\ Spares(rows, f, its) /\ \A o \in its : f.row[o].state = "none"
  <2>0. its \subseteq Ops
    OBVIOUS
  <2>. HIDE DEF e, its
  <2>1. Scheduled(e, f)
    BY <1>5, ScheduleStep
  <2>. HIDE DEF f
  <2>2. Spares(e, f, its) /\ Spares(e, f, {})
    BY <2>1, SparesMore DEF Scheduled
  <2>3. \A o \in its : f.row[o].state = "none"
    BY <1>5, <2>0, <2>2 DEF Spares
  <2>. QED
    BY <1>5, <2>1, <2>2, <2>3, SparesTwice DEF Scheduled, Same
<1>7. Spares(rows, rows, its)
  BY DEF Spares
<1>. HIDE DEF d, e, f, after, its, left
<1>8. CASE owner \notin rows.reg
  <2>1. after = rows
    BY <1>1, <1>8
  <2>. QED
    BY <1>7, <1>8, <2>1 DEF Stopped, after, its
<1>9. CASE owner \in rows.reg
  <2>1. after = f
    BY <1>1, <1>9
  <2>2. \A p \in Owners \ {owner} : f.last[p] = rows.last[p]
    BY <1>2, <1>6
  <2>3. \A o \in Ops : of[o] = owner => f.row[o].state = "none"
    BY <1>6 DEF its
  <2>. QED
    BY <1>6, <1>9, <2>1, <2>2, <2>3 DEF Stopped, after, its
<1>. QED
  BY <1>8, <1>9

\* A registration adds the owner.
LEMMA RegisteredStep ==
  ASSUME NEW rows \in Rows, NEW owner \in Owners
  PROVE  LET after == RegisterGateway(rows, owner) IN
         /\ after \in Rows /\ after.reg = rows.reg \cup {owner} /\ after.last = rows.last
         /\ Spares(rows, after, {})
<1>. DEFINE d == Lock(rows)
            more == rows.reg \cup {owner}
            after == RegisterGateway(rows, owner)
<1>1. d \in Rows /\ d.reg = rows.reg /\ d.last = rows.last /\ Spares(rows, d, {})
  BY LockStep DEF Scheduled, Same
<1>2. more \subseteq Owners
  BY RowsFields
<1>3. after = [d EXCEPT !.reg = more]
  BY <1>1 DEF RegisterGateway
<1>. HIDE DEF d, more, after
<1>4. after \in Rows /\ after.reg = more /\ after.last = d.last /\ after.row = d.row
  BY <1>1, <1>2, <1>3 DEF Rows
<1>. QED
  BY <1>1, <1>4 DEF Spares, after, more

\* A pressure sample only grants.
LEMMA ObserveStep ==
  ASSUME NEW rows \in Rows, NEW seq \in [Ops -> Nat], NEW k \in 0 .. MaxCredits
  PROVE  Scheduled(rows, Observe(rows, seq, k))
<1>. DEFINE d == Lock(rows)
            e == [d EXCEPT !.credits = k]
<1>1. d \in Rows /\ Scheduled(rows, d)
  BY LockStep DEF Scheduled
<1>2. e \in Rows /\ Same(d, e) /\ e.row = d.row
  <2>. HIDE DEF d
  <2>. QED
    BY <1>1 DEF Rows, Same
<1>. HIDE DEF d, e
<1>3. Scheduled(d, e)
  BY <1>2 DEF Scheduled, Spares
<1>4. Scheduled(e, Schedule(e, seq))
  BY <1>2, ScheduleStep
<1>5. Scheduled(rows, Schedule(e, seq))
  BY <1>1, <1>3, <1>4, ScheduledTwice
<1>. QED
  BY <1>5 DEF Observe, e, d

\* A deadline that passes changes no state.
LEMMA OverdueStep ==
  ASSUME NEW rows \in Rows, NEW o \in Ops
  PROVE  /\ Scheduled(rows, [rows EXCEPT !.overdue = @ \cup {o}])
         /\ Scheduled(rows, [rows EXCEPT !.late = @ \cup {o}])
<1>. DEFINE more == rows.overdue \cup {o}
            later == rows.late \cup {o}
            e == [rows EXCEPT !.overdue = more]
            f == [rows EXCEPT !.late = later]
<1>1. more \subseteq Ops /\ later \subseteq Ops
  BY RowsFields
<1>. HIDE DEF more, later
<1>2. /\ e \in Rows /\ Same(rows, e) /\ e.row = rows.row
      /\ f \in Rows /\ Same(rows, f) /\ f.row = rows.row
  BY <1>1 DEF Rows, Same
<1>. HIDE DEF e, f
<1>3. Scheduled(rows, e) /\ Scheduled(rows, f)
  BY <1>2 DEF Scheduled, Spares
<1>. QED
  BY <1>3 DEF e, f, more, later
=============================================================================
