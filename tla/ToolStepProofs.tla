---------------------------- MODULE ToolStepProofs ----------------------------
(***************************************************************************)
(* Safety of the tool scheduler, of the log it writes and of the repair    *)
(* of what a crash leaves of it, for any number of calls and steps and any *)
(* pool size.                                                              *)
(***************************************************************************)
EXTENDS ToolStep, SequenceTheorems, FiniteSetTheorems, NaturalsInduction, TLAPS

(***************************************************************************)
(* What the repair fold computes over a well-formed log, for logs of any   *)
(* length                                                                  *)
(***************************************************************************)

\* A set of natural numbers has a least member.
LEMMA Least ==
  ASSUME NEW S, S \subseteq Nat, S # {}
  PROVE  \E m \in S : \A k \in S : ~(k < m)
<1>1. PICK m \in S : \A k \in S : ~(<<k, m>> \in OpToRel(<, Nat))
  BY NatLessThanWellFounded, WFMin, Zenon
<1>2. \A k \in S : ~(k < m)
  BY <1>1 DEF OpToRel
<1>. QED
  BY <1>2

(***************************************************************************)
(* The fold                                                                *)
(***************************************************************************)

\* The states of the fold after each event.
States(ev) ==
  CHOOSE scan : scan = [i \in 0..Len(ev) |->
                          IF i = 0 THEN Fresh ELSE Observe(scan[i - 1], ev[i])]

At(ev, n) == States(ev)[n]

\* The recursive definition has a solution.
LEMMA StatesExist ==
  ASSUME NEW S, NEW ev \in Seq(S)
  PROVE  \E f : f = [i \in 0..Len(ev) |-> IF i = 0 THEN Fresh ELSE Observe(f[i - 1], ev[i])]
<1>. DEFINE P(n) == \E f : f = [i \in 0..n |-> IF i = 0 THEN Fresh ELSE Observe(f[i - 1], ev[i])]
<1>1. ASSUME NEW n \in Nat, n = 0 \/ (n # 0 /\ P(n - 1)) PROVE P(n)
  <2>1. CASE n = 0
    <3>. DEFINE f == [i \in 0..0 |-> Fresh]
    <3>1. f = [i \in 0..0 |-> IF i = 0 THEN Fresh ELSE Observe(f[i - 1], ev[i])]
      OBVIOUS
    <3>. QED
      BY <2>1, <3>1
  <2>2. CASE n # 0
    <3>0. n \in Nat /\ n - 1 \in Nat /\ n >= 1
      BY <2>2
    <3>1. PICK f : f = [i \in 0..(n - 1) |-> IF i = 0 THEN Fresh ELSE Observe(f[i - 1], ev[i])]
      BY <1>1, <2>2
    <3>. DEFINE g == [i \in 0..n |-> IF i = n THEN Observe(f[n - 1], ev[n]) ELSE f[i]]
                h == [i \in 0..n |-> IF i = 0 THEN Fresh ELSE Observe(g[i - 1], ev[i])]
    <3>2. \A i \in 0..(n - 1) : f[i] = IF i = 0 THEN Fresh ELSE Observe(f[i - 1], ev[i])
      BY <3>1
    <3>3. \A i \in 0..(n - 1) : g[i] = f[i]
      BY <3>0
    <3>4. ASSUME NEW i \in 0..n PROVE g[i] = h[i]
      <4>1. CASE i = 0
        BY <3>0, <3>2, <3>3, <4>1
      <4>2. CASE i # 0
        <5>1. i - 1 \in 0..(n - 1)
          BY <3>0, <4>2
        <5>2. g[i - 1] = f[i - 1]
          BY <3>3, <5>1
        <5>3. h[i] = Observe(f[i - 1], ev[i])
          BY <4>2, <5>2
        <5>4. g[i] = Observe(f[i - 1], ev[i])
          <6>1. CASE i = n
            BY <6>1
          <6>2. CASE i # n
            <7>1. i \in 0..(n - 1)
              BY <3>0, <6>2
            <7>. QED
              BY <3>2, <3>3, <4>2, <7>1
          <6>. QED
            BY <6>1, <6>2
        <5>. QED
          BY <5>3, <5>4
      <4>. QED
        BY <4>1, <4>2
    <3>5. g = h
      BY <3>4
    <3>. QED
      BY <3>5
  <2>. QED
    BY <2>1, <2>2
<1>2. \A n \in Nat : P(n)
  <2>. DEFINE bad == {n \in Nat : ~P(n)}
  <2>. SUFFICES ASSUME bad # {} PROVE FALSE
    OBVIOUS
  <2>. HIDE DEF P
  <2>1. PICK m \in bad : \A k \in bad : ~(k < m)
    BY Least
  <2>2. m = 0 \/ (m # 0 /\ P(m - 1))
    BY <2>1
  <2>. QED
    BY <1>1, <2>1, <2>2
<1>3. Len(ev) \in Nat
  OBVIOUS
<1>. QED
  BY <1>2, <1>3

\* The fold is Fresh before the first event and observes one event at a time.
LEMMA Unfold ==
  ASSUME NEW S, NEW ev \in Seq(S)
  PROVE  /\ At(ev, 0) = Fresh
         /\ \A n \in 1..Len(ev) : At(ev, n) = Observe(At(ev, n - 1), ev[n])
         /\ Scan(ev) = At(ev, Len(ev))
<1>1. States(ev) = [i \in 0..Len(ev) |->
                      IF i = 0 THEN Fresh ELSE Observe(States(ev)[i - 1], ev[i])]
  BY StatesExist DEF States
<1>2. Len(ev) \in Nat
  OBVIOUS
<1>3. \A i \in 0..Len(ev) : States(ev)[i] = IF i = 0 THEN Fresh ELSE Observe(States(ev)[i - 1], ev[i])
  BY <1>1
<1>4. Scan(ev) = States(ev)[Len(ev)]
  BY DEF Scan, States
<1>. QED
  BY <1>2, <1>3, <1>4 DEF At

\* The fold over a longer log goes through the states of the shorter one.
LEMMA SamePrefix ==
  ASSUME NEW S, NEW ev \in Seq(S), NEW ew \in Seq(S), NEW n \in Nat, n <= Len(ev), n <= Len(ew),
         \A i \in 1..n : ew[i] = ev[i]
  PROVE  \A i \in 0..n : At(ew, i) = At(ev, i)
<1>. DEFINE bad == {i \in 0..n : At(ew, i) # At(ev, i)}
<1>. SUFFICES ASSUME bad # {} PROVE FALSE
  OBVIOUS
<1>0. bad \subseteq Nat
  OBVIOUS
<1>1. PICK m \in bad : \A k \in bad : ~(k < m)
  BY <1>0, Least
<1>2. m # 0
  BY <1>1, Unfold
<1>3. m \in 1..Len(ev) /\ m \in 1..Len(ew) /\ m \in 1..n /\ m - 1 \in 0..n /\ m - 1 < m
  BY <1>1, <1>2
<1>4. At(ew, m - 1) = At(ev, m - 1)
  BY <1>1, <1>3
<1>5. At(ew, m) = Observe(At(ew, m - 1), ew[m]) /\ At(ev, m) = Observe(At(ev, m - 1), ev[m])
  BY <1>3, Unfold
<1>. QED
  BY <1>1, <1>3, <1>4, <1>5

(***************************************************************************)
(* Well-formed logs                                                        *)
(***************************************************************************)

Kinds == {"turn/start", "turn/end", "step/start", "step/end", "assistant/message",
          "tool/call", "tool/result"}
Ids == Nat \X Nat
Notes == {"", "error", "interrupted", "ABORTED", Ok, Skipped, Unknown, NotStarted}
Events == [type : Kinds, id : Ids, note : Notes]
Cursors == [pending : Seq(Ids), started : SUBSET Ids, turn : BOOLEAN, step : Nat]

\* The model order of two calls.
Before(c, d) == c[1] < d[1] \/ (c[1] = d[1] /\ c[2] < d[2])

\* The unanswered requests are the open step's, in model order.
PendingOK(s) ==
  /\ \A i \in 1..Len(s.pending) : s.pending[i][1] = s.step /\ s.step # 0
  /\ \A i, j \in 1..Len(s.pending) : i < j => s.pending[i][2] < s.pending[j][2]

\* The turn is open until its turn/end, which is the last event.
TurnOK(s, ev, n) ==
  /\ \A i \in 1..(n - 1) : ev[i].type # "turn/end"
  /\ s.turn = (ev[n].type # "turn/end")

\* Results so far are in model order, and all before the unanswered requests.
OrderOK(s, ev, n) ==
  /\ \A r \in 1..n : ev[r].type = "tool/result" =>
       \A i \in 1..Len(s.pending) : Before(ev[r].id, s.pending[i])
  /\ \A q, r \in 1..n :
       ev[q].type = "tool/result" /\ ev[r].type = "tool/result" /\ q < r =>
         Before(ev[q].id, ev[r].id)

\* A request is unanswered, or has a result inside its step.
Answer(a, k, r, ev, n) ==
  /\ ev[r].type = "tool/result" /\ ev[r].id = <<ev[a].id[1], k>>
  /\ \A e \in 1..n : ev[e].type = "step/end" /\ ev[e].id[1] = ev[a].id[1] => r < e
AnswerOK(s, ev, n) ==
  \A a \in 1..n : ev[a].type = "assistant/message" =>
    \A k \in 1..ev[a].id[2] :
      \/ \E i \in 1..Len(s.pending) : s.pending[i] = <<ev[a].id[1], k>>
      \/ \E r \in (a + 1)..n : Answer(a, k, r, ev, n)

\* The open step has no step/end, and its tool/calls are started.
StepOK(s, ev, n) ==
  s.step # 0 =>
    \A i \in 1..n : ev[i].id[1] = s.step =>
      /\ ev[i].type # "step/end"
      /\ ev[i].type = "tool/call" => ev[i].id \in s.started

\* Steps that were started and not ended.
Count(type, ev, n) == {i \in 1..n : ev[i].type = type}
CountOK(s, ev, n) ==
  Cardinality(Count("step/start", ev, n)) =
    Cardinality(Count("step/end", ev, n)) + (IF s.step = 0 THEN 0 ELSE 1)

Formed(s, ev, n) ==
  /\ s \in Cursors /\ PendingOK(s) /\ TurnOK(s, ev, n) /\ OrderOK(s, ev, n)
  /\ AnswerOK(s, ev, n) /\ StepOK(s, ev, n) /\ CountOK(s, ev, n)

\* Every prefix of the log is well formed.
Good(ev) ==
  ev \in Seq(Events) /\ Len(ev) > 0 /\ \A n \in 1..Len(ev) : Formed(At(ev, n), ev, n)

\* The events a live turn or a repair may write next, where the fold is at s.
StartFits(s, ev, n) ==
  ev[n + 1].type = "step/start" /\ s.step = 0 /\ ev[n + 1].id[1] # 0
  /\ \A i \in 1..n : ev[i].id[1] < ev[n + 1].id[1]
MessageFits(s, ev, n) ==
  ev[n + 1].type = "assistant/message" /\ s.step # 0 /\ ev[n + 1].id[1] = s.step
  /\ s.pending = <<>>
  /\ \A i \in 1..n : ev[i].type = "tool/result" => ev[i].id[1] < s.step
CallFits(s, ev, n) == ev[n + 1].type = "tool/call"
ResultFits(s, ev, n) ==
  ev[n + 1].type = "tool/result" /\ s.pending # <<>> /\ ev[n + 1].id = s.pending[1]
EndFits(s, ev, n) == ev[n + 1].type = "step/end" /\ s.step # 0 /\ s.pending = <<>>
CloseFits(s, ev, n) == ev[n + 1].type = "turn/end" /\ s.step = 0
Fits(s, ev, n) ==
  /\ s.turn
  /\ \/ StartFits(s, ev, n) \/ MessageFits(s, ev, n) \/ CallFits(s, ev, n)
     \/ ResultFits(s, ev, n) \/ EndFits(s, ev, n) \/ CloseFits(s, ev, n)

\* What one event does to the fold.
LEMMA Fields ==
  ASSUME NEW s \in Cursors, NEW e \in Events
  PROVE  /\ e.type = "turn/start" =>
              /\ Observe(s, e).pending = <<>> /\ Observe(s, e).started = {}
              /\ Observe(s, e).step = 0 /\ Observe(s, e).turn
         /\ e.type = "turn/end" =>
              /\ Observe(s, e).pending = <<>> /\ Observe(s, e).started = {}
              /\ Observe(s, e).step = 0 /\ Observe(s, e).turn = FALSE
         /\ e.type = "step/start" =>
              /\ Observe(s, e).pending = s.pending /\ Observe(s, e).started = s.started
              /\ Observe(s, e).step = e.id[1] /\ Observe(s, e).turn = s.turn
         /\ e.type = "step/end" =>
              /\ Observe(s, e).pending = <<>> /\ Observe(s, e).started = {}
              /\ Observe(s, e).step = 0 /\ Observe(s, e).turn = s.turn
         /\ e.type = "assistant/message" =>
              /\ Observe(s, e).pending = s.pending \o [k \in 1..e.id[2] |-> <<e.id[1], k>>]
              /\ Observe(s, e).started = s.started
              /\ Observe(s, e).step = s.step /\ Observe(s, e).turn = s.turn
         /\ e.type = "tool/call" =>
              /\ Observe(s, e).pending = s.pending
              /\ Observe(s, e).started = s.started \cup {e.id}
              /\ Observe(s, e).step = s.step /\ Observe(s, e).turn = s.turn
         /\ e.type = "tool/result" =>
              /\ Observe(s, e).pending = Delete(s.pending, e.id)
              /\ Observe(s, e).started = s.started
              /\ Observe(s, e).step = s.step /\ Observe(s, e).turn = s.turn
<1>1. CASE e.type = "turn/start"
  BY <1>1 DEF Observe, Fresh, Cursors
<1>2. CASE e.type = "turn/end"
  BY <1>2 DEF Observe, Fresh, Cursors
<1>3. CASE e.type = "step/start"
  BY <1>3 DEF Observe, Cursors
<1>4. CASE e.type = "step/end"
  BY <1>4 DEF Observe, Cursors
<1>5. CASE e.type = "assistant/message"
  BY <1>5 DEF Observe, Cursors
<1>6. CASE e.type = "tool/call"
  BY <1>6 DEF Observe, Cursors
<1>7. CASE e.type = "tool/result"
  BY <1>7 DEF Observe, Cursors
<1>. QED
  BY <1>1, <1>2, <1>3, <1>4, <1>5, <1>6, <1>7 DEF Events, Kinds

\* Deleting the first of several different requests leaves the others.
LEMMA DeleteFirst ==
  ASSUME NEW p \in Seq(Ids), p # <<>>,
         \A i, j \in 1..Len(p) : i < j => p[i][2] < p[j][2]
  PROVE  /\ Delete(p, p[1]) \in Seq(Ids) /\ Len(Delete(p, p[1])) = Len(p) - 1
         /\ \A i \in 1..(Len(p) - 1) : Delete(p, p[1])[i] = p[i + 1]
<1>1. 1 \in DOMAIN p /\ DOMAIN p = 1..Len(p) /\ Len(p) \in Nat /\ Len(p) >= 1
  OBVIOUS
<1>2. \A k \in DOMAIN p : p[k] = p[1] => k = 1
  <2>. SUFFICES ASSUME NEW k \in DOMAIN p, p[k] = p[1], k # 1 PROVE FALSE
    OBVIOUS
  <2>1. p[1][2] < p[k][2]
    BY <1>1
  <2>2. p[1] \in Ids
    BY <1>1
  <2>. QED
    BY <2>1, <2>2 DEF Ids
<1>3. (CHOOSE k \in DOMAIN p : p[k] = p[1]) = 1
  BY <1>1, <1>2
<1>4. Delete(p, p[1]) = [i \in 1..(Len(p) - 1) |-> p[i + 1]]
  <2>. DEFINE c == CHOOSE k \in DOMAIN p : p[k] = p[1]
  <2>1. Delete(p, p[1]) = [i \in 1..(Len(p) - 1) |-> IF i < c THEN p[i] ELSE p[i + 1]]
    BY <1>1, Zenon DEF Delete
  <2>2. c = 1
    BY <1>3
  <2>. HIDE DEF c
  <2>. QED
    BY <1>1, <2>1, <2>2
<1>5. \A i \in 1..(Len(p) - 1) : p[i + 1] \in Ids
  BY <1>1
<1>6. Len(p) - 1 \in Nat
  BY <1>1
<1>7. [i \in 1..(Len(p) - 1) |-> p[i + 1]] \in Seq(Ids)
  BY <1>5, <1>6
<1>. QED
  BY <1>4, <1>6, <1>7

(***************************************************************************)
(* One event after a well-formed prefix                                    *)
(***************************************************************************)

\* The positions of a kind grow by the new event.
LEMMA CountStep ==
  ASSUME NEW ev, NEW n \in Nat, NEW type
  PROVE  /\ IsFiniteSet(Count(type, ev, n)) /\ Cardinality(Count(type, ev, n)) \in Nat
         /\ ev[n + 1].type # type => Count(type, ev, n + 1) = Count(type, ev, n)
         /\ ev[n + 1].type = type =>
              Cardinality(Count(type, ev, n + 1)) = Cardinality(Count(type, ev, n)) + 1
<1>1. IsFiniteSet(1..n)
  BY FS_Interval
<1>2. IsFiniteSet(Count(type, ev, n)) /\ Cardinality(Count(type, ev, n)) \in Nat
  BY <1>1, FS_Subset, FS_CardinalityType DEF Count
<1>3. ASSUME ev[n + 1].type # type PROVE Count(type, ev, n + 1) = Count(type, ev, n)
  BY <1>3 DEF Count
<1>4. ASSUME ev[n + 1].type = type
      PROVE Cardinality(Count(type, ev, n + 1)) = Cardinality(Count(type, ev, n)) + 1
  <2>1. Count(type, ev, n + 1) = Count(type, ev, n) \cup {n + 1}
    BY <1>4 DEF Count
  <2>2. n + 1 \notin Count(type, ev, n)
    BY DEF Count
  <2>. QED
    BY <1>2, <2>1, <2>2, FS_AddElement
<1>. QED
  BY <1>2, <1>3, <1>4

\* A step starts on a closed one.
LEMMA StartStep ==
  ASSUME NEW ev \in Seq(Events), NEW n \in 1..(Len(ev) - 1), NEW s, Formed(s, ev, n), s.turn,
         StartFits(s, ev, n)
  PROVE  Formed(Observe(s, ev[n + 1]), ev, n + 1)
<1>. DEFINE t == Observe(s, ev[n + 1])
<1>1. n \in Nat /\ n >= 1 /\ ev[n + 1] \in Events /\ s \in Cursors /\ ev[n + 1].type = "step/start"
  BY DEF Formed, StartFits
<1>2. ev[n + 1].id[1] \in Nat /\ ev[n + 1].id[2] \in Nat /\ \A i \in 1..n : ev[i] \in Events
  <2>1. \A i \in 1..n : ev[i] \in Events
    BY <1>1
  <2>2. ev[n + 1].id[1] \in Nat /\ ev[n + 1].id[2] \in Nat
    BY <1>1 DEF Events, Ids
  <2>. QED
    BY <2>1, <2>2
<1>3. t.pending = <<>> /\ t.step = ev[n + 1].id[1] /\ t.turn /\ t.started = s.started
  <2>1. s.pending = <<>>
    BY <1>1 DEF Formed, StartFits, PendingOK, Cursors
  <2>. QED
    BY <1>1, <2>1, Fields DEF Cursors
<1>4. t \in [pending : {t.pending}, started : {t.started}, turn : {t.turn}, step : {t.step}]
  BY <1>1 DEF Observe, Cursors, Fresh
<1>5. t \in Cursors
  <2>1. t.pending \in Seq(Ids)
    BY <1>3
  <2>2. t.started \in SUBSET Ids
    BY <1>1, <1>3 DEF Cursors
  <2>3. t.turn \in BOOLEAN /\ t.step \in Nat
    BY <1>1, <1>2, <1>3 DEF Cursors
  <2>. QED
    BY <1>4, <2>1, <2>2, <2>3 DEF Cursors
<1>. HIDE DEF t
<1>6. PendingOK(t)
  BY <1>1, <1>2, <1>3, <1>5 DEF Formed, StartFits, PendingOK, Cursors, Ids
<1>7. TurnOK(t, ev, n + 1)
  <2>1. s.turn = (ev[n].type # "turn/end") /\ \A i \in 1..(n - 1) : ev[i].type # "turn/end"
    BY DEF Formed, TurnOK
  <2>2. ev[n].type # "turn/end"
    BY <2>1, Zenon
  <2>3. \A i \in 1..((n + 1) - 1) : ev[i].type # "turn/end"
    BY <1>1, <2>1, <2>2
  <2>4. t.turn = (ev[n + 1].type # "turn/end")
    BY <1>1, <1>3, <1>5 DEF Cursors
  <2>. QED
    BY <2>3, <2>4 DEF TurnOK
<1>8. OrderOK(t, ev, n + 1)
  <2>1. \A q \in 1..(n + 1) : ev[q].type = "tool/result" => q \in 1..n
    BY <1>1
  <2>2. \A r \in 1..(n + 1) : ev[r].type = "tool/result" =>
          \A i \in 1..Len(t.pending) : Before(ev[r].id, t.pending[i])
    BY <1>3, <2>1 DEF Formed, OrderOK
  <2>. QED
    BY <2>1, <2>2 DEF Formed, OrderOK
<1>9. AnswerOK(t, ev, n + 1)
  <2>. SUFFICES ASSUME NEW a \in 1..(n + 1), ev[a].type = "assistant/message",
                       NEW k \in 1..ev[a].id[2]
           PROVE \/ \E i \in 1..Len(t.pending) : t.pending[i] = <<ev[a].id[1], k>>
                 \/ \E r \in (a + 1)..(n + 1) : Answer(a, k, r, ev, n + 1)
    BY DEF AnswerOK
  <2>1. a \in 1..n
    BY <1>1
  <2>2. \/ \E i \in 1..Len(s.pending) : s.pending[i] = <<ev[a].id[1], k>>
        \/ \E r \in (a + 1)..n : Answer(a, k, r, ev, n)
    BY <2>1 DEF Formed, AnswerOK
  <2>3. ~ \E i \in 1..Len(s.pending) : s.pending[i] = <<ev[a].id[1], k>>
    BY <1>1 DEF Formed, StartFits, PendingOK, Cursors
  <2>4. CASE \E r \in (a + 1)..n : Answer(a, k, r, ev, n)
    <3>1. PICK r \in (a + 1)..n : Answer(a, k, r, ev, n)
      BY <2>4
    <3>2. Answer(a, k, r, ev, n + 1) /\ r \in (a + 1)..(n + 1)
      BY <1>1, <2>1, <3>1 DEF Answer
    <3>. QED
      BY <3>2
  <2>. QED
    BY <2>2, <2>3, <2>4
<1>10. StepOK(t, ev, n + 1)
  BY <1>1, <1>2, <1>3 DEF Formed, StartFits, StepOK
<1>11. CountOK(t, ev, n + 1)
  <2>1. CountOK(s, ev, n)
    BY DEF Formed
  <2>2. Cardinality(Count("step/start", ev, n)) \in Nat /\ Cardinality(Count("step/end", ev, n)) \in Nat
    BY <1>1, CountStep
  <2>3. Cardinality(Count("step/start", ev, n + 1)) = Cardinality(Count("step/start", ev, n)) + 1
    BY <1>1, CountStep
  <2>4. Cardinality(Count("step/end", ev, n + 1)) = Cardinality(Count("step/end", ev, n))
    BY <1>1, CountStep
  <2>. QED
    BY <1>3, <2>1, <2>2, <2>3, <2>4 DEF CountOK, StartFits
<1>. QED
  BY <1>5, <1>6, <1>7, <1>8, <1>9, <1>10, <1>11 DEF Formed, t

\* The requests of an assistant message.
LEMMA RequestSeq ==
  ASSUME NEW i \in Nat, NEW n \in Nat
  PROVE  [k \in 1..n |-> <<i, k>>] \in Seq(Ids)
<1>1. \A k \in 1..n : <<i, k>> \in Ids
  BY DEF Ids
<1>. QED
  BY <1>1

\* An assistant message adds its requests.
LEMMA MessageStep ==
  ASSUME NEW ev \in Seq(Events), NEW n \in 1..(Len(ev) - 1), NEW s, Formed(s, ev, n), s.turn,
         MessageFits(s, ev, n)
  PROVE  Formed(Observe(s, ev[n + 1]), ev, n + 1)
<1>. DEFINE t == Observe(s, ev[n + 1])
<1>1. n \in Nat /\ n >= 1 /\ ev[n + 1] \in Events /\ s \in Cursors /\ ev[n + 1].type = "assistant/message"
  BY DEF Formed, MessageFits
<1>2. ev[n + 1].id[1] \in Nat /\ ev[n + 1].id[2] \in Nat /\ \A i \in 1..n : ev[i] \in Events
  <2>1. \A i \in 1..n : ev[i] \in Events
    BY <1>1
  <2>2. ev[n + 1].id[1] \in Nat /\ ev[n + 1].id[2] \in Nat
    BY <1>1 DEF Events, Ids
  <2>. QED
    BY <2>1, <2>2
<1>3. t.pending = [k \in 1..ev[n + 1].id[2] |-> <<s.step, k>>] /\ t.step = s.step /\ t.turn /\ t.started = s.started
  <2>1. t.pending = s.pending \o [k \in 1..ev[n + 1].id[2] |-> <<ev[n + 1].id[1], k>>]
    BY <1>1, Fields
  <2>2. [k \in 1..ev[n + 1].id[2] |-> <<ev[n + 1].id[1], k>>] \in Seq(Ids)
    BY <1>2, RequestSeq
  <2>3. t.pending = [k \in 1..ev[n + 1].id[2] |-> <<ev[n + 1].id[1], k>>]
    BY <2>1, <2>2 DEF MessageFits
  <2>4. t.pending = [k \in 1..ev[n + 1].id[2] |-> <<s.step, k>>]
    BY <2>3 DEF MessageFits
  <2>5. t.step = s.step /\ t.turn = s.turn /\ t.started = s.started
    BY <1>1, Fields
  <2>. QED
    BY <2>4, <2>5
<1>4. t \in [pending : {t.pending}, started : {t.started}, turn : {t.turn}, step : {t.step}]
  BY <1>1 DEF Observe, Cursors, Fresh
<1>5. t \in Cursors
  <2>1. t.pending \in Seq(Ids)
    <3>1. s.step \in Nat
      BY <1>1 DEF Cursors
    <3>2. [k \in 1..ev[n + 1].id[2] |-> <<s.step, k>>] \in Seq(Ids)
      BY <1>2, <3>1, RequestSeq
    <3>. QED
      BY <1>3, <3>2
  <2>2. t.started \in SUBSET Ids
    BY <1>1, <1>3 DEF Cursors
  <2>3. t.turn \in BOOLEAN /\ t.step \in Nat
    BY <1>1, <1>2, <1>3 DEF Cursors
  <2>. QED
    BY <1>4, <2>1, <2>2, <2>3 DEF Cursors
<1>. HIDE DEF t
<1>6. PendingOK(t)
  BY <1>1, <1>2, <1>3, <1>5 DEF Formed, MessageFits, PendingOK, Cursors, Ids
<1>7. TurnOK(t, ev, n + 1)
  <2>1. s.turn = (ev[n].type # "turn/end") /\ \A i \in 1..(n - 1) : ev[i].type # "turn/end"
    BY DEF Formed, TurnOK
  <2>2. ev[n].type # "turn/end"
    BY <2>1, Zenon
  <2>3. \A i \in 1..((n + 1) - 1) : ev[i].type # "turn/end"
    BY <1>1, <2>1, <2>2
  <2>4. t.turn = (ev[n + 1].type # "turn/end")
    BY <1>1, <1>3, <1>5 DEF Cursors
  <2>. QED
    BY <2>3, <2>4 DEF TurnOK
<1>8. OrderOK(t, ev, n + 1)
  <2>1. \A i \in 1..n : ev[i].type = "tool/result" => ev[i].id[1] < s.step
    BY DEF MessageFits
  <2>2. \A i \in 1..Len(t.pending) : t.pending[i][1] = s.step
    BY <1>2, <1>3
  <2>3. \A q, r \in 1..n : ev[q].type = "tool/result" /\ ev[r].type = "tool/result" /\ q < r =>
           Before(ev[q].id, ev[r].id)
    BY DEF Formed, OrderOK
  <2>4. ASSUME NEW r \in 1..(n + 1), ev[r].type = "tool/result", NEW i \in 1..Len(t.pending)
        PROVE  Before(ev[r].id, t.pending[i])
    BY <1>1, <2>1, <2>2, <2>4 DEF Before
  <2>5. \A q \in 1..(n + 1) : ev[q].type = "tool/result" => q \in 1..n
    BY <1>1
  <2>. QED
    BY <2>3, <2>4, <2>5 DEF OrderOK
<1>9. AnswerOK(t, ev, n + 1)
  <2>1. ASSUME NEW a \in 1..n, ev[a].type = "assistant/message", NEW k \in 1..ev[a].id[2]
        PROVE \E r \in (a + 1)..(n + 1) : Answer(a, k, r, ev, n + 1)
    <3>1. PICK r \in (a + 1)..n : Answer(a, k, r, ev, n)
      BY <2>1 DEF Formed, AnswerOK, MessageFits
    <3>2. Answer(a, k, r, ev, n + 1) /\ r \in (a + 1)..(n + 1)
      BY <1>1, <3>1 DEF Answer
    <3>. QED
      BY <3>2
  <2>2. ASSUME NEW k \in 1..ev[n + 1].id[2]
        PROVE \E i \in 1..Len(t.pending) : t.pending[i] = <<ev[n + 1].id[1], k>>
    <3>1. k \in 1..Len(t.pending) /\ t.pending[k] = <<s.step, k>>
      BY <1>2, <1>3
    <3>. QED
      BY <3>1 DEF MessageFits
  <2>3. \A a \in 1..(n + 1) : a \in 1..n \/ a = n + 1
    BY <1>1
  <2>. QED
    BY <2>1, <2>2, <2>3 DEF AnswerOK
<1>10. StepOK(t, ev, n + 1)
  BY <1>1, <1>2, <1>3 DEF Formed, MessageFits, StepOK
<1>11. CountOK(t, ev, n + 1)
  <2>1. CountOK(s, ev, n)
    BY DEF Formed
  <2>2. Cardinality(Count("step/start", ev, n)) \in Nat /\ Cardinality(Count("step/end", ev, n)) \in Nat
    BY <1>1, CountStep
  <2>3. Cardinality(Count("step/start", ev, n + 1)) = Cardinality(Count("step/start", ev, n))
    BY <1>1, CountStep
  <2>4. Cardinality(Count("step/end", ev, n + 1)) = Cardinality(Count("step/end", ev, n))
    BY <1>1, CountStep
  <2>. QED
    BY <1>3, <2>1, <2>2, <2>3, <2>4 DEF CountOK, MessageFits
<1>. QED
  BY <1>5, <1>6, <1>7, <1>8, <1>9, <1>10, <1>11 DEF Formed, t

\* A call starts.
LEMMA CallStep ==
  ASSUME NEW ev \in Seq(Events), NEW n \in 1..(Len(ev) - 1), NEW s, Formed(s, ev, n), s.turn,
         CallFits(s, ev, n)
  PROVE  Formed(Observe(s, ev[n + 1]), ev, n + 1)
<1>. DEFINE t == Observe(s, ev[n + 1])
<1>1. n \in Nat /\ n >= 1 /\ ev[n + 1] \in Events /\ s \in Cursors /\ ev[n + 1].type = "tool/call"
  BY DEF Formed, CallFits
<1>2. ev[n + 1].id[1] \in Nat /\ ev[n + 1].id[2] \in Nat /\ \A i \in 1..n : ev[i] \in Events
  <2>1. \A i \in 1..n : ev[i] \in Events
    BY <1>1
  <2>2. ev[n + 1].id[1] \in Nat /\ ev[n + 1].id[2] \in Nat
    BY <1>1 DEF Events, Ids
  <2>. QED
    BY <2>1, <2>2
<1>3. t.pending = s.pending /\ t.step = s.step /\ t.turn /\ t.started = s.started \cup {ev[n + 1].id}
  BY <1>1, Fields DEF Cursors
<1>4. t \in [pending : {t.pending}, started : {t.started}, turn : {t.turn}, step : {t.step}]
  BY <1>1 DEF Observe, Cursors, Fresh
<1>5. t \in Cursors
  <2>1. t.pending \in Seq(Ids)
    BY <1>1, <1>3 DEF Cursors
  <2>2. t.started \in SUBSET Ids
    BY <1>1, <1>3 DEF Cursors, Events
  <2>3. t.turn \in BOOLEAN /\ t.step \in Nat
    BY <1>1, <1>2, <1>3 DEF Cursors
  <2>. QED
    BY <1>4, <2>1, <2>2, <2>3 DEF Cursors
<1>. HIDE DEF t
<1>6. PendingOK(t)
  BY <1>1, <1>2, <1>3, <1>5 DEF Formed, CallFits, PendingOK, Cursors, Ids
<1>7. TurnOK(t, ev, n + 1)
  <2>1. s.turn = (ev[n].type # "turn/end") /\ \A i \in 1..(n - 1) : ev[i].type # "turn/end"
    BY DEF Formed, TurnOK
  <2>2. ev[n].type # "turn/end"
    BY <2>1, Zenon
  <2>3. \A i \in 1..((n + 1) - 1) : ev[i].type # "turn/end"
    BY <1>1, <2>1, <2>2
  <2>4. t.turn = (ev[n + 1].type # "turn/end")
    BY <1>1, <1>3, <1>5 DEF Cursors
  <2>. QED
    BY <2>3, <2>4 DEF TurnOK
<1>8. OrderOK(t, ev, n + 1)
  <2>1. \A q \in 1..(n + 1) : ev[q].type = "tool/result" => q \in 1..n
    BY <1>1
  <2>2. \A r \in 1..(n + 1) : ev[r].type = "tool/result" =>
          \A i \in 1..Len(t.pending) : Before(ev[r].id, t.pending[i])
    BY <1>3, <2>1 DEF Formed, OrderOK
  <2>. QED
    BY <2>1, <2>2 DEF Formed, OrderOK
<1>9. AnswerOK(t, ev, n + 1)
  <2>. SUFFICES ASSUME NEW a \in 1..(n + 1), ev[a].type = "assistant/message",
                       NEW k \in 1..ev[a].id[2]
           PROVE \/ \E i \in 1..Len(t.pending) : t.pending[i] = <<ev[a].id[1], k>>
                 \/ \E r \in (a + 1)..(n + 1) : Answer(a, k, r, ev, n + 1)
    BY DEF AnswerOK
  <2>1. a \in 1..n
    BY <1>1
  <2>2. \/ \E i \in 1..Len(s.pending) : s.pending[i] = <<ev[a].id[1], k>>
        \/ \E r \in (a + 1)..n : Answer(a, k, r, ev, n)
    BY <2>1 DEF Formed, AnswerOK
  <2>3. CASE \E i \in 1..Len(s.pending) : s.pending[i] = <<ev[a].id[1], k>>
    BY <1>3, <2>3
  <2>4. CASE \E r \in (a + 1)..n : Answer(a, k, r, ev, n)
    <3>1. PICK r \in (a + 1)..n : Answer(a, k, r, ev, n)
      BY <2>4
    <3>2. Answer(a, k, r, ev, n + 1) /\ r \in (a + 1)..(n + 1)
      BY <1>1, <2>1, <3>1 DEF Answer
    <3>. QED
      BY <3>2
  <2>. QED
    BY <2>2, <2>3, <2>4
<1>10. StepOK(t, ev, n + 1)
  BY <1>1, <1>2, <1>3 DEF Formed, CallFits, StepOK
<1>11. CountOK(t, ev, n + 1)
  <2>1. CountOK(s, ev, n)
    BY DEF Formed
  <2>2. Cardinality(Count("step/start", ev, n)) \in Nat /\ Cardinality(Count("step/end", ev, n)) \in Nat
    BY <1>1, CountStep
  <2>3. Cardinality(Count("step/start", ev, n + 1)) = Cardinality(Count("step/start", ev, n))
    BY <1>1, CountStep
  <2>4. Cardinality(Count("step/end", ev, n + 1)) = Cardinality(Count("step/end", ev, n))
    BY <1>1, CountStep
  <2>. QED
    BY <1>3, <2>1, <2>2, <2>3, <2>4 DEF CountOK, CallFits
<1>. QED
  BY <1>5, <1>6, <1>7, <1>8, <1>9, <1>10, <1>11 DEF Formed, t

\* The first unanswered request gets its result.
LEMMA ResultStep ==
  ASSUME NEW ev \in Seq(Events), NEW n \in 1..(Len(ev) - 1), NEW s, Formed(s, ev, n), s.turn,
         ResultFits(s, ev, n)
  PROVE  Formed(Observe(s, ev[n + 1]), ev, n + 1)
<1>. DEFINE t == Observe(s, ev[n + 1])
<1>1. n \in Nat /\ n >= 1 /\ ev[n + 1] \in Events /\ s \in Cursors /\ ev[n + 1].type = "tool/result"
  BY DEF Formed, ResultFits
<1>2. ev[n + 1].id[1] \in Nat /\ ev[n + 1].id[2] \in Nat /\ \A i \in 1..n : ev[i] \in Events
  <2>1. \A i \in 1..n : ev[i] \in Events
    BY <1>1
  <2>2. ev[n + 1].id[1] \in Nat /\ ev[n + 1].id[2] \in Nat
    BY <1>1 DEF Events, Ids
  <2>. QED
    BY <2>1, <2>2
<1>3. /\ t.step = s.step /\ t.turn /\ t.started = s.started
           /\ t.pending \in Seq(Ids) /\ Len(t.pending) = Len(s.pending) - 1
           /\ \A i \in 1..(Len(s.pending) - 1) : t.pending[i] = s.pending[i + 1]
           /\ Len(s.pending) >= 1
  <2>1. t.pending = Delete(s.pending, s.pending[1]) /\ t.step = s.step /\ t.turn = s.turn
        /\ t.started = s.started
    <3>1. ev[n + 1].id = s.pending[1]
      BY DEF ResultFits
    <3>2. t.pending = Delete(s.pending, ev[n + 1].id) /\ t.step = s.step /\ t.turn = s.turn
          /\ t.started = s.started
      BY <1>1, Fields
    <3>. QED
      BY <3>1, <3>2
  <2>2. s.pending \in Seq(Ids) /\ s.pending # <<>>
    BY <1>1 DEF Cursors, ResultFits
  <2>3. \A i, j \in 1..Len(s.pending) : i < j => s.pending[i][2] < s.pending[j][2]
    BY DEF Formed, PendingOK
  <2>4. Len(s.pending) >= 1
    BY <2>2
  <2>. DEFINE p == s.pending
  <2>. HIDE DEF p
  <2>5. p \in Seq(Ids) /\ p # <<>> /\ \A i, j \in 1..Len(p) : i < j => p[i][2] < p[j][2]
    BY <2>2, <2>3 DEF p
  <2>6. Delete(p, p[1]) \in Seq(Ids) /\ Len(Delete(p, p[1])) = Len(p) - 1
        /\ \A i \in 1..(Len(p) - 1) : Delete(p, p[1])[i] = p[i + 1]
    BY <2>5, DeleteFirst
  <2>. QED
    BY <2>1, <2>4, <2>6, Zenon DEF p
<1>4. t \in [pending : {t.pending}, started : {t.started}, turn : {t.turn}, step : {t.step}]
  BY <1>1 DEF Observe, Cursors, Fresh
<1>5. t \in Cursors
  <2>1. t.pending \in Seq(Ids)
    BY <1>3
  <2>2. t.started \in SUBSET Ids
    BY <1>1, <1>3 DEF Cursors
  <2>3. t.turn \in BOOLEAN /\ t.step \in Nat
    BY <1>1, <1>2, <1>3 DEF Cursors
  <2>. QED
    BY <1>4, <2>1, <2>2, <2>3 DEF Cursors
<1>. HIDE DEF t
<1>a. Len(s.pending) \in Nat
  BY <1>1 DEF Cursors
<1>b. \A i \in 1..Len(t.pending) :
        i + 1 \in 1..Len(s.pending) /\ 1 < i + 1 /\ t.pending[i] = s.pending[i + 1]
  BY <1>3, <1>a
<1>6. PendingOK(t)
  <2>2. \A i, j \in 1..Len(t.pending) : i < j => i + 1 < j + 1
    OBVIOUS
  <2>. QED
    BY <1>3, <1>b, <2>2 DEF Formed, PendingOK
<1>7. TurnOK(t, ev, n + 1)
  <2>1. s.turn = (ev[n].type # "turn/end") /\ \A i \in 1..(n - 1) : ev[i].type # "turn/end"
    BY DEF Formed, TurnOK
  <2>2. ev[n].type # "turn/end"
    BY <2>1, Zenon
  <2>3. \A i \in 1..((n + 1) - 1) : ev[i].type # "turn/end"
    BY <1>1, <2>1, <2>2
  <2>4. t.turn = (ev[n + 1].type # "turn/end")
    BY <1>1, <1>3, <1>5 DEF Cursors
  <2>. QED
    BY <2>3, <2>4 DEF TurnOK
<1>8. OrderOK(t, ev, n + 1)
  <2>1. ev[n + 1].id = s.pending[1] /\ \A i \in 1..n : ev[i].type = "tool/result" =>
           \A j \in 1..Len(s.pending) : Before(ev[i].id, s.pending[j])
    BY DEF Formed, ResultFits, OrderOK
  <2>2. ASSUME NEW i \in 1..Len(t.pending) PROVE Before(s.pending[1], t.pending[i])
    <3>1. 1 \in 1..Len(s.pending) /\ i + 1 \in 1..Len(s.pending) /\ 1 < i + 1
          /\ t.pending[i] = s.pending[i + 1]
      BY <1>3, <1>a, <1>b
    <3>. QED
      BY <3>1 DEF Formed, PendingOK, Before
  <2>3. ASSUME NEW r \in 1..n, ev[r].type = "tool/result", NEW i \in 1..Len(t.pending)
        PROVE Before(ev[r].id, t.pending[i])
    <3>1. i + 1 \in 1..Len(s.pending) /\ t.pending[i] = s.pending[i + 1]
      BY <1>b
    <3>. QED
      BY <2>1, <2>3, <3>1
  <2>4. \A r \in 1..n : ev[r].type = "tool/result" => Before(ev[r].id, ev[n + 1].id)
    <3>1. 1 \in 1..Len(s.pending)
      BY <1>3
    <3>. QED
      BY <2>1, <3>1
  <2>5. \A q \in 1..(n + 1) : q \in 1..n \/ q = n + 1
    BY <1>1
  <2>6. \A q, r \in 1..n :
          ev[q].type = "tool/result" /\ ev[r].type = "tool/result" /\ q < r =>
            Before(ev[q].id, ev[r].id)
    BY DEF Formed, OrderOK
  <2>7. \A q \in 1..n : ~(n + 1 < q) /\ ~(n + 1 < n + 1)
    BY <1>1
  <2>. QED
    BY <2>1, <2>2, <2>3, <2>4, <2>5, <2>6, <2>7 DEF OrderOK
<1>9. AnswerOK(t, ev, n + 1)
  <2>. SUFFICES ASSUME NEW a \in 1..(n + 1), ev[a].type = "assistant/message",
                       NEW k \in 1..ev[a].id[2]
           PROVE \/ \E i \in 1..Len(t.pending) : t.pending[i] = <<ev[a].id[1], k>>
                 \/ \E r \in (a + 1)..(n + 1) : Answer(a, k, r, ev, n + 1)
    BY DEF AnswerOK
  <2>1. a \in 1..n
    BY <1>1
  <2>2. \/ \E i \in 1..Len(s.pending) : s.pending[i] = <<ev[a].id[1], k>>
        \/ \E r \in (a + 1)..n : Answer(a, k, r, ev, n)
    BY <2>1 DEF Formed, AnswerOK
  <2>3. CASE \E i \in 1..Len(s.pending) : s.pending[i] = <<ev[a].id[1], k>>
    <3>1. PICK i \in 1..Len(s.pending) : s.pending[i] = <<ev[a].id[1], k>>
      BY <2>3
    <3>2. CASE i = 1
      <4>1. ev[n + 1].id = <<ev[a].id[1], k>> /\ ev[a].id[1] = s.step /\ s.step # 0
        BY <3>1, <3>2 DEF Formed, PendingOK, ResultFits
      <4>2. \A e \in 1..n : ev[e].id[1] = s.step => ev[e].type # "step/end"
        BY <4>1 DEF Formed, StepOK
      <4>3. Answer(a, k, n + 1, ev, n + 1)
        BY <1>1, <4>1, <4>2 DEF Answer
      <4>4. n + 1 \in (a + 1)..(n + 1)
        BY <1>1, <2>1
      <4>. QED
        BY <4>3, <4>4
    <3>3. CASE i # 1
      <4>1. i - 1 \in 1..Len(t.pending) /\ t.pending[i - 1] = s.pending[i]
        BY <1>3, <3>3
      <4>. QED
        BY <3>1, <4>1
    <3>. QED
      BY <3>2, <3>3
  <2>4. CASE \E r \in (a + 1)..n : Answer(a, k, r, ev, n)
    <3>1. PICK r \in (a + 1)..n : Answer(a, k, r, ev, n)
      BY <2>4
    <3>2. Answer(a, k, r, ev, n + 1) /\ r \in (a + 1)..(n + 1)
      BY <1>1, <2>1, <3>1 DEF Answer
    <3>. QED
      BY <3>2
  <2>. QED
    BY <2>2, <2>3, <2>4
<1>10. StepOK(t, ev, n + 1)
  BY <1>1, <1>2, <1>3 DEF Formed, ResultFits, StepOK
<1>11. CountOK(t, ev, n + 1)
  <2>1. CountOK(s, ev, n)
    BY DEF Formed
  <2>2. Cardinality(Count("step/start", ev, n)) \in Nat /\ Cardinality(Count("step/end", ev, n)) \in Nat
    BY <1>1, CountStep
  <2>3. Cardinality(Count("step/start", ev, n + 1)) = Cardinality(Count("step/start", ev, n))
    BY <1>1, CountStep
  <2>4. Cardinality(Count("step/end", ev, n + 1)) = Cardinality(Count("step/end", ev, n))
    BY <1>1, CountStep
  <2>. QED
    BY <1>3, <2>1, <2>2, <2>3, <2>4 DEF CountOK, ResultFits
<1>. QED
  BY <1>5, <1>6, <1>7, <1>8, <1>9, <1>10, <1>11 DEF Formed, t

\* A step without unanswered requests ends.
LEMMA EndStep ==
  ASSUME NEW ev \in Seq(Events), NEW n \in 1..(Len(ev) - 1), NEW s, Formed(s, ev, n), s.turn,
         EndFits(s, ev, n)
  PROVE  Formed(Observe(s, ev[n + 1]), ev, n + 1)
<1>. DEFINE t == Observe(s, ev[n + 1])
<1>1. n \in Nat /\ n >= 1 /\ ev[n + 1] \in Events /\ s \in Cursors /\ ev[n + 1].type = "step/end"
  BY DEF Formed, EndFits
<1>2. ev[n + 1].id[1] \in Nat /\ ev[n + 1].id[2] \in Nat /\ \A i \in 1..n : ev[i] \in Events
  <2>1. \A i \in 1..n : ev[i] \in Events
    BY <1>1
  <2>2. ev[n + 1].id[1] \in Nat /\ ev[n + 1].id[2] \in Nat
    BY <1>1 DEF Events, Ids
  <2>. QED
    BY <2>1, <2>2
<1>3. t.pending = <<>> /\ t.step = 0 /\ t.turn /\ t.started = {}
  <2>1. t.pending = <<>> /\ t.step = 0 /\ t.turn = s.turn /\ t.started = {}
    BY <1>1, Fields
  <2>. QED
    BY <2>1, Zenon
<1>4. t \in [pending : {t.pending}, started : {t.started}, turn : {t.turn}, step : {t.step}]
  BY <1>1 DEF Observe, Cursors, Fresh
<1>5. t \in Cursors
  <2>1. t.pending \in Seq(Ids)
    BY <1>3
  <2>2. t.started \in SUBSET Ids
    BY <1>1, <1>3 DEF Cursors
  <2>3. t.turn \in BOOLEAN /\ t.step \in Nat
    BY <1>1, <1>2, <1>3 DEF Cursors
  <2>. QED
    BY <1>4, <2>1, <2>2, <2>3 DEF Cursors
<1>. HIDE DEF t
<1>6. PendingOK(t)
  BY <1>1, <1>2, <1>3, <1>5 DEF Formed, EndFits, PendingOK, Cursors, Ids
<1>7. TurnOK(t, ev, n + 1)
  <2>1. s.turn = (ev[n].type # "turn/end") /\ \A i \in 1..(n - 1) : ev[i].type # "turn/end"
    BY DEF Formed, TurnOK
  <2>2. ev[n].type # "turn/end"
    BY <2>1, Zenon
  <2>3. \A i \in 1..((n + 1) - 1) : ev[i].type # "turn/end"
    BY <1>1, <2>1, <2>2
  <2>4. t.turn = (ev[n + 1].type # "turn/end")
    BY <1>1, <1>3, <1>5 DEF Cursors
  <2>. QED
    BY <2>3, <2>4 DEF TurnOK
<1>8. OrderOK(t, ev, n + 1)
  <2>1. \A q \in 1..(n + 1) : ev[q].type = "tool/result" => q \in 1..n
    BY <1>1
  <2>2. \A r \in 1..(n + 1) : ev[r].type = "tool/result" =>
          \A i \in 1..Len(t.pending) : Before(ev[r].id, t.pending[i])
    BY <1>3, <2>1 DEF Formed, OrderOK
  <2>. QED
    BY <2>1, <2>2 DEF Formed, OrderOK
<1>9. AnswerOK(t, ev, n + 1)
  <2>. SUFFICES ASSUME NEW a \in 1..(n + 1), ev[a].type = "assistant/message",
                       NEW k \in 1..ev[a].id[2]
           PROVE \/ \E i \in 1..Len(t.pending) : t.pending[i] = <<ev[a].id[1], k>>
                 \/ \E r \in (a + 1)..(n + 1) : Answer(a, k, r, ev, n + 1)
    BY DEF AnswerOK
  <2>1. a \in 1..n
    BY <1>1
  <2>2. \/ \E i \in 1..Len(s.pending) : s.pending[i] = <<ev[a].id[1], k>>
        \/ \E r \in (a + 1)..n : Answer(a, k, r, ev, n)
    BY <2>1 DEF Formed, AnswerOK
  <2>3. ~ \E i \in 1..Len(s.pending) : s.pending[i] = <<ev[a].id[1], k>>
    BY <1>1 DEF Formed, EndFits, PendingOK, Cursors
  <2>4. CASE \E r \in (a + 1)..n : Answer(a, k, r, ev, n)
    <3>1. PICK r \in (a + 1)..n : Answer(a, k, r, ev, n)
      BY <2>4
    <3>2. Answer(a, k, r, ev, n + 1) /\ r \in (a + 1)..(n + 1)
      BY <1>1, <2>1, <3>1 DEF Answer
    <3>. QED
      BY <3>2
  <2>. QED
    BY <2>2, <2>3, <2>4
<1>10. StepOK(t, ev, n + 1)
  BY <1>1, <1>2, <1>3 DEF Formed, EndFits, StepOK
<1>11. CountOK(t, ev, n + 1)
  <2>1. CountOK(s, ev, n)
    BY DEF Formed
  <2>2. Cardinality(Count("step/start", ev, n)) \in Nat /\ Cardinality(Count("step/end", ev, n)) \in Nat
    BY <1>1, CountStep
  <2>3. Cardinality(Count("step/start", ev, n + 1)) = Cardinality(Count("step/start", ev, n))
    BY <1>1, CountStep
  <2>4. Cardinality(Count("step/end", ev, n + 1)) = Cardinality(Count("step/end", ev, n)) + 1
    BY <1>1, CountStep
  <2>. QED
    BY <1>3, <2>1, <2>2, <2>3, <2>4 DEF CountOK, EndFits
<1>. QED
  BY <1>5, <1>6, <1>7, <1>8, <1>9, <1>10, <1>11 DEF Formed, t

\* The turn ends on a closed step.
LEMMA CloseStep ==
  ASSUME NEW ev \in Seq(Events), NEW n \in 1..(Len(ev) - 1), NEW s, Formed(s, ev, n), s.turn,
         CloseFits(s, ev, n)
  PROVE  Formed(Observe(s, ev[n + 1]), ev, n + 1)
<1>. DEFINE t == Observe(s, ev[n + 1])
<1>1. n \in Nat /\ n >= 1 /\ ev[n + 1] \in Events /\ s \in Cursors /\ ev[n + 1].type = "turn/end"
  BY DEF Formed, CloseFits
<1>2. ev[n + 1].id[1] \in Nat /\ ev[n + 1].id[2] \in Nat /\ \A i \in 1..n : ev[i] \in Events
  <2>1. \A i \in 1..n : ev[i] \in Events
    BY <1>1
  <2>2. ev[n + 1].id[1] \in Nat /\ ev[n + 1].id[2] \in Nat
    BY <1>1 DEF Events, Ids
  <2>. QED
    BY <2>1, <2>2
<1>3. t.pending = <<>> /\ t.step = 0 /\ t.turn = FALSE /\ t.started = {}
  BY <1>1, Fields DEF Cursors
<1>4. t \in [pending : {t.pending}, started : {t.started}, turn : {t.turn}, step : {t.step}]
  BY <1>1 DEF Observe, Cursors, Fresh
<1>5. t \in Cursors
  <2>1. t.pending \in Seq(Ids)
    BY <1>3
  <2>2. t.started \in SUBSET Ids
    BY <1>1, <1>3 DEF Cursors
  <2>3. t.turn \in BOOLEAN /\ t.step \in Nat
    BY <1>1, <1>2, <1>3 DEF Cursors, Observe, Fresh
  <2>. QED
    BY <1>4, <2>1, <2>2, <2>3 DEF Cursors
<1>. HIDE DEF t
<1>6. PendingOK(t)
  BY <1>1, <1>2, <1>3, <1>5 DEF Formed, CloseFits, PendingOK, Cursors, Ids
<1>7. TurnOK(t, ev, n + 1)
  <2>1. s.turn = (ev[n].type # "turn/end") /\ \A i \in 1..(n - 1) : ev[i].type # "turn/end"
    BY DEF Formed, TurnOK
  <2>2. ev[n].type # "turn/end"
    BY <2>1, Zenon
  <2>3. \A i \in 1..((n + 1) - 1) : ev[i].type # "turn/end"
    BY <1>1, <2>1, <2>2
  <2>4. t.turn = (ev[n + 1].type # "turn/end")
    BY <1>1, <1>3, <1>5 DEF Cursors
  <2>. QED
    BY <2>3, <2>4 DEF TurnOK
<1>8. OrderOK(t, ev, n + 1)
  <2>1. \A q \in 1..(n + 1) : ev[q].type = "tool/result" => q \in 1..n
    BY <1>1
  <2>2. \A r \in 1..(n + 1) : ev[r].type = "tool/result" =>
          \A i \in 1..Len(t.pending) : Before(ev[r].id, t.pending[i])
    BY <1>3, <2>1 DEF Formed, OrderOK
  <2>. QED
    BY <2>1, <2>2 DEF Formed, OrderOK
<1>9. AnswerOK(t, ev, n + 1)
  <2>. SUFFICES ASSUME NEW a \in 1..(n + 1), ev[a].type = "assistant/message",
                       NEW k \in 1..ev[a].id[2]
           PROVE \/ \E i \in 1..Len(t.pending) : t.pending[i] = <<ev[a].id[1], k>>
                 \/ \E r \in (a + 1)..(n + 1) : Answer(a, k, r, ev, n + 1)
    BY DEF AnswerOK
  <2>1. a \in 1..n
    BY <1>1
  <2>2. \/ \E i \in 1..Len(s.pending) : s.pending[i] = <<ev[a].id[1], k>>
        \/ \E r \in (a + 1)..n : Answer(a, k, r, ev, n)
    BY <2>1 DEF Formed, AnswerOK
  <2>3. ~ \E i \in 1..Len(s.pending) : s.pending[i] = <<ev[a].id[1], k>>
    BY <1>1 DEF Formed, CloseFits, PendingOK, Cursors
  <2>4. CASE \E r \in (a + 1)..n : Answer(a, k, r, ev, n)
    <3>1. PICK r \in (a + 1)..n : Answer(a, k, r, ev, n)
      BY <2>4
    <3>2. Answer(a, k, r, ev, n + 1) /\ r \in (a + 1)..(n + 1)
      BY <1>1, <2>1, <3>1 DEF Answer
    <3>. QED
      BY <3>2
  <2>. QED
    BY <2>2, <2>3, <2>4
<1>10. StepOK(t, ev, n + 1)
  BY <1>1, <1>2, <1>3 DEF Formed, CloseFits, StepOK
<1>11. CountOK(t, ev, n + 1)
  <2>1. CountOK(s, ev, n)
    BY DEF Formed
  <2>2. Cardinality(Count("step/start", ev, n)) \in Nat /\ Cardinality(Count("step/end", ev, n)) \in Nat
    BY <1>1, CountStep
  <2>3. Cardinality(Count("step/start", ev, n + 1)) = Cardinality(Count("step/start", ev, n))
    BY <1>1, CountStep
  <2>4. Cardinality(Count("step/end", ev, n + 1)) = Cardinality(Count("step/end", ev, n))
    BY <1>1, CountStep
  <2>. QED
    BY <1>3, <2>1, <2>2, <2>3, <2>4 DEF CountOK, CloseFits
<1>. QED
  BY <1>5, <1>6, <1>7, <1>8, <1>9, <1>10, <1>11 DEF Formed, t

\* Every event that fits keeps the log well formed.
LEMMA FormedStep ==
  ASSUME NEW ev \in Seq(Events), NEW n \in 1..(Len(ev) - 1), NEW s, Formed(s, ev, n), Fits(s, ev, n)
  PROVE  Formed(Observe(s, ev[n + 1]), ev, n + 1)
BY StartStep, MessageStep, CallStep, ResultStep, EndStep, CloseStep DEF Fits

\* Being well formed depends on the prefix only.
LEMMA FormedPrefix ==
  ASSUME NEW ev \in Seq(Events), NEW ew \in Seq(Events), NEW n \in Nat, n >= 1,
         \A i \in 1..n : ew[i] = ev[i], NEW s, Formed(s, ev, n)
  PROVE  Formed(s, ew, n)
<1>1. TurnOK(s, ew, n)
  <2>1. (\A i \in 1..(n - 1) : ev[i].type # "turn/end") /\ s.turn = (ev[n].type # "turn/end")
    BY DEF Formed, TurnOK
  <2>2. n \in 1..n /\ \A i \in 1..(n - 1) : i \in 1..n
    OBVIOUS
  <2>. QED
    BY <2>1, <2>2, Zenon DEF TurnOK
<1>2. OrderOK(s, ew, n)
  BY DEF Formed, OrderOK
<1>3. AnswerOK(s, ew, n)
  <2>1. \A a, r \in 1..n : \A k : Answer(a, k, r, ev, n) => Answer(a, k, r, ew, n)
    BY DEF Answer
  <2>2. \A a \in 1..n : \A r \in (a + 1)..n : r \in 1..n
    OBVIOUS
  <2>3. AnswerOK(s, ev, n)
    BY DEF Formed
  <2>. QED
    BY <2>1, <2>2, <2>3 DEF AnswerOK
<1>4. StepOK(s, ew, n)
  BY DEF Formed, StepOK
<1>5. CountOK(s, ew, n)
  <2>1. Count("step/start", ew, n) = Count("step/start", ev, n)
    BY DEF Count
  <2>2. Count("step/end", ew, n) = Count("step/end", ev, n)
    BY DEF Count
  <2>. QED
    BY <2>1, <2>2 DEF Formed, CountOK
<1>. QED
  BY <1>1, <1>2, <1>3, <1>4, <1>5 DEF Formed

(***************************************************************************)
(* Growing a good log                                                      *)
(***************************************************************************)

\* ew continues ev.
Extends(ew, ev) == Len(ev) <= Len(ew) /\ \A i \in 1..Len(ev) : ew[i] = ev[i]

\* A continuation is well formed as far as the good log goes.
LEMMA GoodOn ==
  ASSUME NEW ev, Good(ev), NEW ew \in Seq(Events), Extends(ew, ev)
  PROVE  /\ \A n \in 1..Len(ev) : At(ew, n) = At(ev, n) /\ Formed(At(ew, n), ew, n)
         /\ Scan(ev) = At(ew, Len(ev)) /\ Len(ev) \in Nat /\ Len(ev) >= 1
<1>1. ev \in Seq(Events) /\ Len(ev) \in Nat /\ Len(ev) >= 1 /\ Len(ev) <= Len(ew)
  BY DEF Good, Extends
<1>2. \A n \in 0..Len(ev) : At(ew, n) = At(ev, n)
  BY <1>1, SamePrefix DEF Extends
<1>3. ASSUME NEW n \in 1..Len(ev) PROVE Formed(At(ew, n), ew, n)
  <2>1. Formed(At(ev, n), ev, n)
    BY DEF Good
  <2>2. n \in Nat /\ n >= 1 /\ \A i \in 1..n : ew[i] = ev[i]
    BY <1>1 DEF Extends
  <2>3. Formed(At(ev, n), ew, n)
    BY <1>1, <2>1, <2>2, FormedPrefix
  <2>. QED
    BY <1>1, <1>2, <2>3
<1>4. Scan(ev) = At(ev, Len(ev))
  BY <1>1, Unfold
<1>. QED
  BY <1>1, <1>2, <1>3, <1>4

\* One more event.
LEMMA GoodNext ==
  ASSUME NEW ew \in Seq(Events), NEW n \in 1..(Len(ew) - 1),
         Formed(At(ew, n), ew, n), Fits(At(ew, n), ew, n)
  PROVE  Formed(At(ew, n + 1), ew, n + 1) /\ At(ew, n + 1) = Observe(At(ew, n), ew[n + 1])
<1>1. n + 1 \in 1..Len(ew) /\ (n + 1) - 1 = n
  OBVIOUS
<1>2. At(ew, n + 1) = Observe(At(ew, n), ew[n + 1])
  BY <1>1, Unfold
<1>. QED
  BY <1>2, FormedStep

\* A log that ends with a turn/end is not continued; any other good log is
\* good after an event that fits.
LEMMA GoodAppend ==
  ASSUME NEW ev, Good(ev), NEW e \in Events, Fits(Scan(ev), ev \o <<e>>, Len(ev))
  PROVE  Good(ev \o <<e>>) /\ Scan(ev \o <<e>>) = Observe(Scan(ev), e)
<1>. DEFINE ew == ev \o <<e>>
<1>1. ev \in Seq(Events) /\ Len(ev) \in Nat /\ Len(ev) >= 1
  BY DEF Good
<1>2. ew \in Seq(Events) /\ Len(ew) = Len(ev) + 1 /\ ew[Len(ev) + 1] = e /\ Extends(ew, ev)
  BY <1>1 DEF Extends
<1>. HIDE DEF ew
<1>3. Scan(ev) = At(ew, Len(ev)) /\ \A n \in 1..Len(ev) : Formed(At(ew, n), ew, n)
  BY <1>2, GoodOn
<1>4. Fits(At(ew, Len(ev)), ew, Len(ev)) /\ Len(ev) \in 1..(Len(ew) - 1)
  BY <1>1, <1>2, <1>3 DEF ew
<1>5. Formed(At(ew, Len(ev)), ew, Len(ev))
  BY <1>1, <1>3
<1>6. Formed(At(ew, Len(ev) + 1), ew, Len(ev) + 1) /\ At(ew, Len(ev) + 1) = Observe(At(ew, Len(ev)), e)
  BY <1>2, <1>4, <1>5, GoodNext
<1>7. Scan(ew) = At(ew, Len(ev) + 1)
  BY <1>2, Unfold
<1>8. Good(ew)
  <2>1. \A n \in 1..Len(ew) : n \in 1..Len(ev) \/ n = Len(ev) + 1
    BY <1>1, <1>2
  <2>. QED
    BY <1>1, <1>2, <1>3, <1>6, <2>1 DEF Good
<1>. QED
  BY <1>3, <1>6, <1>7, <1>8 DEF ew

\* The unanswered requests of t are those of s but the first k.
Rest(t, s, k) ==
  /\ t.turn /\ t.step = s.step /\ Len(t.pending) = Len(s.pending) - k
  /\ \A i \in 1..(Len(s.pending) - k) : t.pending[i] = s.pending[k + i]

\* A result for the first of the rest.
LEMMA RestStep ==
  ASSUME NEW ew \in Seq(Events), NEW n \in 1..(Len(ew) - 1), NEW s \in Cursors,
         NEW k \in 0..(Len(s.pending) - 1),
         Formed(At(ew, n), ew, n), Rest(At(ew, n), s, k),
         ew[n + 1].type = "tool/result", ew[n + 1].id = s.pending[k + 1]
  PROVE  Formed(At(ew, n + 1), ew, n + 1) /\ Rest(At(ew, n + 1), s, k + 1)
<1>. DEFINE t == At(ew, n)
            u == At(ew, n + 1)
<1>1. t \in Cursors /\ PendingOK(t) /\ t.pending \in Seq(Ids) /\ Len(s.pending) \in Nat
  BY DEF Formed, Cursors
<1>2. 1 \in 1..(Len(s.pending) - k) /\ Len(t.pending) = Len(s.pending) - k /\ t.turn /\ t.step = s.step
      /\ k \in Nat
  BY <1>1 DEF Rest
<1>3. t.pending # <<>> /\ t.pending[1] = s.pending[k + 1]
  BY <1>1, <1>2 DEF Rest
<1>4. Fits(t, ew, n)
  BY <1>2, <1>3 DEF Fits, ResultFits
<1>5. Formed(u, ew, n + 1) /\ u = Observe(t, ew[n + 1])
  BY <1>4, GoodNext
<1>. HIDE DEF t, u
<1>6. u.pending = Delete(t.pending, t.pending[1]) /\ u.turn /\ u.step = t.step
  <2>0. ew[n + 1] \in Events
    OBVIOUS
  <2>1. /\ Observe(t, ew[n + 1]).pending = Delete(t.pending, ew[n + 1].id)
        /\ Observe(t, ew[n + 1]).turn = t.turn /\ Observe(t, ew[n + 1]).step = t.step
    BY <1>1, <2>0, Fields
  <2>2. u.pending = Delete(t.pending, ew[n + 1].id) /\ u.turn /\ u.step = t.step
    BY <1>2, <1>5, <2>1, Zenon
  <2>3. ew[n + 1].id = t.pending[1]
    BY <1>3
  <2>. QED
    BY <2>2, <2>3
<1>7. \A i, j \in 1..Len(t.pending) : i < j => t.pending[i][2] < t.pending[j][2]
  BY <1>1 DEF PendingOK
<1>8. Len(u.pending) = Len(t.pending) - 1
      /\ \A i \in 1..(Len(t.pending) - 1) : u.pending[i] = t.pending[i + 1]
  <2>. DEFINE p == t.pending
  <2>1. p \in Seq(Ids) /\ p # <<>> /\ \A i, j \in 1..Len(p) : i < j => p[i][2] < p[j][2]
    BY <1>1, <1>3, <1>7
  <2>. HIDE DEF p
  <2>2. Len(Delete(p, p[1])) = Len(p) - 1
        /\ \A i \in 1..(Len(p) - 1) : Delete(p, p[1])[i] = p[i + 1]
    BY <2>1, DeleteFirst
  <2>. QED
    BY <1>6, <2>2 DEF p
<1>9. Rest(t, s, k)
  BY DEF t
<1>10. \A i \in 1..(Len(s.pending) - (k + 1)) :
         /\ i \in 1..(Len(t.pending) - 1) /\ i + 1 \in 1..(Len(s.pending) - k) /\ k + (i + 1) = (k + 1) + i
  BY <1>1, <1>2
<1>11. \A i \in 1..(Len(s.pending) - (k + 1)) : u.pending[i] = s.pending[(k + 1) + i]
  BY <1>8, <1>9, <1>10 DEF Rest
<1>12. Len(u.pending) = Len(s.pending) - (k + 1)
  BY <1>1, <1>2, <1>8
<1>13. u.turn /\ u.step = s.step
  BY <1>2, <1>6
<1>14. Rest(u, s, k + 1)
  BY <1>11, <1>12, <1>13 DEF Rest
<1>. QED
  BY <1>5, <1>14 DEF u

\* A result for each unanswered request, in order.
LEMMA ResultsBlock ==
  ASSUME NEW ew \in Seq(Events), NEW m \in 1..Len(ew), NEW s, s = At(ew, m), Formed(s, ew, m), s.turn,
         m + Len(s.pending) <= Len(ew),
         \A i \in 1..Len(s.pending) : ew[m + i].type = "tool/result" /\ ew[m + i].id = s.pending[i]
  PROVE  \A k \in 0..Len(s.pending) : Formed(At(ew, m + k), ew, m + k) /\ Rest(At(ew, m + k), s, k)
<1>. DEFINE P(k) == Formed(At(ew, m + k), ew, m + k) /\ Rest(At(ew, m + k), s, k)
            bad == {k \in 0..Len(s.pending) : ~P(k)}
<1>0. s \in Cursors /\ s.pending \in Seq(Ids) /\ Len(s.pending) \in Nat /\ m \in Nat /\ m >= 1
      /\ Len(ew) \in Nat
  BY DEF Formed, Cursors
<1>1. P(0)
  <2>1. m + 0 = m
    BY <1>0
  <2>2. Rest(s, s, 0)
    BY <1>0 DEF Rest
  <2>. QED
    BY <2>1, <2>2
<1>2. ASSUME NEW k \in 0..(Len(s.pending) - 1), P(k) PROVE P(k + 1)
  <2>1. m + k \in 1..(Len(ew) - 1) /\ k + 1 \in 1..Len(s.pending) /\ (m + k) + 1 = m + (k + 1)
    BY <1>0
  <2>2. ew[(m + k) + 1].type = "tool/result" /\ ew[(m + k) + 1].id = s.pending[k + 1]
    BY <2>1
  <2>3. Formed(At(ew, (m + k) + 1), ew, (m + k) + 1) /\ Rest(At(ew, (m + k) + 1), s, k + 1)
    BY <1>0, <1>2, <2>1, <2>2, RestStep
  <2>. QED
    BY <2>1, <2>3
<1>. SUFFICES ASSUME bad # {} PROVE FALSE
  OBVIOUS
<1>. HIDE DEF P
<1>3. bad \subseteq Nat
  BY <1>0
<1>4. PICK k \in bad : \A j \in bad : ~(j < k)
  BY <1>3, Least
<1>5. k # 0 /\ k \in 0..Len(s.pending) /\ ~P(k)
  BY <1>1, <1>4
<1>6. k - 1 \in 0..(Len(s.pending) - 1) /\ k - 1 < k /\ (k - 1) + 1 = k
  BY <1>0, <1>5
<1>7. P(k - 1)
  BY <1>4, <1>6
<1>. QED
  BY <1>2, <1>5, <1>6, <1>7

\* A tool/call leaves the unanswered requests alone.
LEMMA CallFields ==
  ASSUME NEW x \in Cursors, NEW e \in Events, e.type = "tool/call"
  PROVE  /\ Observe(x, e).pending = x.pending
         /\ Observe(x, e).turn = x.turn /\ Observe(x, e).step = x.step
BY Fields

\* The i-th pair for the unanswered requests of s, and the fold after k pairs
\* and between the two events of a pair.
Pair(ew, m, s, i) ==
  /\ ew[m + (2 * i - 1)].type = "tool/call"
  /\ ew[m + 2 * i].type = "tool/result" /\ ew[m + 2 * i].id = s.pending[i]
Paired(ew, m, s, k) == Formed(At(ew, m + 2 * k), ew, m + 2 * k) /\ Rest(At(ew, m + 2 * k), s, k)
Called(ew, m, k) == Formed(At(ew, m + (2 * k - 1)), ew, m + (2 * k - 1))

\* A call and a result for each unanswered request, in order.
LEMMA PairsBlock ==
  ASSUME NEW ew \in Seq(Events), NEW m \in 1..Len(ew), NEW s, s = At(ew, m), Formed(s, ew, m), s.turn,
         m + 2 * Len(s.pending) <= Len(ew),
         \A i \in 1..Len(s.pending) : Pair(ew, m, s, i)
  PROVE  /\ \A k \in 0..Len(s.pending) : Paired(ew, m, s, k)
         /\ \A k \in 1..Len(s.pending) : Called(ew, m, k)
<1>. USE DEF Pair, Called
<1>. DEFINE P(k) == Formed(At(ew, m + 2 * k), ew, m + 2 * k) /\ Rest(At(ew, m + 2 * k), s, k)
            bad == {k \in 0..Len(s.pending) : ~P(k)}
<1>0. s \in Cursors /\ s.pending \in Seq(Ids) /\ Len(s.pending) \in Nat /\ m \in Nat /\ m >= 1
      /\ Len(ew) \in Nat
  BY DEF Formed, Cursors
<1>1. P(0)
  <2>1. m + 2 * 0 = m
    BY <1>0
  <2>2. Rest(s, s, 0)
    BY <1>0 DEF Rest
  <2>. QED
    BY <2>1, <2>2
<1>2. ASSUME NEW k \in 0..(Len(s.pending) - 1), P(k)
      PROVE P(k + 1) /\ Formed(At(ew, m + (2 * (k + 1) - 1)), ew, m + (2 * (k + 1) - 1))
  <2>. DEFINE n == m + 2 * k
              t == At(ew, n)
              u == At(ew, n + 1)
  <2>1. n \in 1..(Len(ew) - 1) /\ n + 1 \in 1..(Len(ew) - 1) /\ k + 1 \in 1..Len(s.pending)
        /\ n + 1 = m + (2 * (k + 1) - 1) /\ (n + 1) + 1 = m + 2 * (k + 1)
    BY <1>0
  <2>2. Formed(t, ew, n) /\ Rest(t, s, k)
    BY <1>2
  <2>. HIDE DEF n
  <2>3. ew[n + 1].type = "tool/call" /\ ew[(n + 1) + 1].type = "tool/result"
        /\ ew[(n + 1) + 1].id = s.pending[k + 1]
    BY <2>1
  <2>4. Fits(t, ew, n)
    BY <2>2, <2>3 DEF Fits, CallFits, Rest
  <2>5. Formed(u, ew, n + 1) /\ u = Observe(t, ew[n + 1])
    BY <2>1, <2>2, <2>4, GoodNext
  <2>6. u.pending = t.pending /\ u.step = t.step /\ u.turn
    <3>1. ew[n + 1] \in Events /\ t \in Cursors
      BY <2>1, <2>2 DEF Formed
    <3>. HIDE DEF t, u
    <3>2. /\ Observe(t, ew[n + 1]).pending = t.pending
          /\ Observe(t, ew[n + 1]).turn = t.turn /\ Observe(t, ew[n + 1]).step = t.step
      BY <2>3, <3>1, CallFields, Zenon
    <3>. QED
      BY <2>2, <2>5, <3>2, Zenon DEF Rest
  <2>7. Rest(u, s, k)
    BY <2>2, <2>6 DEF Rest
  <2>8. Formed(At(ew, (n + 1) + 1), ew, (n + 1) + 1) /\ Rest(At(ew, (n + 1) + 1), s, k + 1)
    BY <1>0, <2>1, <2>3, <2>5, <2>7, RestStep
  <2>. QED
    BY <2>1, <2>5, <2>8
<1>. HIDE DEF P
<1>3. \A k \in 0..Len(s.pending) : P(k)
  <2>. SUFFICES ASSUME bad # {} PROVE FALSE
    OBVIOUS
  <2>3. bad \subseteq Nat
    BY <1>0
  <2>4. PICK k \in bad : \A j \in bad : ~(j < k)
    BY <2>3, Least
  <2>5. k # 0 /\ k \in 0..Len(s.pending) /\ ~P(k)
    BY <1>1, <2>4
  <2>6. k - 1 \in 0..(Len(s.pending) - 1) /\ k - 1 < k /\ (k - 1) + 1 = k
    BY <1>0, <2>5
  <2>7. P(k - 1)
    BY <2>4, <2>6
  <2>. QED
    BY <1>2, <2>5, <2>6, <2>7
<1>4. ASSUME NEW k \in 1..Len(s.pending) PROVE Formed(At(ew, m + (2 * k - 1)), ew, m + (2 * k - 1))
  <2>1. k - 1 \in 0..(Len(s.pending) - 1) /\ k - 1 \in 0..Len(s.pending) /\ (k - 1) + 1 = k
    BY <1>0
  <2>2. P(k - 1)
    BY <1>3, <2>1
  <2>. QED
    BY <1>2, <2>1, <2>2
<1>. QED
  BY <1>3, <1>4 DEF P, Paired

\* Closing a log: results, step/end of an open step, turn/end.
Closed(ew, ev, s) ==
  LET P == Len(s.pending)
      E == IF s.step = 0 THEN 0 ELSE 1
  IN /\ ew \in Seq(Events) /\ Extends(ew, ev) /\ Len(ew) = Len(ev) + P + E + 1
     /\ \A i \in 1..P : ew[Len(ev) + i] = Results(s)[i]
     /\ s.step # 0 => ew[Len(ev) + P + 1].type = "step/end"
     /\ ew[Len(ew)].type = "turn/end"

\* The results repair supplies.
LEMMA ResultsType ==
  ASSUME NEW s \in Cursors
  PROVE  /\ Results(s) \in Seq(Events) /\ Len(Results(s)) = Len(s.pending)
         /\ \A i \in 1..Len(s.pending) :
              /\ Results(s)[i].type = "tool/result" /\ Results(s)[i].id = s.pending[i]
              /\ Results(s)[i].note = IF s.pending[i] \in s.started THEN Unknown ELSE NotStarted
<1>1. s.pending \in Seq(Ids) /\ DOMAIN s.pending = 1..Len(s.pending) /\ Len(s.pending) \in Nat
  BY DEF Cursors
<1>2. \A i \in 1..Len(s.pending) : s.pending[i] \in Ids
  BY <1>1
<1>3. \A i \in 1..Len(s.pending) :
        Results(s)[i] = [type |-> "tool/result", id |-> s.pending[i],
                         note |-> IF s.pending[i] \in s.started THEN Unknown ELSE NotStarted]
  BY <1>1 DEF Results, Event
<1>4. ASSUME NEW i \in 1..Len(s.pending)
      PROVE  /\ Results(s)[i] \in Events
             /\ Results(s)[i].type = "tool/result" /\ Results(s)[i].id = s.pending[i]
             /\ Results(s)[i].note = IF s.pending[i] \in s.started THEN Unknown ELSE NotStarted
  <2>. DEFINE note == IF s.pending[i] \in s.started THEN Unknown ELSE NotStarted
  <2>1. note \in Notes
    BY DEF Notes
  <2>. HIDE DEF note
  <2>2. Results(s)[i] = [type |-> "tool/result", id |-> s.pending[i], note |-> note]
    BY <1>3 DEF note
  <2>3. Results(s)[i] \in Events /\ Results(s)[i].type = "tool/result"
        /\ Results(s)[i].id = s.pending[i] /\ Results(s)[i].note = note
    BY <1>2, <2>1, <2>2 DEF Events, Kinds
  <2>. QED
    BY <2>3 DEF note
<1>5. DOMAIN Results(s) = 1..Len(s.pending) /\ Results(s) = [i \in 1..Len(s.pending) |-> Results(s)[i]]
  BY <1>1 DEF Results
<1>6. Results(s) \in Seq(Events) /\ Len(Results(s)) = Len(s.pending)
  <2>. DEFINE R == Results(s)
  <2>. HIDE DEF R
  <2>1. \A i \in 1..Len(s.pending) : R[i] \in Events
    BY <1>4 DEF R
  <2>2. R = [i \in 1..Len(s.pending) |-> R[i]]
    BY <1>5 DEF R
  <2>3. R \in [1..Len(s.pending) -> Events]
    BY <2>1, <2>2
  <2>4. R \in Seq(Events) /\ Len(R) = Len(s.pending)
    BY <1>1, <2>3
  <2>. QED
    BY <2>4 DEF R
<1>. QED
  BY <1>4, <1>6

\* A closed log is good, and its fold is back at the start.
LEMMA ClosedGood ==
  ASSUME NEW ev, Good(ev), Scan(ev).turn, NEW ew, Closed(ew, ev, Scan(ev))
  PROVE  Good(ew) /\ Scan(ew) = Fresh
<1>. DEFINE s == Scan(ev)
            L == Len(ev)
            P == Len(s.pending)
            E == IF s.step = 0 THEN 0 ELSE 1
            M == L + P + E
<1>1. ew \in Seq(Events) /\ Extends(ew, ev) /\ Len(ew) = L + P + E + 1
  BY DEF Closed
<1>2. /\ \A n \in 1..L : Formed(At(ew, n), ew, n)
      /\ s = At(ew, L) /\ L \in Nat /\ L >= 1
  BY <1>1, GoodOn
<1>3. Formed(s, ew, L)
  BY <1>2
<1>4. s \in Cursors /\ P \in Nat /\ E \in {0, 1} /\ (E = 0 <=> s.step = 0) /\ s.step \in Nat
  BY <1>3 DEF Formed, Cursors
<1>5. \A i \in 1..P : ew[L + i].type = "tool/result" /\ ew[L + i].id = s.pending[i]
  <2>1. \A i \in 1..Len(s.pending) : Results(s)[i].type = "tool/result" /\ Results(s)[i].id = s.pending[i]
    BY <1>4, ResultsType
  <2>2. \A i \in 1..Len(s.pending) : ew[Len(ev) + i] = Results(s)[i]
    BY DEF Closed
  <2>. QED
    BY <2>1, <2>2
<1>6. ew[Len(ew)].type = "turn/end" /\ (s.step # 0 => ew[L + P + 1].type = "step/end")
  BY DEF Closed
<1>7. s.turn
  OBVIOUS
<1>. HIDE DEF s, L, P, E
<1>8. L \in 1..Len(ew) /\ L + P <= Len(ew) /\ Len(ew) \in Nat /\ M \in Nat /\ Len(ew) = M + 1
  BY <1>1, <1>2, <1>4
<1>9. \A k \in 0..P : Formed(At(ew, L + k), ew, L + k) /\ Rest(At(ew, L + k), s, k)
  BY <1>1, <1>2, <1>3, <1>5, <1>7, <1>8, ResultsBlock DEF P
<1>10. Formed(At(ew, L + P), ew, L + P) /\ Rest(At(ew, L + P), s, P)
  BY <1>4, <1>9
<1>11. At(ew, L + P).turn /\ At(ew, L + P).step = s.step /\ At(ew, L + P).pending = <<>>
  <2>1. At(ew, L + P).turn /\ At(ew, L + P).step = s.step /\ Len(At(ew, L + P).pending) = P - P
    BY <1>10 DEF Rest, P
  <2>2. At(ew, L + P).pending \in Seq(Ids)
    BY <1>10 DEF Formed, Cursors
  <2>. QED
    BY <1>4, <2>1, <2>2
<1>12. Formed(At(ew, M), ew, M) /\ At(ew, M).turn /\ At(ew, M).step = 0
  <2>1. CASE s.step = 0
    <3>1. M = L + P
      BY <1>2, <1>4, <2>1
    <3>. QED
      BY <1>10, <1>11, <2>1, <3>1
  <2>2. CASE s.step # 0
    <3>. DEFINE n == L + P
    <3>1. n + 1 = M /\ n \in 1..(Len(ew) - 1)
      BY <1>2, <1>4, <1>8, <2>2
    <3>2. Fits(At(ew, n), ew, n)
      BY <1>6, <1>11, <2>2 DEF Fits, EndFits
    <3>3. Formed(At(ew, n + 1), ew, n + 1) /\ At(ew, n + 1) = Observe(At(ew, n), ew[n + 1])
      BY <1>1, <1>10, <3>1, <3>2, GoodNext
    <3>4. At(ew, n) \in Cursors /\ ew[n + 1] \in Events /\ ew[n + 1].type = "step/end"
      BY <1>1, <1>6, <1>8, <1>10, <2>2, <3>1 DEF Formed
    <3>. HIDE DEF n
    <3>5. Observe(At(ew, n), ew[n + 1]).step = 0
          /\ Observe(At(ew, n), ew[n + 1]).turn = At(ew, n).turn
      BY <3>4, Fields
    <3>6. At(ew, n).turn
      BY <1>11 DEF n
    <3>. QED
      BY <3>1, <3>3, <3>5, <3>6, Zenon
  <2>. QED
    BY <2>1, <2>2
<1>13. M >= 1 /\ M \in 1..(Len(ew) - 1)
  BY <1>2, <1>4, <1>8
<1>14. Formed(At(ew, M + 1), ew, M + 1) /\ At(ew, M + 1) = Observe(At(ew, M), ew[M + 1])
  <2>1. Fits(At(ew, M), ew, M)
    BY <1>6, <1>8, <1>12 DEF Fits, CloseFits
  <2>. QED
    BY <1>1, <1>12, <1>13, <2>1, GoodNext
<1>15. Scan(ew) = Fresh
  <2>1. Observe(At(ew, M), ew[M + 1]) = Fresh
    BY <1>6, <1>8 DEF Observe
  <2>. QED
    BY <1>1, <1>8, <1>14, <2>1, Unfold
<1>16. \A n \in 1..Len(ew) : n \in 1..L \/ (n - L \in 0..P /\ n = L + (n - L)) \/ n = M \/ n = M + 1
  <2>. SUFFICES ASSUME NEW n \in 1..Len(ew), n > L + P, n # M, n # M + 1 PROVE FALSE
    BY <1>2, <1>4, <1>8
  <2>. QED
    BY <1>2, <1>4, <1>8
<1>17. ASSUME NEW n \in 1..Len(ew) PROVE Formed(At(ew, n), ew, n)
  <2>1. CASE n \in 1..L
    BY <1>2, <2>1
  <2>2. CASE n - L \in 0..P /\ n = L + (n - L)
    <3>1. Formed(At(ew, L + (n - L)), ew, L + (n - L))
      BY <1>9, <2>2
    <3>. QED
      BY <2>2, <3>1
  <2>3. CASE n = M \/ n = M + 1
    BY <1>12, <1>14, <2>3
  <2>. QED
    BY <1>16, <2>1, <2>2, <2>3
<1>. QED
  BY <1>1, <1>8, <1>15, <1>17 DEF Good

\* What a crash leaves of a good log is good.
LEMMA GoodPrefix ==
  ASSUME NEW ev, Good(ev), NEW k \in 1..Len(ev)
  PROVE  /\ Good(SubSeq(ev, 1, k)) /\ Len(SubSeq(ev, 1, k)) = k
         /\ \A i \in 1..k : SubSeq(ev, 1, k)[i] = ev[i]
         /\ Scan(SubSeq(ev, 1, k)) = At(ev, k)
<1>. DEFINE ew == SubSeq(ev, 1, k)
<1>1. ev \in Seq(Events) /\ Len(ev) \in Nat /\ k \in Nat /\ k >= 1 /\ k <= Len(ev)
  BY DEF Good
<1>2. ew \in Seq(Events) /\ Len(ew) = k /\ \A i \in 1..k : ew[i] = ev[i]
  BY <1>1
<1>. HIDE DEF ew
<1>3. \A n \in 0..k : At(ew, n) = At(ev, n)
  BY <1>1, <1>2, SamePrefix
<1>4. ASSUME NEW n \in 1..Len(ew) PROVE Formed(At(ew, n), ew, n)
  <2>1. n \in Nat /\ n >= 1 /\ n \in 1..Len(ev) /\ n \in 0..k /\ \A i \in 1..n : ew[i] = ev[i]
    BY <1>1, <1>2
  <2>2. Formed(At(ev, n), ev, n)
    BY <2>1 DEF Good
  <2>3. Formed(At(ev, n), ew, n)
    BY <1>1, <1>2, <2>1, <2>2, FormedPrefix
  <2>. QED
    BY <1>3, <2>1, <2>3
<1>5. Scan(ew) = At(ew, k)
  BY <1>2, Unfold
<1>6. Scan(ew) = At(ev, k)
  BY <1>1, <1>3, <1>5
<1>7. Good(ew)
  BY <1>1, <1>2, <1>4 DEF Good
<1>. QED
  BY <1>2, <1>6, <1>7 DEF ew

\* A turn that just started.
LEMMA StartGood ==
  ASSUME NEW e \in Events, e.type = "turn/start"
  PROVE  Good(<<e>>) /\ Scan(<<e>>).turn /\ Scan(<<e>>).step = 0 /\ Scan(<<e>>).pending = <<>>
<1>. DEFINE ev == <<e>>
            s == At(ev, 1)
<1>1. ev \in Seq(Events) /\ Len(ev) = 1 /\ ev[1] = e
  OBVIOUS
<1>2. s = Observe(Fresh, e) /\ Scan(ev) = s
  <2>1. 1 \in 1..Len(ev) /\ 1 - 1 = 0
    OBVIOUS
  <2>2. At(ev, 0) = Fresh /\ At(ev, 1) = Observe(At(ev, 1 - 1), ev[1]) /\ Scan(ev) = At(ev, Len(ev))
    BY <1>1, <2>1, Unfold
  <2>. QED
    BY <1>1, <2>1, <2>2
<1>3. Observe(Fresh, e) = [pending |-> <<>>, started |-> {}, turn |-> TRUE, step |-> 0]
  BY DEF Observe, Fresh
<1>. HIDE DEF ev, s
<1>4. s \in Cursors /\ s.pending = <<>> /\ s.turn = TRUE /\ s.step = 0
  BY <1>2, <1>3 DEF Cursors
<1>5. PendingOK(s) /\ StepOK(s, ev, 1) /\ TurnOK(s, ev, 1) /\ AnswerOK(s, ev, 1)
  <2>1. PendingOK(s) /\ StepOK(s, ev, 1)
    BY <1>4 DEF PendingOK, StepOK
  <2>2. \A i \in 1..1 : i = 1
    OBVIOUS
  <2>3. AnswerOK(s, ev, 1)
    BY <1>1, <2>2 DEF AnswerOK
  <2>4. s.turn /\ ev[1].type # "turn/end" /\ 1..(1 - 1) = {}
    BY <1>1, <1>4
  <2>5. s.turn = (ev[1].type # "turn/end")
    BY <1>1, <1>4
  <2>6. TurnOK(s, ev, 1)
    BY <2>4, <2>5 DEF TurnOK
  <2>. QED
    BY <2>1, <2>3, <2>6
<1>6. OrderOK(s, ev, 1)
  BY <1>1, <1>4 DEF OrderOK
<1>7. CountOK(s, ev, 1)
  <2>1. Count("step/start", ev, 1) = {} /\ Count("step/end", ev, 1) = {}
    BY <1>1 DEF Count
  <2>2. Cardinality({}) = 0
    BY FS_EmptySet
  <2>3. (IF s.step = 0 THEN 0 ELSE 1) = 0
    BY <1>4
  <2>. QED
    BY <2>1, <2>2, <2>3 DEF CountOK
<1>8. Formed(s, ev, 1)
  BY <1>4, <1>5, <1>6, <1>7 DEF Formed
<1>9. Good(ev)
  <2>1. \A n \in 1..Len(ev) : n = 1
    BY <1>1
  <2>. QED
    BY <1>1, <1>8, <2>1 DEF Good, s
<1>. QED
  BY <1>2, <1>4, <1>9 DEF ev

\* A log that got a call and a result for each unanswered request is good and
\* has no unanswered request.
LEMMA PairsGood ==
  ASSUME NEW ev, Good(ev), Scan(ev).turn, NEW ew \in Seq(Events), Extends(ew, ev),
         Len(ew) = Len(ev) + 2 * Len(Scan(ev).pending),
         \A i \in 1..Len(Scan(ev).pending) :
           /\ ew[Len(ev) + (2 * i - 1)].type = "tool/call"
           /\ ew[Len(ev) + 2 * i].type = "tool/result" /\ ew[Len(ev) + 2 * i].id = Scan(ev).pending[i]
  PROVE  /\ Good(ew) /\ Scan(ew).turn /\ Scan(ew).step = Scan(ev).step /\ Scan(ew).pending = <<>>
         /\ ew[Len(ew)].type # "turn/end"
<1>. DEFINE L == Len(ev)
            s == Scan(ev)
            P == Len(s.pending)
<1>1. /\ s = At(ew, L) /\ L \in Nat /\ L >= 1
      /\ \A n \in 1..L : Formed(At(ew, n), ew, n)
  BY GoodOn
<1>2. Formed(s, ew, L) /\ s \in Cursors /\ P \in Nat /\ s.turn /\ Len(ew) = L + 2 * P /\ L \in 1..Len(ew)
  <2>1. Formed(s, ew, L)
    BY <1>1
  <2>2. s \in Cursors /\ P \in Nat
    BY <2>1 DEF Formed, Cursors
  <2>. QED
    BY <1>1, <2>1, <2>2
<1>3. \A i \in 1..Len(s.pending) :
        /\ ew[L + (2 * i - 1)].type = "tool/call"
        /\ ew[L + 2 * i].type = "tool/result" /\ ew[L + 2 * i].id = s.pending[i]
  OBVIOUS
<1>. HIDE DEF L, s
<1>4. L + 2 * Len(s.pending) <= Len(ew)
  BY <1>1, <1>2
<1>5. /\ \A k \in 0..P : Formed(At(ew, L + 2 * k), ew, L + 2 * k) /\ Rest(At(ew, L + 2 * k), s, k)
      /\ \A k \in 1..P : Formed(At(ew, L + (2 * k - 1)), ew, L + (2 * k - 1))
  <2>1. \A i \in 1..Len(s.pending) : Pair(ew, L, s, i)
    BY <1>3 DEF Pair
  <2>2. (\A k \in 0..Len(s.pending) : Paired(ew, L, s, k)) /\ \A k \in 1..Len(s.pending) : Called(ew, L, k)
    BY <1>1, <1>2, <1>4, <2>1, PairsBlock
  <2>. QED
    BY <2>2 DEF Paired, Called
<1>. HIDE DEF P
<1>6. \A j \in 1..(2 * P) : \E i \in 1..P : j = 2 * i - 1 \/ j = 2 * i
  <2>1. \A j \in 1..(2 * P) : (j + 1) \div 2 \in 1..P
          /\ (j = 2 * ((j + 1) \div 2) - 1 \/ j = 2 * ((j + 1) \div 2))
    BY <1>2
  <2>. QED
    BY <2>1
<1>7. Good(ew)
  <2>1. ASSUME NEW n \in 1..Len(ew), n > L PROVE Formed(At(ew, n), ew, n)
    <3>1. n - L \in 1..(2 * P) /\ n = L + (n - L)
      BY <1>1, <1>2, <2>1
    <3>2. PICK i \in 1..P : n - L = 2 * i - 1 \/ n - L = 2 * i
      BY <1>6, <3>1
    <3>3. CASE n - L = 2 * i - 1
      BY <1>5, <3>1, <3>3
    <3>4. CASE n - L = 2 * i
      <4>1. i \in 0..P
        BY <1>2
      <4>2. Formed(At(ew, L + 2 * i), ew, L + 2 * i)
        BY <1>5, <4>1
      <4>. QED
        BY <3>1, <3>4, <4>2
    <3>. QED
      BY <3>2, <3>3, <3>4
  <2>2. \A n \in 1..Len(ew) : n \in 1..L \/ n > L
    BY <1>1
  <2>3. Len(ew) > 0
    BY <1>1, <1>2
  <2>. QED
    BY <1>1, <2>1, <2>2, <2>3 DEF Good
<1>8. Scan(ew) = At(ew, L + 2 * P)
  BY <1>2, Unfold
<1>9. Formed(Scan(ew), ew, L + 2 * P) /\ Rest(Scan(ew), s, P)
  BY <1>2, <1>5, <1>8
<1>10. Scan(ew).turn /\ Scan(ew).step = s.step /\ Scan(ew).pending = <<>>
  <2>1. Scan(ew).turn /\ Scan(ew).step = s.step /\ Len(Scan(ew).pending) = P - P
    BY <1>2, <1>9 DEF Rest, P
  <2>2. Scan(ew).pending \in Seq(Ids)
    BY <1>9 DEF Formed, Cursors
  <2>. QED
    BY <1>2, <2>1, <2>2
<1>11. ew[Len(ew)].type # "turn/end"
  <2>1. Scan(ew).turn = (ew[L + 2 * P].type # "turn/end")
    BY <1>9 DEF Formed, TurnOK
  <2>2. ew[L + 2 * P].type # "turn/end"
    BY <1>10, <2>1, Zenon
  <2>. QED
    BY <1>2, <2>2
<1>. QED
  BY <1>7, <1>10, <1>11 DEF s


(***************************************************************************)
(* The scheduler                                                           *)
(***************************************************************************)

Sched == {"group", "fill", "prepare", "commit", "race", "drain", "finish"}
InGroup == {"fill", "prepare", "commit", "race", "drain", "finish"}

\* Outside a group nothing is in flight; results and bodies are of started,
\* uncommitted calls.
FlightInv ==
  /\ pc \in {"between", "request", "model", "group", "finish", "returned", "failed", "closed"} =>
       inFlight = {}
  /\ \A c \in 1..MaxCalls :
       slots[c] # None => committed < c /\ c <= nextToStart /\ c \notin flushing /\ c \notin running
  /\ \A c \in flushing \cup running : committed < c /\ c <= nextToStart
  /\ \A c \in inFlight : c <= nextToStart
  /\ flushing \cap running = {}

\* Where the current group is.
GroupInv ==
  /\ pc \in {"group", "finish"} => committed = nextToStart
  /\ pc = "group" => next = nextToStart
  /\ pc \in InGroup => next <= nextToStart /\ nextToStart <= groupEnd /\ groupEnd <= planned
  /\ pc = "prepare" => nextToStart < groupEnd
  /\ pc \notin {"between", "closed", "repaired"} => step # 0

\* A started call is settled or under way, and in front of a filled pool the
\* next call to commit is under way.
KeptInv ==
  /\ pc \in Sched /\ ~schedulerFailure =>
       \A c \in (committed + 1)..nextToStart : slots[c] # None \/ c \in flushing \/ c \in running
  /\ pc \in {"fill", "prepare", "race"} /\ committed < nextToStart => committed + 1 \in inFlight

\* The pool's size.
SizeInv ==
  /\ Cardinality(inFlight) <= maxParallelToolCalls
  /\ pc = "prepare" => Room

\* What may overlap in a group.
AloneInv ==
  /\ pc \in InGroup => \A c \in inFlight : next < c
  /\ pc \in InGroup /\ mode = "exclusive" => groupEnd = next + 1
  /\ pc \in InGroup /\ mode = "parallel" => \A c \in exclusive : c <= next
  /\ pc = "group" => \A c \in exclusive : c <= next
  /\ pc \in {"fill", "commit", "race", "finish"} => \A c \in exclusive : c <= nextToStart
  /\ pc = "prepare" => \A c \in exclusive : c <= nextToStart + 1

\* A call that policy let through, and one it refused.
Launches ==
  /\ pc = "prepare" /\ ~schedulerFailure /\ ~signal
  /\ inFlight' = inFlight \cup {nextToStart + 1} /\ flushing' = flushing \cup {nextToStart + 1}
  /\ nextToStart' = nextToStart + 1
  /\ pc' = "commit"
  /\ UNCHANGED <<log, durable, turn, next, mode, groupEnd, aborted, committed, slots, exclusive,
                 running, dispatched, schedulerFailure>>
Refuses(d) ==
  /\ pc = "prepare" /\ ~schedulerFailure
  /\ slots' = [slots EXCEPT ![nextToStart + 1] = d]
  /\ nextToStart' = nextToStart + 1
  /\ pc' = "commit"
  /\ UNCHANGED <<log, durable, turn, next, mode, groupEnd, aborted, committed, inFlight, flushing,
                 exclusive, running, dispatched, schedulerFailure>>

\* The position of the call's tool/call.
CallAt(c) == CHOOSE i \in DOMAIN log : log[i] = CallEvent(c)

\* A checkpoint after which the body is invoked, and one after which it is not.
Invokes(c) ==
  /\ c \in flushing /\ pc # "repaired" /\ ~signal
  /\ flushing' = flushing \ {c} /\ running' = running \cup {c}
  /\ dispatched' = dispatched \cup {Call(c)} /\ Flushed(CallAt(c))
  /\ UNCHANGED <<log, pc, turn, group, committed, slots, inFlight, exclusive, schedulerFailure>>
Answers(c, d) ==
  /\ c \in flushing /\ pc # "repaired"
  /\ flushing' = flushing \ {c} /\ slots' = [slots EXCEPT ![c] = d]
  /\ Flushed(CallAt(c)) \/ UNCHANGED durable
  /\ UNCHANGED <<log, pc, turn, group, committed, inFlight, running, dispatched, exclusive,
                 schedulerFailure>>

\* The steps of the specification.
LEMMA Steps ==
  ASSUME [Next]_vars
  PROVE  \/ StepStarts
         \/ AdapterCalled
         \/ RequestFails
         \/ (\E n \in 0..MaxCalls : ModelReplies(n))
         \/ StepReturns
         \/ StepFails
         \/ TurnEnds
         \/ Abort
         \/ (\E m \in Modes : GroupStarts(m))
         \/ GroupsDone
         \/ (\E m \in Modes : CallStarts(m))
         \/ (\E m \in Modes : FillEnds(m))
         \/ Launches
         \/ (\E d \in {Failed, Skipped} : Refuses(d))
         \/ SchedulerThrows
         \/ (\E c \in 1..MaxCalls, b \in BOOLEAN : Commits(c, b))
         \/ CommitEnds
         \/ (\E c \in 1..MaxCalls : Invokes(c))
         \/ (\E c \in 1..MaxCalls, d \in {Failed, Skipped} : Answers(c, d))
         \/ (\E c \in 1..MaxCalls : WrapperAnswers(c))
         \/ (\E c \in 1..MaxCalls, r \in {Ok, Failed} : BodySettles(c, r))
         \/ (\E c \in 1..MaxCalls : DispatchRejects(c))
         \/ (\E c \in 1..MaxCalls : RaceSettles(c))
         \/ Drain
         \/ GroupEnds
         \/ (\E k \in 1..Len(log) : Crash(k))
         \/ UNCHANGED vars
<1>1. ASSUME NEW d \in {"dispatch", Failed, Skipped}, Prepared(d)
      PROVE  Launches \/ \E e \in {Failed, Skipped} : Refuses(e)
  <2>1. CASE d = "dispatch"
    BY <1>1, <2>1, Zenon DEF Prepared, Launches
  <2>2. CASE d \in {Failed, Skipped}
    <3>1. d # "dispatch"
      BY <2>2 DEF Failed, Skipped
    <3>2. Refuses(d)
      BY <1>1, <3>1, Zenon DEF Prepared, Refuses
    <3>. QED
      BY <2>2, <3>2
  <2>. QED
    BY <2>1, <2>2
<1>2. ASSUME NEW c \in 1..MaxCalls, NEW f \in BOOLEAN, CheckpointSettles(c, f)
      PROVE  Invokes(c) \/ \E d \in {Failed, Skipped} : Answers(c, d)
  <2>1. CASE f /\ ~signal
    BY <1>2, <2>1, Zenon DEF CheckpointSettles, Invokes, CallAt
  <2>2. CASE ~(f /\ ~signal)
    <3>1. CASE f
      <4>1. Answers(c, Skipped)
        BY <1>2, <2>2, <3>1, Zenon DEF CheckpointSettles, Answers, CallAt
      <4>. QED
        BY <4>1
    <3>2. CASE ~f
      <4>1. Answers(c, Failed)
        BY <1>2, <2>2, <3>2, Zenon DEF CheckpointSettles, Answers
      <4>. QED
        BY <4>1
    <3>. QED
      BY <3>1, <3>2
  <2>. QED
    BY <2>1, <2>2
<1>. QED
  BY <1>1, <1>2, Zenon DEF Next, Turn, Scheduler, Dispatches

\* Types of the step and the group.
LEMMA TypeStepNext ==
  ASSUME TypeStep, TypePool, FlightInv, GroupInv, [Next]_vars
  PROVE  TypeStep'
<1>. USE DEF group, pool, bodies, turn
<1>1. CASE StepStarts
  <2>1. /\ pc = "between" /\ pc' = "request" /\ step' = step + 1 /\ step < MaxSteps
        /\ UNCHANGED <<planned, group, committed, pool, schedulerFailure>>
    BY <1>1, Zenon DEF StepStarts
  <2>. QED
    BY ToolStepAssumption, <2>1 DEF TypeStep
<1>2. CASE AdapterCalled
  BY ToolStepAssumption, <1>2 DEF AdapterCalled, TypeStep, Modes
<1>3. CASE RequestFails
  BY ToolStepAssumption, <1>3 DEF RequestFails, TypeStep, Modes
<1>4. ASSUME NEW n \in 0..MaxCalls, ModelReplies(n)
      PROVE  TypeStep'
  <2>1. /\ pc = "model" /\ pc' = "group" /\ planned' = n /\ FirstGroup
        /\ UNCHANGED <<step, mode, groupEnd, aborted, inFlight, bodies, schedulerFailure>>
    BY <1>4, Zenon DEF ModelReplies
  <2>. QED
    BY ToolStepAssumption, <2>1 DEF FirstGroup, TypeStep
<1>5. CASE StepReturns
  BY ToolStepAssumption, <1>5 DEF StepReturns, TypeStep, Modes
<1>6. CASE StepFails
  BY ToolStepAssumption, <1>6 DEF StepFails, TypeStep, Modes
<1>7. CASE TurnEnds
  BY ToolStepAssumption, <1>7 DEF TurnEnds, TypeStep, Modes
<1>8. CASE Abort
  BY ToolStepAssumption, <1>8 DEF Abort, TypeStep, Modes
<1>9. ASSUME NEW m \in Modes, GroupStarts(m)
      PROVE  TypeStep'
  BY ToolStepAssumption, <1>9 DEF GroupStarts, TypeStep, Modes
<1>10. CASE GroupsDone
  BY ToolStepAssumption, <1>10 DEF GroupsDone, TypeStep, Modes
<1>11. ASSUME NEW m \in Modes, CallStarts(m)
       PROVE  TypeStep'
  BY ToolStepAssumption, <1>11 DEF CallStarts, MayStart, Room, TypeStep, Modes
<1>12. ASSUME NEW m \in Modes, FillEnds(m)
       PROVE  TypeStep'
  BY ToolStepAssumption, <1>12 DEF FillEnds, TypeStep, Modes
<1>13. CASE Launches
  BY ToolStepAssumption, <1>13 DEF Launches, TypeStep, Modes, GroupInv, InGroup
<1>14. ASSUME NEW d \in {Failed, Skipped}, Refuses(d)
       PROVE  TypeStep'
  BY ToolStepAssumption, <1>14 DEF Refuses, TypeStep, Modes, GroupInv, InGroup
<1>15. CASE SchedulerThrows
  BY ToolStepAssumption, <1>15 DEF SchedulerThrows, TypeStep, Modes
<1>16. ASSUME NEW c \in 1..MaxCalls, NEW b \in BOOLEAN, Commits(c, b)
       PROVE  TypeStep'
  BY ToolStepAssumption, <1>16 DEF Commits, Ready, TypeStep, Modes, FlightInv
<1>17. CASE CommitEnds
  BY ToolStepAssumption, <1>17 DEF CommitEnds, Ready, TypeStep, Modes
<1>18. ASSUME NEW c \in 1..MaxCalls, Invokes(c)
       PROVE  TypeStep'
  BY ToolStepAssumption, <1>18 DEF Invokes, TypeStep, Modes
<1>19. ASSUME NEW c \in 1..MaxCalls, NEW d \in {Failed, Skipped}, Answers(c, d)
       PROVE  TypeStep'
  BY ToolStepAssumption, <1>19 DEF Answers, TypeStep, Modes
<1>20. ASSUME NEW c \in 1..MaxCalls, WrapperAnswers(c)
       PROVE  TypeStep'
  BY ToolStepAssumption, <1>20 DEF WrapperAnswers, Outcome, Cancelled, TypeStep, Modes
<1>21. ASSUME NEW c \in 1..MaxCalls, NEW r \in {Ok, Failed}, BodySettles(c, r)
       PROVE  TypeStep'
  BY ToolStepAssumption, <1>21 DEF BodySettles, Outcome, Cancelled, TypeStep, Modes
<1>22. ASSUME NEW c \in 1..MaxCalls, DispatchRejects(c)
       PROVE  TypeStep'
  BY ToolStepAssumption, <1>22 DEF DispatchRejects, TypeStep, Modes
<1>23. ASSUME NEW c \in 1..MaxCalls, RaceSettles(c)
       PROVE  TypeStep'
  BY ToolStepAssumption, <1>23 DEF RaceSettles, TypeStep, Modes
<1>24. CASE Drain
  BY ToolStepAssumption, <1>24 DEF Drain, Drains, TypeStep, Modes
<1>25. CASE GroupEnds
  BY ToolStepAssumption, <1>25 DEF GroupEnds, TypeStep, Modes, GroupInv, InGroup
<1>26. ASSUME NEW k \in 1..Len(log), Crash(k)
       PROVE  TypeStep'
  BY ToolStepAssumption, <1>26 DEF Crash, TypeStep, Modes
<1>27. CASE UNCHANGED vars
  BY ToolStepAssumption, <1>27 DEF vars, TypeStep, Modes
<1>. QED
  BY Steps, <1>1, <1>2, <1>3, <1>4, <1>5, <1>6, <1>7, <1>8, <1>9, <1>10, <1>11, <1>12,
     <1>13, <1>14, <1>15, <1>16, <1>17, <1>18, <1>19, <1>20, <1>21, <1>22, <1>23, <1>24,
     <1>25, <1>26, <1>27, Zenon

\* Types of the pool.
LEMMA TypePoolNext ==
  ASSUME TypePool, TypeStep, GroupInv, FlightInv, [Next]_vars
  PROVE  TypePool'
<1>. USE DEF group, pool, bodies, turn
<1>1. CASE StepStarts
  BY ToolStepAssumption, <1>1 DEF StepStarts, TypePool, None, Ok, Failed, Aborted,
    Skipped
<1>2. CASE AdapterCalled
  BY ToolStepAssumption, <1>2 DEF AdapterCalled, TypePool, None, Ok, Failed, Aborted,
    Skipped
<1>3. CASE RequestFails
  BY ToolStepAssumption, <1>3 DEF RequestFails, TypePool, None, Ok, Failed, Aborted,
    Skipped
<1>4. ASSUME NEW n \in 0..MaxCalls, ModelReplies(n)
      PROVE  TypePool'
  BY ToolStepAssumption, <1>4 DEF ModelReplies, FirstGroup, TypePool, None, Ok, Failed,
    Aborted, Skipped, FlightInv
<1>5. CASE StepReturns
  BY ToolStepAssumption, <1>5 DEF StepReturns, TypePool, None, Ok, Failed, Aborted,
    Skipped
<1>6. CASE StepFails
  BY ToolStepAssumption, <1>6 DEF StepFails, TypePool, None, Ok, Failed, Aborted,
    Skipped
<1>7. CASE TurnEnds
  BY ToolStepAssumption, <1>7 DEF TurnEnds, TypePool, None, Ok, Failed, Aborted, Skipped
<1>8. CASE Abort
  BY ToolStepAssumption, <1>8 DEF Abort, TypePool, None, Ok, Failed, Aborted, Skipped
<1>9. ASSUME NEW m \in Modes, GroupStarts(m)
      PROVE  TypePool'
  BY ToolStepAssumption, <1>9 DEF GroupStarts, TypePool, None, Ok, Failed, Aborted,
    Skipped
<1>10. CASE GroupsDone
  BY ToolStepAssumption, <1>10 DEF GroupsDone, TypePool, None, Ok, Failed, Aborted,
    Skipped
<1>11. ASSUME NEW m \in Modes, CallStarts(m)
       PROVE  TypePool'
  BY ToolStepAssumption, <1>11 DEF CallStarts, MayStart, Room, TypePool, None, Ok,
    Failed, Aborted, Skipped, GroupInv, InGroup, TypeStep
<1>12. ASSUME NEW m \in Modes, FillEnds(m)
       PROVE  TypePool'
  BY ToolStepAssumption, <1>12 DEF FillEnds, TypePool, None, Ok, Failed, Aborted,
    Skipped
<1>13. CASE Launches
  BY ToolStepAssumption, <1>13 DEF Launches, TypePool, None, Ok, Failed, Aborted,
    Skipped, GroupInv, InGroup, TypeStep
<1>14. ASSUME NEW d \in {Failed, Skipped}, Refuses(d)
       PROVE  TypePool'
  BY ToolStepAssumption, <1>14 DEF Refuses, TypePool, None, Ok, Failed, Aborted,
    Skipped, GroupInv, InGroup, TypeStep
<1>15. CASE SchedulerThrows
  BY ToolStepAssumption, <1>15 DEF SchedulerThrows, TypePool, None, Ok, Failed, Aborted,
    Skipped
<1>16. ASSUME NEW c \in 1..MaxCalls, NEW b \in BOOLEAN, Commits(c, b)
       PROVE  TypePool'
  BY ToolStepAssumption, <1>16 DEF Commits, Ready, TypePool, None, Ok, Failed, Aborted,
    Skipped
<1>17. CASE CommitEnds
  BY ToolStepAssumption, <1>17 DEF CommitEnds, Ready, TypePool, None, Ok, Failed,
    Aborted, Skipped
<1>18. ASSUME NEW c \in 1..MaxCalls, Invokes(c)
       PROVE  TypePool'
  BY ToolStepAssumption, <1>18 DEF Invokes, TypePool, None, Ok, Failed, Aborted, Skipped
<1>19. ASSUME NEW c \in 1..MaxCalls, NEW d \in {Failed, Skipped}, Answers(c, d)
       PROVE  TypePool'
  BY ToolStepAssumption, <1>19 DEF Answers, TypePool, None, Ok, Failed, Aborted, Skipped
<1>20. ASSUME NEW c \in 1..MaxCalls, WrapperAnswers(c)
       PROVE  TypePool'
  BY ToolStepAssumption, <1>20 DEF WrapperAnswers, Outcome, Cancelled, TypePool, None,
    Ok, Failed, Aborted, Skipped
<1>21. ASSUME NEW c \in 1..MaxCalls, NEW r \in {Ok, Failed}, BodySettles(c, r)
       PROVE  TypePool'
  BY ToolStepAssumption, <1>21 DEF BodySettles, Outcome, Cancelled, TypePool, None, Ok,
    Failed, Aborted, Skipped
<1>22. ASSUME NEW c \in 1..MaxCalls, DispatchRejects(c)
       PROVE  TypePool'
  BY ToolStepAssumption, <1>22 DEF DispatchRejects, TypePool, None, Ok, Failed, Aborted,
    Skipped
<1>23. ASSUME NEW c \in 1..MaxCalls, RaceSettles(c)
       PROVE  TypePool'
  BY ToolStepAssumption, <1>23 DEF RaceSettles, TypePool, None, Ok, Failed, Aborted,
    Skipped
<1>24. CASE Drain
  BY ToolStepAssumption, <1>24 DEF Drain, Drains, TypePool, None, Ok, Failed, Aborted,
    Skipped
<1>25. CASE GroupEnds
  BY ToolStepAssumption, <1>25 DEF GroupEnds, TypePool, None, Ok, Failed, Aborted,
    Skipped
<1>26. ASSUME NEW k \in 1..Len(log), Crash(k)
       PROVE  TypePool'
  BY ToolStepAssumption, <1>26 DEF Crash, TypePool, None, Ok, Failed, Aborted, Skipped
<1>27. CASE UNCHANGED vars
  BY ToolStepAssumption, <1>27 DEF vars, TypePool, None, Ok, Failed, Aborted, Skipped
<1>. QED
  BY Steps, <1>1, <1>2, <1>3, <1>4, <1>5, <1>6, <1>7, <1>8, <1>9, <1>10, <1>11, <1>12,
     <1>13, <1>14, <1>15, <1>16, <1>17, <1>18, <1>19, <1>20, <1>21, <1>22, <1>23, <1>24,
     <1>25, <1>26, <1>27, Zenon

\* Types of the flags.
LEMMA TypeFlagsNext ==
  ASSUME TypeFlags, [Next]_vars
  PROVE  TypeFlags'
<1>. USE DEF group, pool, bodies, turn
<1>1. CASE StepStarts
  BY <1>1 DEF StepStarts, TypeFlags
<1>2. CASE AdapterCalled
  BY <1>2 DEF AdapterCalled, TypeFlags
<1>3. CASE RequestFails
  BY <1>3 DEF RequestFails, TypeFlags
<1>4. ASSUME NEW n \in 0..MaxCalls, ModelReplies(n)
      PROVE  TypeFlags'
  BY <1>4 DEF ModelReplies, FirstGroup, TypeFlags
<1>5. CASE StepReturns
  BY <1>5 DEF StepReturns, TypeFlags
<1>6. CASE StepFails
  BY <1>6 DEF StepFails, TypeFlags
<1>7. CASE TurnEnds
  BY <1>7 DEF TurnEnds, TypeFlags
<1>8. CASE Abort
  BY <1>8 DEF Abort, TypeFlags
<1>9. ASSUME NEW m \in Modes, GroupStarts(m)
      PROVE  TypeFlags'
  BY <1>9 DEF GroupStarts, TypeFlags
<1>10. CASE GroupsDone
  BY <1>10 DEF GroupsDone, TypeFlags
<1>11. ASSUME NEW m \in Modes, CallStarts(m)
       PROVE  TypeFlags'
  BY <1>11 DEF CallStarts, MayStart, Room, TypeFlags
<1>12. ASSUME NEW m \in Modes, FillEnds(m)
       PROVE  TypeFlags'
  BY <1>12 DEF FillEnds, TypeFlags
<1>13. CASE Launches
  BY <1>13 DEF Launches, TypeFlags
<1>14. ASSUME NEW d \in {Failed, Skipped}, Refuses(d)
       PROVE  TypeFlags'
  BY <1>14 DEF Refuses, TypeFlags
<1>15. CASE SchedulerThrows
  BY <1>15 DEF SchedulerThrows, TypeFlags
<1>16. ASSUME NEW c \in 1..MaxCalls, NEW b \in BOOLEAN, Commits(c, b)
       PROVE  TypeFlags'
  BY <1>16 DEF Commits, Ready, TypeFlags
<1>17. CASE CommitEnds
  BY <1>17 DEF CommitEnds, Ready, TypeFlags
<1>18. ASSUME NEW c \in 1..MaxCalls, Invokes(c)
       PROVE  TypeFlags'
  BY <1>18 DEF Invokes, TypeFlags
<1>19. ASSUME NEW c \in 1..MaxCalls, NEW d \in {Failed, Skipped}, Answers(c, d)
       PROVE  TypeFlags'
  BY <1>19 DEF Answers, TypeFlags
<1>20. ASSUME NEW c \in 1..MaxCalls, WrapperAnswers(c)
       PROVE  TypeFlags'
  BY <1>20 DEF WrapperAnswers, Outcome, Cancelled, TypeFlags
<1>21. ASSUME NEW c \in 1..MaxCalls, NEW r \in {Ok, Failed}, BodySettles(c, r)
       PROVE  TypeFlags'
  BY <1>21 DEF BodySettles, Outcome, Cancelled, TypeFlags
<1>22. ASSUME NEW c \in 1..MaxCalls, DispatchRejects(c)
       PROVE  TypeFlags'
  BY <1>22 DEF DispatchRejects, TypeFlags
<1>23. ASSUME NEW c \in 1..MaxCalls, RaceSettles(c)
       PROVE  TypeFlags'
  BY <1>23 DEF RaceSettles, TypeFlags
<1>24. CASE Drain
  BY <1>24 DEF Drain, Drains, TypeFlags
<1>25. CASE GroupEnds
  BY <1>25 DEF GroupEnds, TypeFlags
<1>26. ASSUME NEW k \in 1..Len(log), Crash(k)
       PROVE  TypeFlags'
  BY <1>26 DEF Crash, TypeFlags
<1>27. CASE UNCHANGED vars
  BY <1>27 DEF vars, TypeFlags
<1>. QED
  BY Steps, <1>1, <1>2, <1>3, <1>4, <1>5, <1>6, <1>7, <1>8, <1>9, <1>10, <1>11, <1>12,
     <1>13, <1>14, <1>15, <1>16, <1>17, <1>18, <1>19, <1>20, <1>21, <1>22, <1>23, <1>24,
     <1>25, <1>26, <1>27, Zenon

\* Nothing is in flight outside a group.
LEMMA FlightNext ==
  ASSUME TypeStep, TypePool, FlightInv, GroupInv, [Next]_vars
  PROVE  FlightInv'
<1>. USE DEF group, pool, bodies, turn
<1>1. CASE StepStarts
  BY <1>1 DEF StepStarts, FlightInv, TypePool, TypeStep, None, Ok, Failed, Aborted,
    Skipped
<1>2. CASE AdapterCalled
  BY <1>2 DEF AdapterCalled, FlightInv, TypePool, TypeStep, None, Ok, Failed, Aborted,
    Skipped
<1>3. CASE RequestFails
  BY <1>3 DEF RequestFails, FlightInv, TypePool, TypeStep, None, Ok, Failed, Aborted,
    Skipped
<1>4. ASSUME NEW n \in 0..MaxCalls, ModelReplies(n)
      PROVE  FlightInv'
  BY <1>4 DEF ModelReplies, FirstGroup, FlightInv, TypePool, TypeStep, None, Ok, Failed,
    Aborted, Skipped
<1>5. CASE StepReturns
  BY <1>5 DEF StepReturns, FlightInv, TypePool, TypeStep, None, Ok, Failed, Aborted,
    Skipped
<1>6. CASE StepFails
  BY <1>6 DEF StepFails, FlightInv, TypePool, TypeStep, None, Ok, Failed, Aborted,
    Skipped
<1>7. CASE TurnEnds
  BY <1>7 DEF TurnEnds, FlightInv, TypePool, TypeStep, None, Ok, Failed, Aborted,
    Skipped
<1>8. CASE Abort
  BY <1>8 DEF Abort, FlightInv, TypePool, TypeStep, None, Ok, Failed, Aborted, Skipped
<1>9. ASSUME NEW m \in Modes, GroupStarts(m)
      PROVE  FlightInv'
  BY <1>9 DEF GroupStarts, FlightInv, TypePool, TypeStep, None, Ok, Failed, Aborted,
    Skipped
<1>10. CASE GroupsDone
  BY <1>10 DEF GroupsDone, FlightInv, TypePool, TypeStep, None, Ok, Failed, Aborted,
    Skipped
<1>11. ASSUME NEW m \in Modes, CallStarts(m)
       PROVE  FlightInv'
  BY <1>11 DEF CallStarts, MayStart, Room, FlightInv, TypePool, TypeStep, None, Ok,
    Failed, Aborted, Skipped
<1>12. ASSUME NEW m \in Modes, FillEnds(m)
       PROVE  FlightInv'
  BY <1>12 DEF FillEnds, FlightInv, TypePool, TypeStep, None, Ok, Failed, Aborted,
    Skipped
<1>13. CASE Launches
  BY <1>13 DEF Launches, FlightInv, TypePool, TypeStep, None, Ok, Failed, Aborted,
    Skipped, GroupInv, InGroup
<1>14. ASSUME NEW d \in {Failed, Skipped}, Refuses(d)
       PROVE  FlightInv'
  BY <1>14 DEF Refuses, FlightInv, TypePool, TypeStep, None, Ok, Failed, Aborted,
    Skipped, GroupInv, InGroup
<1>15. CASE SchedulerThrows
  BY <1>15 DEF SchedulerThrows, FlightInv, TypePool, TypeStep, None, Ok, Failed,
    Aborted, Skipped
<1>16. ASSUME NEW c \in 1..MaxCalls, NEW b \in BOOLEAN, Commits(c, b)
       PROVE  FlightInv'
  BY <1>16 DEF Commits, Ready, FlightInv, TypePool, TypeStep, None, Ok, Failed, Aborted,
    Skipped
<1>17. CASE CommitEnds
  BY <1>17 DEF CommitEnds, Ready, FlightInv, TypePool, TypeStep, None, Ok, Failed,
    Aborted, Skipped
<1>18. ASSUME NEW c \in 1..MaxCalls, Invokes(c)
       PROVE  FlightInv'
  BY <1>18 DEF Invokes, FlightInv, TypePool, TypeStep, None, Ok, Failed, Aborted,
    Skipped
<1>19. ASSUME NEW c \in 1..MaxCalls, NEW d \in {Failed, Skipped}, Answers(c, d)
       PROVE  FlightInv'
  BY <1>19 DEF Answers, FlightInv, TypePool, TypeStep, None, Ok, Failed, Aborted,
    Skipped
<1>20. ASSUME NEW c \in 1..MaxCalls, WrapperAnswers(c)
       PROVE  FlightInv'
  BY <1>20 DEF WrapperAnswers, Outcome, Cancelled, FlightInv, TypePool, TypeStep, None,
    Ok, Failed, Aborted, Skipped
<1>21. ASSUME NEW c \in 1..MaxCalls, NEW r \in {Ok, Failed}, BodySettles(c, r)
       PROVE  FlightInv'
  BY <1>21 DEF BodySettles, Outcome, Cancelled, FlightInv, TypePool, TypeStep, None, Ok,
    Failed, Aborted, Skipped
<1>22. ASSUME NEW c \in 1..MaxCalls, DispatchRejects(c)
       PROVE  FlightInv'
  BY <1>22 DEF DispatchRejects, FlightInv, TypePool, TypeStep, None, Ok, Failed,
    Aborted, Skipped
<1>23. ASSUME NEW c \in 1..MaxCalls, RaceSettles(c)
       PROVE  FlightInv'
  BY <1>23 DEF RaceSettles, FlightInv, TypePool, TypeStep, None, Ok, Failed, Aborted,
    Skipped
<1>24. CASE Drain
  BY <1>24 DEF Drain, Drains, FlightInv, TypePool, TypeStep, None, Ok, Failed, Aborted,
    Skipped
<1>25. CASE GroupEnds
  BY <1>25 DEF GroupEnds, FlightInv, TypePool, TypeStep, None, Ok, Failed, Aborted,
    Skipped
<1>26. ASSUME NEW k \in 1..Len(log), Crash(k)
       PROVE  FlightInv'
  BY <1>26 DEF Crash, FlightInv, TypePool, TypeStep, None, Ok, Failed, Aborted, Skipped
<1>27. CASE UNCHANGED vars
  BY <1>27 DEF vars, FlightInv, TypePool, TypeStep, None, Ok, Failed, Aborted, Skipped
<1>. QED
  BY Steps, <1>1, <1>2, <1>3, <1>4, <1>5, <1>6, <1>7, <1>8, <1>9, <1>10, <1>11, <1>12,
     <1>13, <1>14, <1>15, <1>16, <1>17, <1>18, <1>19, <1>20, <1>21, <1>22, <1>23, <1>24,
     <1>25, <1>26, <1>27, Zenon

\* The group stays inside the plan.
LEMMA GroupNext ==
  ASSUME TypeStep, TypePool, FlightInv, GroupInv, KeptInv, [Next]_vars
  PROVE  GroupInv'
<1>. USE DEF group, pool, bodies, turn
<1>1. CASE StepStarts
  <2>1. /\ pc = "between" /\ pc' = "request" /\ step' = step + 1 /\ step < MaxSteps
        /\ UNCHANGED <<planned, group, committed, pool, schedulerFailure>>
    BY <1>1, Zenon DEF StepStarts
  <2>. QED
    BY ToolStepAssumption, <2>1 DEF GroupInv, TypeStep, InGroup
<1>2. CASE AdapterCalled
  BY <1>2 DEF AdapterCalled, GroupInv, TypeStep, InGroup
<1>3. CASE RequestFails
  BY <1>3 DEF RequestFails, GroupInv, TypeStep, InGroup
<1>4. ASSUME NEW n \in 0..MaxCalls, ModelReplies(n)
      PROVE  GroupInv'
  BY <1>4 DEF ModelReplies, FirstGroup, GroupInv, TypeStep, InGroup
<1>5. CASE StepReturns
  BY <1>5 DEF StepReturns, GroupInv, TypeStep, InGroup
<1>6. CASE StepFails
  BY <1>6 DEF StepFails, GroupInv, TypeStep, InGroup
<1>7. CASE TurnEnds
  BY <1>7 DEF TurnEnds, GroupInv, TypeStep, InGroup
<1>8. CASE Abort
  BY <1>8 DEF Abort, GroupInv, TypeStep, InGroup
<1>9. ASSUME NEW m \in Modes, GroupStarts(m)
      PROVE  GroupInv'
  BY <1>9 DEF GroupStarts, GroupInv, TypeStep, InGroup
<1>10. CASE GroupsDone
  BY <1>10 DEF GroupsDone, GroupInv, TypeStep, InGroup
<1>11. ASSUME NEW m \in Modes, CallStarts(m)
       PROVE  GroupInv'
  BY <1>11 DEF CallStarts, MayStart, Room, GroupInv, TypeStep, InGroup
<1>12. ASSUME NEW m \in Modes, FillEnds(m)
       PROVE  GroupInv'
  BY <1>12 DEF FillEnds, GroupInv, TypeStep, InGroup, KeptInv
<1>13. CASE Launches
  BY <1>13 DEF Launches, GroupInv, TypeStep, InGroup
<1>14. ASSUME NEW d \in {Failed, Skipped}, Refuses(d)
       PROVE  GroupInv'
  BY <1>14 DEF Refuses, GroupInv, TypeStep, InGroup
<1>15. CASE SchedulerThrows
  BY <1>15 DEF SchedulerThrows, GroupInv, TypeStep, InGroup
<1>16. ASSUME NEW c \in 1..MaxCalls, NEW b \in BOOLEAN, Commits(c, b)
       PROVE  GroupInv'
  BY <1>16 DEF Commits, Ready, GroupInv, TypeStep, InGroup, FlightInv
<1>17. CASE CommitEnds
  BY <1>17 DEF CommitEnds, Ready, GroupInv, TypeStep, InGroup
<1>18. ASSUME NEW c \in 1..MaxCalls, Invokes(c)
       PROVE  GroupInv'
  BY <1>18 DEF Invokes, GroupInv, TypeStep, InGroup
<1>19. ASSUME NEW c \in 1..MaxCalls, NEW d \in {Failed, Skipped}, Answers(c, d)
       PROVE  GroupInv'
  BY <1>19 DEF Answers, GroupInv, TypeStep, InGroup
<1>20. ASSUME NEW c \in 1..MaxCalls, WrapperAnswers(c)
       PROVE  GroupInv'
  BY <1>20 DEF WrapperAnswers, Outcome, Cancelled, GroupInv, TypeStep, InGroup
<1>21. ASSUME NEW c \in 1..MaxCalls, NEW r \in {Ok, Failed}, BodySettles(c, r)
       PROVE  GroupInv'
  BY <1>21 DEF BodySettles, Outcome, Cancelled, GroupInv, TypeStep, InGroup
<1>22. ASSUME NEW c \in 1..MaxCalls, DispatchRejects(c)
       PROVE  GroupInv'
  BY <1>22 DEF DispatchRejects, GroupInv, TypeStep, InGroup
<1>23. ASSUME NEW c \in 1..MaxCalls, RaceSettles(c)
       PROVE  GroupInv'
  BY <1>23 DEF RaceSettles, GroupInv, TypeStep, InGroup
<1>24. CASE Drain
  BY <1>24 DEF Drain, Drains, GroupInv, TypeStep, InGroup
<1>25. CASE GroupEnds
  BY <1>25 DEF GroupEnds, GroupInv, TypeStep, InGroup
<1>26. ASSUME NEW k \in 1..Len(log), Crash(k)
       PROVE  GroupInv'
  BY <1>26 DEF Crash, GroupInv, TypeStep, InGroup
<1>27. CASE UNCHANGED vars
  BY <1>27 DEF vars, GroupInv, TypeStep, InGroup
<1>. QED
  BY Steps, <1>1, <1>2, <1>3, <1>4, <1>5, <1>6, <1>7, <1>8, <1>9, <1>10, <1>11, <1>12,
     <1>13, <1>14, <1>15, <1>16, <1>17, <1>18, <1>19, <1>20, <1>21, <1>22, <1>23, <1>24,
     <1>25, <1>26, <1>27, Zenon

\* No started call is forgotten.
LEMMA KeptNext ==
  ASSUME TypeStep, TypePool, TypeFlags, FlightInv, GroupInv, KeptInv, [Next]_vars
  PROVE  KeptInv'
<1>. USE DEF group, pool, bodies, turn
<1>1. CASE StepStarts
  BY <1>1 DEF StepStarts, KeptInv, TypePool, TypeStep, Sched, InGroup, None, Ok, Failed,
    Aborted, Skipped
<1>2. CASE AdapterCalled
  BY <1>2 DEF AdapterCalled, KeptInv, TypePool, TypeStep, Sched, InGroup, None, Ok,
    Failed, Aborted, Skipped
<1>3. CASE RequestFails
  BY <1>3 DEF RequestFails, KeptInv, TypePool, TypeStep, Sched, InGroup, None, Ok,
    Failed, Aborted, Skipped
<1>4. ASSUME NEW n \in 0..MaxCalls, ModelReplies(n)
      PROVE  KeptInv'
  <2>1. /\ pc = "model" /\ pc' = "group" /\ planned' = n /\ FirstGroup
        /\ UNCHANGED <<step, mode, groupEnd, aborted, inFlight, bodies, schedulerFailure>>
    BY <1>4, Zenon DEF ModelReplies
  <2>. QED
    BY ToolStepAssumption, <2>1 DEF FirstGroup, KeptInv
<1>5. CASE StepReturns
  BY <1>5 DEF StepReturns, KeptInv, TypePool, TypeStep, Sched, InGroup, None, Ok,
    Failed, Aborted, Skipped
<1>6. CASE StepFails
  BY <1>6 DEF StepFails, KeptInv, TypePool, TypeStep, Sched, InGroup, None, Ok, Failed,
    Aborted, Skipped
<1>7. CASE TurnEnds
  BY <1>7 DEF TurnEnds, KeptInv, TypePool, TypeStep, Sched, InGroup, None, Ok, Failed,
    Aborted, Skipped
<1>8. CASE Abort
  BY <1>8 DEF Abort, KeptInv, TypePool, TypeStep, Sched, InGroup, None, Ok, Failed,
    Aborted, Skipped
<1>9. ASSUME NEW m \in Modes, GroupStarts(m)
      PROVE  KeptInv'
  BY <1>9 DEF GroupStarts, KeptInv, TypePool, TypeStep, Sched, InGroup, None, Ok,
    Failed, Aborted, Skipped, GroupInv
<1>10. CASE GroupsDone
  BY <1>10 DEF GroupsDone, KeptInv, TypePool, TypeStep, Sched, InGroup, None, Ok,
    Failed, Aborted, Skipped
<1>11. ASSUME NEW m \in Modes, CallStarts(m)
       PROVE  KeptInv'
  BY <1>11 DEF CallStarts, MayStart, Room, KeptInv, TypePool, TypeStep, Sched, InGroup,
    None, Ok, Failed, Aborted, Skipped
<1>12. ASSUME NEW m \in Modes, FillEnds(m)
       PROVE  KeptInv'
  BY <1>12 DEF FillEnds, KeptInv, TypePool, TypeStep, Sched, InGroup, None, Ok, Failed,
    Aborted, Skipped
<1>13. CASE Launches
  BY <1>13 DEF Launches, KeptInv, TypePool, TypeStep, Sched, InGroup, None, Ok, Failed,
    Aborted, Skipped
<1>14. ASSUME NEW d \in {Failed, Skipped}, Refuses(d)
       PROVE  KeptInv'
  <2>1. /\ slots' = [slots EXCEPT ![nextToStart + 1] = d] /\ nextToStart' = nextToStart + 1
        /\ pc = "prepare" /\ pc' = "commit" /\ d # None
        /\ UNCHANGED <<committed, flushing, running, schedulerFailure>>
    BY <1>14 DEF Refuses, None, Failed, Skipped
  <2>2. nextToStart + 1 \in 1..MaxCalls /\ nextToStart \in Nat /\ committed \in Nat
    BY ToolStepAssumption, <2>1 DEF TypeStep, GroupInv, InGroup
  <2>3. slots'[nextToStart + 1] = d /\ \A c \in 1..MaxCalls : c # nextToStart + 1 => slots'[c] = slots[c]
    BY <2>1, <2>2 DEF TypePool
  <2>4. ASSUME ~schedulerFailure, NEW c \in (committed + 1)..(nextToStart + 1)
        PROVE  slots'[c] # None \/ c \in flushing \/ c \in running
    <3>1. CASE c = nextToStart + 1
      BY <2>1, <2>3, <3>1
    <3>2. CASE c # nextToStart + 1
      <4>1. c \in (committed + 1)..nextToStart /\ c \in 1..MaxCalls
        BY ToolStepAssumption, <2>2, <3>2 DEF TypeStep
      <4>. QED
        BY <2>1, <2>3, <2>4, <3>2, <4>1 DEF KeptInv, Sched
    <3>. QED
      BY <3>1, <3>2
  <2>. QED
    BY <2>1, <2>4 DEF KeptInv
<1>15. CASE SchedulerThrows
  BY <1>15 DEF SchedulerThrows, KeptInv, TypePool, TypeStep, Sched, InGroup, None, Ok,
    Failed, Aborted, Skipped
<1>16. ASSUME NEW c \in 1..MaxCalls, NEW b \in BOOLEAN, Commits(c, b)
       PROVE  KeptInv'
  BY <1>16 DEF Commits, Ready, KeptInv, TypePool, TypeStep, Sched, InGroup, None, Ok,
    Failed, Aborted, Skipped, FlightInv
<1>17. CASE CommitEnds
  <2>1. /\ pc = "commit" /\ pc' = "fill" /\ ~schedulerFailure
        /\ UNCHANGED <<committed, nextToStart, slots, flushing, running, inFlight, schedulerFailure>>
    BY <1>17 DEF CommitEnds
  <2>2. ASSUME committed < nextToStart PROVE committed + 1 \in inFlight
    <3>1. committed + 1 \in (committed + 1)..nextToStart /\ committed + 1 \in 1..MaxCalls
      BY ToolStepAssumption, <2>2 DEF TypeStep
    <3>2. slots[committed + 1] = None
      BY <1>17, <3>1 DEF CommitEnds, Ready
    <3>. QED
      BY <2>1, <3>1, <3>2 DEF KeptInv, Sched, TypePool
  <2>. QED
    BY <2>1, <2>2 DEF KeptInv, Sched
<1>18. ASSUME NEW c \in 1..MaxCalls, Invokes(c)
       PROVE  KeptInv'
  BY <1>18 DEF Invokes, KeptInv, TypePool, TypeStep, Sched, InGroup, None, Ok, Failed,
    Aborted, Skipped
<1>19. ASSUME NEW c \in 1..MaxCalls, NEW d \in {Failed, Skipped}, Answers(c, d)
       PROVE  KeptInv'
  BY <1>19 DEF Answers, KeptInv, TypePool, TypeStep, Sched, InGroup, None, Ok, Failed,
    Aborted, Skipped
<1>20. ASSUME NEW c \in 1..MaxCalls, WrapperAnswers(c)
       PROVE  KeptInv'
  BY <1>20 DEF WrapperAnswers, Outcome, Cancelled, KeptInv, TypePool, TypeStep, Sched,
    InGroup, None, Ok, Failed, Aborted, Skipped
<1>21. ASSUME NEW c \in 1..MaxCalls, NEW r \in {Ok, Failed}, BodySettles(c, r)
       PROVE  KeptInv'
  BY <1>21 DEF BodySettles, Outcome, Cancelled, KeptInv, TypePool, TypeStep, Sched,
    InGroup, None, Ok, Failed, Aborted, Skipped
<1>22. ASSUME NEW c \in 1..MaxCalls, DispatchRejects(c)
       PROVE  KeptInv'
  BY <1>22 DEF DispatchRejects, KeptInv, TypePool, TypeStep, Sched, InGroup, None, Ok,
    Failed, Aborted, Skipped
<1>23. ASSUME NEW c \in 1..MaxCalls, RaceSettles(c)
       PROVE  KeptInv'
  BY <1>23 DEF RaceSettles, KeptInv, TypePool, TypeStep, Sched, InGroup, None, Ok,
    Failed, Aborted, Skipped, FlightInv
<1>24. CASE Drain
  BY <1>24 DEF Drain, Drains, KeptInv, TypePool, TypeStep, Sched, InGroup, None, Ok,
    Failed, Aborted, Skipped
<1>25. CASE GroupEnds
  BY <1>25 DEF GroupEnds, KeptInv, TypePool, TypeStep, Sched, InGroup, None, Ok, Failed,
    Aborted, Skipped
<1>26. ASSUME NEW k \in 1..Len(log), Crash(k)
       PROVE  KeptInv'
  BY <1>26 DEF Crash, KeptInv, TypePool, TypeStep, Sched, InGroup, None, Ok, Failed,
    Aborted, Skipped
<1>27. CASE UNCHANGED vars
  BY <1>27 DEF vars, KeptInv, TypePool, TypeStep, Sched, InGroup, None, Ok, Failed,
    Aborted, Skipped
<1>. QED
  BY Steps, <1>1, <1>2, <1>3, <1>4, <1>5, <1>6, <1>7, <1>8, <1>9, <1>10, <1>11, <1>12,
     <1>13, <1>14, <1>15, <1>16, <1>17, <1>18, <1>19, <1>20, <1>21, <1>22, <1>23, <1>24,
     <1>25, <1>26, <1>27, Zenon

\* The pool is finite.
LEMMA Finite ==
  ASSUME TypePool
  PROVE  /\ IsFiniteSet(inFlight) /\ Cardinality(inFlight) \in Nat
         /\ IsFiniteSet(running) /\ Cardinality(running) \in Nat
         /\ Cardinality(running) <= Cardinality(inFlight)
<1>1. IsFiniteSet(1..MaxCalls)
  BY ToolStepAssumption, FS_Interval
<1>2. IsFiniteSet(inFlight)
  BY <1>1, FS_Subset DEF TypePool
<1>3. IsFiniteSet(running) /\ Cardinality(running) <= Cardinality(inFlight)
  BY <1>2, FS_Subset DEF TypePool
<1>. QED
  BY <1>2, <1>3, FS_CardinalityType

\* The pool is bounded.
LEMMA SizeNext ==
  ASSUME TypePool, SizeInv, [Next]_vars
  PROVE  SizeInv'
<1>. USE DEF group, pool, bodies, turn
<1>1. CASE StepStarts
  BY <1>1 DEF StepStarts, SizeInv, Room
<1>2. CASE AdapterCalled
  BY <1>2 DEF AdapterCalled, SizeInv, Room
<1>3. CASE RequestFails
  BY <1>3 DEF RequestFails, SizeInv, Room
<1>4. ASSUME NEW n \in 0..MaxCalls, ModelReplies(n)
      PROVE  SizeInv'
  BY <1>4 DEF ModelReplies, FirstGroup, SizeInv, Room
<1>5. CASE StepReturns
  BY <1>5 DEF StepReturns, SizeInv, Room
<1>6. CASE StepFails
  BY <1>6 DEF StepFails, SizeInv, Room
<1>7. CASE TurnEnds
  BY <1>7 DEF TurnEnds, SizeInv, Room
<1>8. CASE Abort
  BY <1>8 DEF Abort, SizeInv, Room
<1>9. ASSUME NEW m \in Modes, GroupStarts(m)
      PROVE  SizeInv'
  BY <1>9 DEF GroupStarts, SizeInv, Room
<1>10. CASE GroupsDone
  BY <1>10 DEF GroupsDone, SizeInv, Room
<1>11. ASSUME NEW m \in Modes, CallStarts(m)
       PROVE  SizeInv'
  BY <1>11 DEF CallStarts, MayStart, Room, SizeInv, Room
<1>12. ASSUME NEW m \in Modes, FillEnds(m)
       PROVE  SizeInv'
  BY <1>12 DEF FillEnds, SizeInv, Room
<1>13. CASE Launches
  <2>. DEFINE x == nextToStart + 1
  <2>1. inFlight' = inFlight \cup {x} /\ pc' = "commit" /\ pc = "prepare"
    BY <1>13 DEF Launches
  <2>2. IsFiniteSet(inFlight) /\ Cardinality(inFlight) \in Nat
    BY Finite
  <2>3. Cardinality(inFlight) < maxParallelToolCalls
    BY <2>1 DEF SizeInv, Room
  <2>. HIDE DEF x
  <2>4. Cardinality(inFlight \cup {x}) = Cardinality(inFlight) \/ Cardinality(inFlight \cup {x}) = Cardinality(inFlight) + 1
    BY <2>2, FS_AddElement
  <2>5. Cardinality(inFlight \cup {x}) <= maxParallelToolCalls
    BY ToolStepAssumption, <2>2, <2>3, <2>4
  <2>. QED
    BY <2>1, <2>5 DEF SizeInv
<1>14. ASSUME NEW d \in {Failed, Skipped}, Refuses(d)
       PROVE  SizeInv'
  BY <1>14 DEF Refuses, SizeInv, Room
<1>15. CASE SchedulerThrows
  BY <1>15 DEF SchedulerThrows, SizeInv, Room
<1>16. ASSUME NEW c \in 1..MaxCalls, NEW b \in BOOLEAN, Commits(c, b)
       PROVE  SizeInv'
  BY <1>16 DEF Commits, Ready, SizeInv, Room
<1>17. CASE CommitEnds
  BY <1>17 DEF CommitEnds, Ready, SizeInv, Room
<1>18. ASSUME NEW c \in 1..MaxCalls, Invokes(c)
       PROVE  SizeInv'
  BY <1>18 DEF Invokes, SizeInv, Room
<1>19. ASSUME NEW c \in 1..MaxCalls, NEW d \in {Failed, Skipped}, Answers(c, d)
       PROVE  SizeInv'
  BY <1>19 DEF Answers, SizeInv, Room
<1>20. ASSUME NEW c \in 1..MaxCalls, WrapperAnswers(c)
       PROVE  SizeInv'
  BY <1>20 DEF WrapperAnswers, Outcome, Cancelled, SizeInv, Room
<1>21. ASSUME NEW c \in 1..MaxCalls, NEW r \in {Ok, Failed}, BodySettles(c, r)
       PROVE  SizeInv'
  BY <1>21 DEF BodySettles, Outcome, Cancelled, SizeInv, Room
<1>22. ASSUME NEW c \in 1..MaxCalls, DispatchRejects(c)
       PROVE  SizeInv'
  BY <1>22 DEF DispatchRejects, SizeInv, Room
<1>23. ASSUME NEW c \in 1..MaxCalls, RaceSettles(c)
       PROVE  SizeInv'
  <2>1. inFlight' = inFlight \ {c} /\ pc' # "prepare"
    BY <1>23 DEF RaceSettles
  <2>2. IsFiniteSet(inFlight) /\ Cardinality(inFlight) \in Nat
    BY Finite
  <2>3. Cardinality(inFlight \ {c}) <= Cardinality(inFlight) /\ Cardinality(inFlight \ {c}) \in Nat
    BY <2>2, FS_Subset, FS_CardinalityType
  <2>. QED
    BY ToolStepAssumption, <2>1, <2>2, <2>3 DEF SizeInv
<1>24. CASE Drain
  <2>1. inFlight' = {} /\ pc' # "prepare"
    BY <1>24 DEF Drain
  <2>2. Cardinality({}) = 0
    BY FS_EmptySet
  <2>. QED
    BY ToolStepAssumption, <2>1, <2>2 DEF SizeInv
<1>25. CASE GroupEnds
  BY <1>25 DEF GroupEnds, SizeInv, Room
<1>26. ASSUME NEW k \in 1..Len(log), Crash(k)
       PROVE  SizeInv'
  BY <1>26 DEF Crash, SizeInv, Room
<1>27. CASE UNCHANGED vars
  BY <1>27 DEF vars, SizeInv, Room
<1>. QED
  BY Steps, <1>1, <1>2, <1>3, <1>4, <1>5, <1>6, <1>7, <1>8, <1>9, <1>10, <1>11, <1>12,
     <1>13, <1>14, <1>15, <1>16, <1>17, <1>18, <1>19, <1>20, <1>21, <1>22, <1>23, <1>24,
     <1>25, <1>26, <1>27, Zenon

\* The calls of a group overlap as their modes allow.
LEMMA AloneNext ==
  ASSUME TypeStep, TypePool, FlightInv, GroupInv, AloneInv, [Next]_vars
  PROVE  AloneInv'
<1>. USE DEF group, pool, bodies, turn
<1>1. CASE StepStarts
  BY ToolStepAssumption, <1>1 DEF StepStarts, AloneInv, TypePool, TypeStep, InGroup
<1>2. CASE AdapterCalled
  BY ToolStepAssumption, <1>2 DEF AdapterCalled, AloneInv, TypePool, TypeStep, InGroup
<1>3. CASE RequestFails
  BY ToolStepAssumption, <1>3 DEF RequestFails, AloneInv, TypePool, TypeStep, InGroup
<1>4. ASSUME NEW n \in 0..MaxCalls, ModelReplies(n)
      PROVE  AloneInv'
  BY ToolStepAssumption, <1>4 DEF ModelReplies, FirstGroup, AloneInv, TypePool,
    TypeStep, InGroup
<1>5. CASE StepReturns
  BY ToolStepAssumption, <1>5 DEF StepReturns, AloneInv, TypePool, TypeStep, InGroup
<1>6. CASE StepFails
  BY ToolStepAssumption, <1>6 DEF StepFails, AloneInv, TypePool, TypeStep, InGroup
<1>7. CASE TurnEnds
  BY ToolStepAssumption, <1>7 DEF TurnEnds, AloneInv, TypePool, TypeStep, InGroup
<1>8. CASE Abort
  BY ToolStepAssumption, <1>8 DEF Abort, AloneInv, TypePool, TypeStep, InGroup
<1>9. ASSUME NEW m \in Modes, GroupStarts(m)
      PROVE  AloneInv'
  BY ToolStepAssumption, <1>9 DEF GroupStarts, AloneInv, TypePool, TypeStep, InGroup,
    FlightInv, GroupInv, Modes
<1>10. CASE GroupsDone
  BY ToolStepAssumption, <1>10 DEF GroupsDone, AloneInv, TypePool, TypeStep, InGroup
<1>11. ASSUME NEW m \in Modes, CallStarts(m)
       PROVE  AloneInv'
  BY ToolStepAssumption, <1>11 DEF CallStarts, MayStart, Room, AloneInv, TypePool,
    TypeStep, InGroup, Reclassified, Modes, GroupInv
<1>12. ASSUME NEW m \in Modes, FillEnds(m)
       PROVE  AloneInv'
  BY ToolStepAssumption, <1>12 DEF FillEnds, AloneInv, TypePool, TypeStep, InGroup,
    Modes
<1>13. CASE Launches
  BY ToolStepAssumption, <1>13 DEF Launches, AloneInv, TypePool, TypeStep, InGroup,
    GroupInv, Modes
<1>14. ASSUME NEW d \in {Failed, Skipped}, Refuses(d)
       PROVE  AloneInv'
  BY ToolStepAssumption, <1>14 DEF Refuses, AloneInv, TypePool, TypeStep, InGroup
<1>15. CASE SchedulerThrows
  BY ToolStepAssumption, <1>15 DEF SchedulerThrows, AloneInv, TypePool, TypeStep,
    InGroup
<1>16. ASSUME NEW c \in 1..MaxCalls, NEW b \in BOOLEAN, Commits(c, b)
       PROVE  AloneInv'
  BY ToolStepAssumption, <1>16 DEF Commits, Ready, AloneInv, TypePool, TypeStep, InGroup
<1>17. CASE CommitEnds
  BY ToolStepAssumption, <1>17 DEF CommitEnds, Ready, AloneInv, TypePool, TypeStep,
    InGroup
<1>18. ASSUME NEW c \in 1..MaxCalls, Invokes(c)
       PROVE  AloneInv'
  BY ToolStepAssumption, <1>18 DEF Invokes, AloneInv, TypePool, TypeStep, InGroup
<1>19. ASSUME NEW c \in 1..MaxCalls, NEW d \in {Failed, Skipped}, Answers(c, d)
       PROVE  AloneInv'
  BY ToolStepAssumption, <1>19 DEF Answers, AloneInv, TypePool, TypeStep, InGroup
<1>20. ASSUME NEW c \in 1..MaxCalls, WrapperAnswers(c)
       PROVE  AloneInv'
  BY ToolStepAssumption, <1>20 DEF WrapperAnswers, Outcome, Cancelled, AloneInv,
    TypePool, TypeStep, InGroup
<1>21. ASSUME NEW c \in 1..MaxCalls, NEW r \in {Ok, Failed}, BodySettles(c, r)
       PROVE  AloneInv'
  BY ToolStepAssumption, <1>21 DEF BodySettles, Outcome, Cancelled, AloneInv, TypePool,
    TypeStep, InGroup
<1>22. ASSUME NEW c \in 1..MaxCalls, DispatchRejects(c)
       PROVE  AloneInv'
  BY ToolStepAssumption, <1>22 DEF DispatchRejects, AloneInv, TypePool, TypeStep,
    InGroup
<1>23. ASSUME NEW c \in 1..MaxCalls, RaceSettles(c)
       PROVE  AloneInv'
  BY ToolStepAssumption, <1>23 DEF RaceSettles, AloneInv, TypePool, TypeStep, InGroup
<1>24. CASE Drain
  BY ToolStepAssumption, <1>24 DEF Drain, Drains, AloneInv, TypePool, TypeStep, InGroup
<1>25. CASE GroupEnds
  BY ToolStepAssumption, <1>25 DEF GroupEnds, AloneInv, TypePool, TypeStep, InGroup,
    GroupInv
<1>26. ASSUME NEW k \in 1..Len(log), Crash(k)
       PROVE  AloneInv'
  BY ToolStepAssumption, <1>26 DEF Crash, AloneInv, TypePool, TypeStep, InGroup
<1>27. CASE UNCHANGED vars
  BY ToolStepAssumption, <1>27 DEF vars, AloneInv, TypePool, TypeStep, InGroup
<1>. QED
  BY Steps, <1>1, <1>2, <1>3, <1>4, <1>5, <1>6, <1>7, <1>8, <1>9, <1>10, <1>11, <1>12,
     <1>13, <1>14, <1>15, <1>16, <1>17, <1>18, <1>19, <1>20, <1>21, <1>22, <1>23, <1>24,
     <1>25, <1>26, <1>27, Zenon

(***************************************************************************)
(* The log                                                                 *)
(***************************************************************************)

Over == {"closed", "repaired"}

\* Every prefix of the log is well formed, and it ends with its turn.
LogInv ==
  /\ Good(log)
  /\ log[Len(log)].type = "turn/end" <=> pc \in Over
  /\ pc \notin Over => \A i \in 1..Len(log) : log[i].id[1] <= step

\* What the fold over the log knows of the scheduler.
CursorInv ==
  /\ pc = "between" => Scan(log).step = 0
  /\ pc \notin Over \cup {"between"} => Scan(log).step = step
  /\ pc \in {"request", "model", "returned"} => Scan(log).pending = <<>>
  /\ pc \in Sched =>
       /\ Len(Scan(log).pending) = planned - committed
       /\ \A i \in 1..(planned - committed) : Scan(log).pending[i] = <<step, committed + i>>

\* The tool/calls and the results in the log.
CallLogged(c) == \E i \in 1..Len(log) : log[i] = CallEvent(c)
WrittenInv ==
  /\ pc \in Sched => \A c \in 1..nextToStart : CallLogged(c)
  /\ pc = "prepare" => CallLogged(nextToStart + 1)
  /\ pc \in {"request", "model"} =>
       \A i \in 1..Len(log) : log[i].type = "tool/result" => log[i].id[1] < step
  /\ pc \notin Over =>
       \A i \in 1..Len(log) : log[i].type = "tool/result" =>
         log[i].note \in {Ok, Failed, Aborted, Skipped} /\ log[i].id \in (1..MaxSteps) \X (1..MaxCalls)

\* The fold of a turn that is not over.
LEMMA OpenTurn ==
  ASSUME LogInv, pc \notin Over
  PROVE  /\ log \in Seq(Events) /\ Len(log) \in Nat /\ Len(log) >= 1
         /\ Formed(Scan(log), log, Len(log)) /\ Scan(log) \in Cursors
         /\ Scan(log).pending \in Seq(Ids) /\ Scan(log).turn
<1>1. log \in Seq(Events) /\ Len(log) \in Nat /\ Len(log) >= 1
  BY DEF LogInv, Good
<1>2. Scan(log) = At(log, Len(log))
  BY <1>1, Unfold
<1>3. Formed(Scan(log), log, Len(log))
  BY <1>1, <1>2 DEF LogInv, Good
<1>4. Scan(log) \in Cursors /\ Scan(log).pending \in Seq(Ids)
  BY <1>3 DEF Formed, Cursors
<1>5. log[Len(log)].type # "turn/end"
  BY DEF LogInv
<1>6. Scan(log).turn = (log[Len(log)].type # "turn/end")
  BY <1>3 DEF Formed, TurnOK
<1>7. Scan(log).turn
  BY <1>5, <1>6, Zenon
<1>. QED
  BY <1>1, <1>3, <1>4, <1>7

\* One event that fits is written.
LEMMA WroteOne ==
  ASSUME LogInv, NEW e \in Events, log' = log \o <<e>>, Fits(Scan(log), log \o <<e>>, Len(log))
  PROVE  /\ Good(log') /\ Scan(log') = Observe(Scan(log), e)
         /\ Len(log') = Len(log) + 1 /\ log'[Len(log')] = e /\ log'[Len(log) + 1] = e
         /\ \A i \in 1..Len(log) : log'[i] = log[i]
         /\ \A i \in 1..Len(log') : i \in 1..Len(log) \/ i = Len(log) + 1
<1>1. log \in Seq(Events) /\ Len(log) \in Nat
  BY DEF LogInv, Good
<1>2. Good(log \o <<e>>) /\ Scan(log \o <<e>>) = Observe(Scan(log), e)
  BY GoodAppend DEF LogInv
<1>. DEFINE ew == log \o <<e>>
<1>3. Len(ew) = Len(log) + 1 /\ ew[Len(log) + 1] = e /\ \A i \in 1..Len(log) : ew[i] = log[i]
  BY <1>1
<1>. HIDE DEF ew
<1>4. log' = ew
  BY DEF ew
<1>5. \A i \in 1..Len(ew) : i \in 1..Len(log) \/ i = Len(log) + 1
  BY <1>1, <1>3
<1>. QED
  BY <1>2, <1>3, <1>4, <1>5 DEF ew

\* The events of the turn.
LEMMA EventTypes ==
  ASSUME NEW i \in Nat, NEW k \in Nat
  PROVE  /\ Event("step/start", <<i, k>>, "") \in Events
         /\ Event("assistant/message", <<i, k>>, "") \in Events
         /\ Event("tool/call", <<i, k>>, "") \in Events
         /\ \A note \in Notes : Event("tool/result", <<i, k>>, note) \in Events
         /\ Event("step/end", <<i, k>>, "") \in Events
         /\ \A note \in Notes : Event("turn/end", <<i, k>>, note) \in Events
BY DEF Event, Events, Kinds, Notes, Ids

\* The calls named in the log.
LEMMA LogIds ==
  ASSUME LogInv
  PROVE  \A i \in 1..Len(log) :
           log[i] \in Events /\ log[i].id \in Ids /\ log[i].id[1] \in Nat /\ log[i].id[2] \in Nat
<1>1. \A i \in 1..Len(log) : log[i] \in Events
  BY DEF LogInv, Good
<1>. QED
  BY <1>1 DEF Events, Ids

\* One event is written and the turn goes on.
LEMMA OneEvent ==
  ASSUME LogInv, step \in Nat, pc \notin Over, pc' \notin Over, step' \in Nat, step <= step',
         NEW e \in Events, e.type # "turn/end", e.id[1] <= step', log' = log \o <<e>>,
         Fits(Scan(log), log \o <<e>>, Len(log))
  PROVE  /\ LogInv' /\ Scan(log') = Observe(Scan(log), e) /\ Scan(log) \in Cursors
         /\ Len(log') = Len(log) + 1 /\ log'[Len(log) + 1] = e /\ Len(log) \in Nat
         /\ \A i \in 1..Len(log) : i \in 1..Len(log') /\ log'[i] = log[i]
         /\ \A i \in 1..Len(log') : (i \in 1..Len(log) /\ log'[i] = log[i]) \/ log'[i] = e
<1>1. /\ Good(log') /\ Scan(log') = Observe(Scan(log), e)
      /\ Len(log') = Len(log) + 1 /\ log'[Len(log')] = e /\ log'[Len(log) + 1] = e
      /\ \A i \in 1..Len(log) : log'[i] = log[i]
      /\ \A i \in 1..Len(log') : i \in 1..Len(log) \/ i = Len(log) + 1
  BY WroteOne
<1>2. \A i \in 1..Len(log) : log[i].id[1] <= step /\ log[i].id[1] \in Nat
  BY LogIds DEF LogInv
<1>3. \A i \in 1..Len(log') : log'[i].id[1] <= step'
  BY <1>1, <1>2
<1>4. LogInv'
  BY <1>1, <1>3 DEF LogInv
<1>5. Scan(log) \in Cursors /\ Len(log) \in Nat
  BY OpenTurn
<1>. QED
  BY <1>1, <1>4, <1>5

\* Results written earlier keep their kind and their range.
LEMMA OldResults ==
  ASSUME LogInv, WrittenInv, pc \notin Over, NEW e,
         \A i \in 1..Len(log') : (i \in 1..Len(log) /\ log'[i] = log[i]) \/ log'[i] = e,
         e.type = "tool/result" =>
           e.note \in {Ok, Failed, Aborted, Skipped} /\ e.id \in (1..MaxSteps) \X (1..MaxCalls)
  PROVE  \A i \in 1..Len(log') : log'[i].type = "tool/result" =>
           log'[i].note \in {Ok, Failed, Aborted, Skipped} /\ log'[i].id \in (1..MaxSteps) \X (1..MaxCalls)
<1>1. \A i \in 1..Len(log) : log[i].type = "tool/result" =>
        log[i].note \in {Ok, Failed, Aborted, Skipped} /\ log[i].id \in (1..MaxSteps) \X (1..MaxCalls)
  BY DEF WrittenInv
<1>. QED
  BY <1>1

\* What fits is seen in the log with the new event.
LEMMA FitsAppended ==
  ASSUME LogInv, NEW e
  PROVE  /\ (log \o <<e>>)[Len(log) + 1] = e
         /\ \A i \in 1..Len(log) : (log \o <<e>>)[i] = log[i]
<1>1. log \in Seq(Events)
  BY DEF LogInv, Good
<1>. QED
  BY <1>1

\* step/start is written (turn).
LEMMA LogStepStarts ==
  ASSUME TypeStep, LogInv, CursorInv, WrittenInv, StepStarts
  PROVE  LogInv' /\ CursorInv' /\ WrittenInv'
<1>. DEFINE e == Event("step/start", <<step + 1, 0>>, "")
            ew == log \o <<e>>
<1>1. /\ log' = ew /\ step' = step + 1 /\ pc = "between" /\ pc' = "request"
  BY DEF StepStarts, Write
<1>. HIDE DEF e, ew
<1>2. step \in Nat /\ step + 1 \in Nat /\ pc \notin Over /\ pc' \notin Over
  BY <1>1 DEF TypeStep, Over
<1>3. e \in Events /\ e.type = "step/start" /\ e.id[1] = step + 1 /\ e.id[2] = 0
  BY <1>2, EventTypes DEF e, Event
<1>4. Scan(log) \in Cursors /\ Scan(log).step = 0 /\ Scan(log).turn /\ Scan(log).pending = <<>>
  <2>1. Scan(log) \in Cursors /\ Scan(log).turn
        /\ Scan(log).pending \in Seq(Ids) /\ PendingOK(Scan(log)) /\ Scan(log).step = 0
    BY <1>1, <1>2, OpenTurn DEF CursorInv, Formed
  <2>. QED
    BY <2>1 DEF PendingOK
<1>5. \A i \in 1..Len(log) : log[i].id[1] <= step /\ log[i].id[1] \in Nat
  BY <1>2, LogIds DEF LogInv
<1>6. Fits(Scan(log), ew, Len(log))
  <2>1. ew[Len(log) + 1] = e /\ \A i \in 1..Len(log) : ew[i] = log[i]
    BY FitsAppended DEF ew
  <2>2. StartFits(Scan(log), ew, Len(log))
    BY <1>2, <1>3, <1>4, <1>5, <2>1 DEF StartFits
  <2>. QED
    BY <1>4, <2>2 DEF Fits
<1>7. /\ LogInv' /\ Scan(log') = Observe(Scan(log), e)
      /\ \A i \in 1..Len(log') : (i \in 1..Len(log) /\ log'[i] = log[i]) \/ log'[i] = e
  BY <1>1, <1>2, <1>3, <1>6, OneEvent DEF ew
<1>8. Scan(log').pending = <<>> /\ Scan(log').step = step + 1
  <2>1. Observe(Scan(log), e).pending = Scan(log).pending /\ Observe(Scan(log), e).step = e.id[1]
    BY <1>3, <1>4, Fields
  <2>. QED
    BY <1>3, <1>4, <1>7, <2>1
<1>9. CursorInv'
  BY <1>1, <1>8 DEF CursorInv, Over, Sched
<1>10. \A i \in 1..Len(log') : log'[i].type = "tool/result" => log'[i].id[1] < step'
  BY <1>1, <1>2, <1>3, <1>5, <1>7
<1>11. \A i \in 1..Len(log') : log'[i].type = "tool/result" =>
         log'[i].note \in {Ok, Failed, Aborted, Skipped} /\ log'[i].id \in (1..MaxSteps) \X (1..MaxCalls)
  BY <1>2, <1>3, <1>7, OldResults
<1>12. WrittenInv'
  BY <1>1, <1>10, <1>11 DEF WrittenInv, Sched
<1>. QED
  BY <1>7, <1>9, <1>12

\* assistant/message is written (agent.ts, step).
LEMMA LogModelReplies ==
  ASSUME TypeStep, GroupInv, LogInv, CursorInv, WrittenInv, NEW n \in 0..MaxCalls, ModelReplies(n)
  PROVE  LogInv' /\ CursorInv' /\ WrittenInv'
<1>. DEFINE e == Event("assistant/message", <<step, n>>, "")
            ew == log \o <<e>>
<1>1. /\ log' = ew /\ step' = step /\ pc = "model" /\ pc' = "group" /\ planned' = n
      /\ nextToStart' = 0 /\ committed' = 0
  BY DEF ModelReplies, Write, FirstGroup
<1>. HIDE DEF e, ew
<1>2. step \in Nat /\ n \in Nat /\ pc \notin Over /\ pc' \notin Over
  BY <1>1 DEF TypeStep, Over
<1>3. e \in Events /\ e.type = "assistant/message" /\ e.id[1] = step /\ e.id[2] = n
  BY <1>2, EventTypes DEF e, Event
<1>4. Scan(log) \in Cursors /\ Scan(log).step = step /\ Scan(log).turn /\ Scan(log).pending = <<>>
  BY <1>1, <1>2, OpenTurn DEF CursorInv, Over
<1>5. step # 0 /\ \A i \in 1..Len(log) : log[i].type = "tool/result" => log[i].id[1] < step
  BY <1>1 DEF WrittenInv, GroupInv
<1>6. Fits(Scan(log), ew, Len(log))
  <2>1. ew[Len(log) + 1] = e /\ \A i \in 1..Len(log) : ew[i] = log[i]
    BY FitsAppended DEF ew
  <2>2. MessageFits(Scan(log), ew, Len(log))
    BY <1>3, <1>4, <1>5, <2>1 DEF MessageFits
  <2>. QED
    BY <1>4, <2>2 DEF Fits
<1>7. /\ LogInv' /\ Scan(log') = Observe(Scan(log), e)
      /\ \A i \in 1..Len(log') : (i \in 1..Len(log) /\ log'[i] = log[i]) \/ log'[i] = e
  BY <1>1, <1>2, <1>3, <1>6, OneEvent DEF ew
<1>8. Scan(log').pending = [k \in 1..n |-> <<step, k>>] /\ Scan(log').step = step
  <2>1. Observe(Scan(log), e).pending = Scan(log).pending \o [k \in 1..e.id[2] |-> <<e.id[1], k>>]
        /\ Observe(Scan(log), e).step = Scan(log).step
    BY <1>3, <1>4, Fields
  <2>2. Observe(Scan(log), e).pending = <<>> \o [k \in 1..n |-> <<step, k>>]
    BY <1>3, <1>4, <2>1
  <2>3. [k \in 1..n |-> <<step, k>>] \in Seq(Ids)
    <3>1. \A k \in 1..n : <<step, k>> \in Ids
      BY <1>2 DEF Ids
    <3>. QED
      BY <1>2, <3>1
  <2>4. <<>> \o [k \in 1..n |-> <<step, k>>] = [k \in 1..n |-> <<step, k>>]
    BY <2>3
  <2>. QED
    BY <1>4, <1>7, <2>1, <2>2, <2>4
<1>9. CursorInv'
  <2>1. Len(Scan(log').pending) = n - 0 /\ \A i \in 1..(n - 0) : Scan(log').pending[i] = <<step, 0 + i>>
    BY <1>2, <1>8
  <2>. QED
    BY <1>1, <1>8, <2>1 DEF CursorInv, Over, Sched
<1>10. \A i \in 1..Len(log') : log'[i].type = "tool/result" =>
         log'[i].note \in {Ok, Failed, Aborted, Skipped} /\ log'[i].id \in (1..MaxSteps) \X (1..MaxCalls)
  BY <1>2, <1>3, <1>7, OldResults
<1>11. WrittenInv'
  BY <1>1, <1>10 DEF WrittenInv, Sched
<1>. QED
  BY <1>7, <1>9, <1>11

\* tool/call is written (startCall).
LEMMA LogCallStarts ==
  ASSUME TypeStep, LogInv, CursorInv, WrittenInv, NEW m \in Modes, CallStarts(m)
  PROVE  LogInv' /\ CursorInv' /\ WrittenInv'
<1>. DEFINE e == CallEvent(nextToStart + 1)
            ew == log \o <<e>>
<1>1. /\ log' = ew /\ step' = step /\ pc = "fill" /\ pc' = "prepare" /\ planned' = planned
      /\ nextToStart' = nextToStart /\ committed' = committed
  BY DEF CallStarts, Write, turn, group
<1>. HIDE DEF e, ew
<1>2. step \in Nat /\ nextToStart + 1 \in Nat /\ pc \notin Over /\ pc' \notin Over
  BY <1>1 DEF TypeStep, Over
<1>3. e \in Events /\ e.type = "tool/call" /\ e.id[1] = step
  BY <1>2, EventTypes DEF e, Event, CallEvent, Call
<1>4. Scan(log) \in Cursors /\ Scan(log).turn
  BY <1>1, <1>2, OpenTurn
<1>5. Fits(Scan(log), ew, Len(log))
  <2>1. ew[Len(log) + 1] = e
    BY FitsAppended DEF ew
  <2>. QED
    BY <1>3, <1>4, <2>1 DEF Fits, CallFits
<1>6. /\ log' = log \o <<e>> /\ Fits(Scan(log), log \o <<e>>, Len(log))
      /\ e.type # "turn/end" /\ step' \in Nat /\ step <= step' /\ e.id[1] <= step'
  BY <1>1, <1>2, <1>3, <1>5 DEF ew
<1>7. /\ LogInv' /\ Scan(log') = Observe(Scan(log), e) /\ Len(log') = Len(log) + 1 /\ Len(log) \in Nat
      /\ log'[Len(log) + 1] = e
      /\ \A i \in 1..Len(log) : i \in 1..Len(log') /\ log'[i] = log[i]
      /\ \A i \in 1..Len(log') : (i \in 1..Len(log) /\ log'[i] = log[i]) \/ log'[i] = e
  BY <1>2, <1>3, <1>6, OneEvent, Zenon
<1>8. Scan(log').pending = Scan(log).pending /\ Scan(log').step = Scan(log).step
  BY <1>3, <1>4, <1>7, CallFields
<1>9. CursorInv'
  BY <1>1, <1>8 DEF CursorInv, Over, Sched
<1>10. \A i \in 1..Len(log') : log'[i].type = "tool/result" =>
         log'[i].note \in {Ok, Failed, Aborted, Skipped} /\ log'[i].id \in (1..MaxSteps) \X (1..MaxCalls)
  BY <1>2, <1>3, <1>7, OldResults
<1>11. \E i \in 1..Len(log') : log'[i] = e
  BY <1>7
<1>12. \A c \in 1..nextToStart : \E i \in 1..Len(log') : log'[i] = CallEvent(c)
  <2>1. \A c \in 1..nextToStart : \E i \in 1..Len(log) : log[i] = CallEvent(c)
    BY <1>1 DEF WrittenInv, Sched, CallLogged
  <2>. QED
    BY <1>7, <2>1
<1>13. \A c : CallEvent(c)' = CallEvent(c)
  BY <1>1 DEF CallEvent, Call
<1>14. WrittenInv'
  <2>1. \A c \in 1..nextToStart' : CallLogged(c)'
    BY <1>1, <1>12, <1>13 DEF CallLogged
  <2>2. CallLogged(nextToStart + 1)'
    BY <1>1, <1>11, <1>13 DEF CallLogged, e
  <2>. QED
    BY <1>1, <1>10, <2>1, <2>2 DEF WrittenInv
<1>. QED
  BY <1>7, <1>9, <1>14

\* A result is written in model order (commitReady).
LEMMA LogCommits ==
  ASSUME TypeStep, TypePool, FlightInv, GroupInv, LogInv, CursorInv, WrittenInv,
         NEW c \in 1..MaxCalls, NEW b \in BOOLEAN, Commits(c, b)
  PROVE  LogInv' /\ CursorInv' /\ WrittenInv'
<1>. DEFINE note == IF b THEN Failed ELSE Outcome(c, slots[c])
            e == ResultEvent(c, note)
            ew == log \o <<e>>
<1>1. /\ log' = ew /\ step' = step /\ pc = "commit" /\ pc' = pc /\ planned' = planned
      /\ nextToStart' = nextToStart /\ committed' = committed + 1
  BY DEF Commits, Write, turn, group
<1>2. note \in {Ok, Failed, Aborted, Skipped}
  <2>1. slots[c] \in {Ok, Failed, Aborted, Skipped}
    BY DEF Commits, Ready, TypePool
  <2>2. Cancelled(c) \in {Aborted, Skipped}
    BY DEF Cancelled
  <2>3. Outcome(c, slots[c]) \in {Ok, Failed, Aborted, Skipped}
    BY <2>1, <2>2, Zenon DEF Outcome
  <2>. QED
    BY <2>3, Zenon
<1>. HIDE DEF e, ew, note
<1>3. /\ step \in 1..MaxSteps /\ step \in Nat /\ committed \in Nat /\ planned \in Nat /\ c = committed + 1
      /\ c <= planned /\ pc \notin Over /\ pc' \notin Over
  <2>1. c = committed + 1 /\ slots[c] # None
    BY DEF Commits, Ready
  <2>. QED
    BY <1>1, <2>1 DEF TypeStep, FlightInv, GroupInv, Over
<1>4. e \in Events /\ e.type = "tool/result" /\ e.id = <<step, c>> /\ e.note = note
  <2>1. note \in Notes
    BY <1>2 DEF Notes, Failed, Aborted
  <2>2. c \in Nat /\ step \in Nat
    BY <1>3
  <2>3. e \in Events
    BY <2>1, <2>2, EventTypes DEF e, ResultEvent, Call
  <2>. QED
    BY <2>3 DEF e, ResultEvent, Call, Event
<1>5. /\ Scan(log) \in Cursors /\ Scan(log).turn /\ Scan(log).pending \in Seq(Ids)
      /\ PendingOK(Scan(log)) /\ Scan(log).step = step
      /\ Len(Scan(log).pending) = planned - committed
      /\ \A i \in 1..(planned - committed) : Scan(log).pending[i] = <<step, committed + i>>
  BY <1>1, <1>3, OpenTurn DEF CursorInv, Sched, Over, Formed
<1>6. Scan(log).pending # <<>> /\ Scan(log).pending[1] = <<step, c>>
  BY <1>3, <1>5
<1>7. Fits(Scan(log), ew, Len(log))
  <2>1. ew[Len(log) + 1] = e
    BY FitsAppended DEF ew
  <2>2. ResultFits(Scan(log), ew, Len(log))
    BY <1>4, <1>6, <2>1 DEF ResultFits
  <2>. QED
    BY <1>5, <2>2 DEF Fits
<1>8. e.id[1] <= step
  BY <1>3, <1>4
<1>9. /\ LogInv' /\ Scan(log') = Observe(Scan(log), e)
      /\ \A i \in 1..Len(log) : i \in 1..Len(log') /\ log'[i] = log[i]
      /\ \A i \in 1..Len(log') : (i \in 1..Len(log) /\ log'[i] = log[i]) \/ log'[i] = e
  BY <1>1, <1>3, <1>4, <1>7, <1>8, OneEvent DEF ew
<1>10. /\ Scan(log').step = step /\ Len(Scan(log').pending) = planned - (committed + 1)
       /\ \A i \in 1..(planned - (committed + 1)) : Scan(log').pending[i] = <<step, (committed + 1) + i>>
  <2>. DEFINE p == Scan(log).pending
  <2>1. Observe(Scan(log), e).pending = Delete(p, e.id) /\ Observe(Scan(log), e).step = Scan(log).step
    BY <1>4, <1>5, Fields
  <2>2. p \in Seq(Ids) /\ p # <<>> /\ p[1] = e.id
        /\ \A i, j \in 1..Len(p) : i < j => p[i][2] < p[j][2]
    BY <1>4, <1>5, <1>6 DEF PendingOK
  <2>3. Len(p) = planned - committed /\ \A i \in 1..(planned - committed) : p[i] = <<step, committed + i>>
    BY <1>5
  <2>. HIDE DEF p
  <2>4. Len(Delete(p, p[1])) = Len(p) - 1 /\ \A i \in 1..(Len(p) - 1) : Delete(p, p[1])[i] = p[i + 1]
    BY <2>2, DeleteFirst
  <2>5. \A i \in 1..(planned - (committed + 1)) :
          i \in 1..(Len(p) - 1) /\ i + 1 \in 1..(planned - committed) /\ committed + (i + 1) = (committed + 1) + i
    BY <1>3, <2>3
  <2>6. Len(Delete(p, e.id)) = planned - (committed + 1)
    BY <1>3, <2>2, <2>3, <2>4
  <2>7. \A i \in 1..(planned - (committed + 1)) : Delete(p, e.id)[i] = <<step, (committed + 1) + i>>
    BY <2>2, <2>3, <2>4, <2>5
  <2>. QED
    BY <1>5, <1>9, <2>1, <2>6, <2>7
<1>11. CursorInv'
  BY <1>1, <1>10 DEF CursorInv, Over, Sched
<1>12. \A i \in 1..Len(log') : log'[i].type = "tool/result" =>
         log'[i].note \in {Ok, Failed, Aborted, Skipped} /\ log'[i].id \in (1..MaxSteps) \X (1..MaxCalls)
  <2>1. e.note \in {Ok, Failed, Aborted, Skipped} /\ e.id \in (1..MaxSteps) \X (1..MaxCalls)
    BY <1>2, <1>3, <1>4
  <2>. QED
    BY <1>3, <1>9, <2>1, OldResults
<1>13. \A k \in 1..nextToStart : CallLogged(k)'
  <2>1. \A k \in 1..nextToStart : \E i \in 1..Len(log) : log[i] = CallEvent(k)
    BY <1>1 DEF WrittenInv, Sched, CallLogged
  <2>2. \A k : CallEvent(k)' = CallEvent(k)
    BY <1>1 DEF CallEvent, Call
  <2>. QED
    BY <1>9, <2>1, <2>2 DEF CallLogged
<1>14. WrittenInv'
  BY <1>1, <1>12, <1>13 DEF WrittenInv
<1>. QED
  BY <1>9, <1>11, <1>14

\* step/end of a step that returned is written (turn).
LEMMA LogStepReturns ==
  ASSUME TypeStep, GroupInv, LogInv, CursorInv, WrittenInv, StepReturns
  PROVE  LogInv' /\ CursorInv' /\ WrittenInv'
<1>. DEFINE e == Event("step/end", <<step, 0>>, "")
            ew == log \o <<e>>
<1>1. /\ log' = ew /\ step' = step /\ pc = "returned" /\ pc' = "between"
  BY DEF StepReturns, Write, turn
<1>. HIDE DEF e, ew
<1>2. step \in Nat /\ step # 0 /\ pc \notin Over /\ pc' \notin Over
  BY <1>1 DEF TypeStep, Over, GroupInv
<1>3. e \in Events /\ e.type = "step/end" /\ e.id[1] = step
  BY <1>2, EventTypes DEF e, Event
<1>4. Scan(log) \in Cursors /\ Scan(log).step = step /\ Scan(log).turn /\ Scan(log).pending = <<>>
  BY <1>1, <1>2, OpenTurn DEF CursorInv, Over
<1>5. Fits(Scan(log), ew, Len(log))
  <2>1. ew[Len(log) + 1] = e
    BY FitsAppended DEF ew
  <2>. QED
    BY <1>2, <1>3, <1>4, <2>1 DEF Fits, EndFits
<1>6. /\ LogInv' /\ Scan(log') = Observe(Scan(log), e)
      /\ \A i \in 1..Len(log') : (i \in 1..Len(log) /\ log'[i] = log[i]) \/ log'[i] = e
  BY <1>1, <1>2, <1>3, <1>5, OneEvent DEF ew
<1>7. Scan(log').step = 0
  <2>1. Observe(Scan(log), e).step = 0
    BY <1>3, <1>4, Fields
  <2>. QED
    BY <1>6, <2>1
<1>8. CursorInv'
  BY <1>1, <1>7 DEF CursorInv, Over, Sched
<1>9. \A i \in 1..Len(log') : log'[i].type = "tool/result" =>
         log'[i].note \in {Ok, Failed, Aborted, Skipped} /\ log'[i].id \in (1..MaxSteps) \X (1..MaxCalls)
  BY <1>2, <1>3, <1>6, OldResults
<1>10. WrittenInv'
  BY <1>1, <1>9 DEF WrittenInv, Sched
<1>. QED
  BY <1>6, <1>8, <1>10

\* turn/end is written between steps (turn).
LEMMA LogTurnEnds ==
  ASSUME TypeStep, LogInv, CursorInv, TurnEnds
  PROVE  LogInv' /\ CursorInv' /\ WrittenInv' /\ Scan(log') = Fresh
<1>. DEFINE e == Event("turn/end", <<0, 0>>, "")
            ew == log \o <<e>>
<1>1. /\ log' = ew /\ pc = "between" /\ pc' = "closed"
  BY DEF TurnEnds, Write
<1>. HIDE DEF e, ew
<1>2. e \in Events /\ e.type = "turn/end" /\ pc \notin Over
  BY <1>1, EventTypes DEF e, Event, Notes, Over
<1>3. Scan(log) \in Cursors /\ Scan(log).turn /\ Scan(log).step = 0
  BY <1>1, <1>2, OpenTurn DEF CursorInv
<1>4. Fits(Scan(log), ew, Len(log))
  <2>1. ew[Len(log) + 1] = e
    BY FitsAppended DEF ew
  <2>. QED
    BY <1>2, <1>3, <2>1 DEF Fits, CloseFits
<1>5. Good(log') /\ Scan(log') = Observe(Scan(log), e) /\ log'[Len(log')] = e
  BY <1>1, <1>2, <1>4, WroteOne DEF ew
<1>6. Scan(log') = Fresh
  BY <1>2, <1>5 DEF Observe
<1>. QED
  BY <1>1, <1>2, <1>5, <1>6 DEF LogInv, CursorInv, WrittenInv, Over, Sched

\* The elements of a concatenation.
LEMMA Joined ==
  ASSUME NEW S, NEW a \in Seq(S), NEW b \in Seq(S)
  PROVE  /\ a \o b \in Seq(S) /\ Len(a \o b) = Len(a) + Len(b)
         /\ \A i \in 1..Len(a) : (a \o b)[i] = a[i]
         /\ \A j \in 1..Len(b) : (a \o b)[Len(a) + j] = b[j]
OBVIOUS

\* The elements of a sequence with one more.
LEMMA JoinedOne ==
  ASSUME NEW S, NEW a \in Seq(S), NEW x \in S
  PROVE  /\ a \o <<x>> \in Seq(S) /\ Len(a \o <<x>>) = Len(a) + 1 /\ (a \o <<x>>)[Len(a) + 1] = x
         /\ \A i \in 1..Len(a) : (a \o <<x>>)[i] = a[i]
OBVIOUS

\* The pairs for the calls that were not started, as a continuation of the log
\* (executeToolCalls).
LEMMA WrotePairs ==
  ASSUME TypeStep, GroupInv, LogInv, CursorInv, pc = "finish", log' = log \o SkippedPairs
  PROVE  /\ Good(log') /\ Extends(log', log)
         /\ Scan(log').turn /\ Scan(log').step = step /\ Scan(log').pending = <<>>
         /\ log'[Len(log')].type # "turn/end"
         /\ \A i \in 1..Len(log') :
              \/ i \in 1..Len(log) /\ log'[i] = log[i]
              \/ \E k \in (nextToStart + 1)..planned : log'[i] = CallEvent(k) \/ log'[i] = ResultEvent(k, Skipped)
<1>. DEFINE P == planned - nextToStart
            L == Len(log)
            ew == log \o SkippedPairs
            s == Scan(log)
<1>1. pc \notin Over /\ P \in Nat /\ nextToStart \in Nat /\ planned \in Nat /\ step \in Nat /\ step # 0
      /\ committed = nextToStart /\ nextToStart <= planned /\ planned = nextToStart + P
  BY DEF TypeStep, GroupInv, Over
<1>2. /\ log \in Seq(Events) /\ L \in Nat /\ L >= 1 /\ s \in Cursors /\ s.turn
      /\ s.pending \in Seq(Ids) /\ s.step = step /\ Len(s.pending) = P
      /\ \A i \in 1..P : s.pending[i] = <<step, nextToStart + i>>
  BY <1>1, OpenTurn DEF CursorInv, Sched, Over
<1>3. \A i \in 1..P : 2 * i - 1 \in 1..(2 * P) /\ 2 * i \in 1..(2 * P)
        /\ ((2 * i - 1) + 1) \div 2 = i /\ (2 * i + 1) \div 2 = i /\ (2 * i - 1) % 2 = 1 /\ (2 * i) % 2 = 0
  BY <1>1
<1>. HIDE DEF L, s
<1>4. SkippedPairs = [i \in 1..(2 * P) |->
        IF i % 2 = 1 THEN CallEvent(nextToStart + (i + 1) \div 2)
        ELSE ResultEvent(nextToStart + (i + 1) \div 2, Skipped)]
  BY DEF SkippedPairs
<1>. HIDE DEF P
<1>5. \A i \in 1..P : /\ SkippedPairs[2 * i - 1] = CallEvent(nextToStart + i)
                      /\ SkippedPairs[2 * i] = ResultEvent(nextToStart + i, Skipped)
  BY <1>3, <1>4
<1>6. \A j \in 1..(2 * P) : \E i \in 1..P : j = 2 * i - 1 \/ j = 2 * i
  <2>1. \A j \in 1..(2 * P) : (j + 1) \div 2 \in 1..P
          /\ (j = 2 * ((j + 1) \div 2) - 1 \/ j = 2 * ((j + 1) \div 2))
    BY <1>1
  <2>. QED
    BY <2>1
<1>7. \A k \in Nat : /\ CallEvent(k) \in Events /\ CallEvent(k).type = "tool/call"
                     /\ ResultEvent(k, Skipped) \in Events /\ ResultEvent(k, Skipped).type = "tool/result"
                     /\ ResultEvent(k, Skipped).id = <<step, k>>
  <2>1. Skipped \in Notes
    BY DEF Notes
  <2>2. \A k \in Nat : CallEvent(k) \in Events /\ ResultEvent(k, Skipped) \in Events
    BY <1>1, <2>1, EventTypes DEF CallEvent, ResultEvent, Call
  <2>. QED
    BY <2>2 DEF CallEvent, ResultEvent, Call, Event
<1>8. \A j \in 1..(2 * P) : \E k \in (nextToStart + 1)..planned :
        SkippedPairs[j] = CallEvent(k) \/ SkippedPairs[j] = ResultEvent(k, Skipped)
  <2>1. \A i \in 1..P : nextToStart + i \in (nextToStart + 1)..planned
    BY <1>1
  <2>. QED
    BY <1>5, <1>6, <2>1
<1>9. SkippedPairs \in Seq(Events) /\ Len(SkippedPairs) = 2 * P
  <2>1. \A j \in 1..(2 * P) : SkippedPairs[j] \in Events
    <3>1. \A k \in (nextToStart + 1)..planned : k \in Nat
      BY <1>1
    <3>2. \A k \in (nextToStart + 1)..planned : CallEvent(k) \in Events /\ ResultEvent(k, Skipped) \in Events
      BY <1>7, <3>1
    <3>. QED
      BY <1>8, <3>2
  <2>2. SkippedPairs \in [1..(2 * P) -> Events]
    BY <1>4, <2>1
  <2>3. 2 * P \in Nat
    BY <1>1
  <2>. QED
    BY <2>2, <2>3
<1>. HIDE DEF ew
<1>10. /\ ew \in Seq(Events) /\ Len(ew) = L + 2 * P /\ \A i \in 1..L : ew[i] = log[i]
       /\ \A j \in 1..(2 * P) : ew[L + j] = SkippedPairs[j]
  <2>. DEFINE b == SkippedPairs
  <2>. HIDE DEF b
  <2>1. b \in Seq(Events) /\ Len(b) = 2 * P /\ ew = log \o b
    BY <1>9 DEF b, ew
  <2>2. Len(log) = L /\ 2 * P \in Nat
    BY <1>1 DEF L
  <2>3. /\ ew \in Seq(Events) /\ Len(ew) = L + 2 * P /\ \A i \in 1..L : ew[i] = log[i]
        /\ \A j \in 1..(2 * P) : ew[L + j] = b[j]
    <3>1. log \in Seq(Events)
      BY <1>2
    <3>2. ASSUME NEW x \in Seq(Events), NEW y \in Seq(Events)
          PROVE  /\ x \o y \in Seq(Events) /\ Len(x \o y) = Len(x) + Len(y)
                 /\ \A i \in 1..Len(x) : (x \o y)[i] = x[i]
                 /\ \A j \in 1..Len(y) : (x \o y)[Len(x) + j] = y[j]
      BY Joined
    <3>3. /\ ew \in Seq(Events) /\ Len(ew) = Len(log) + Len(b)
          /\ \A i \in 1..Len(log) : ew[i] = log[i]
          /\ \A j \in 1..Len(b) : ew[Len(log) + j] = b[j]
      BY <2>1, <3>1, <3>2
    <3>. QED
      BY <2>1, <2>2, <3>3, Zenon
  <2>. QED
    BY <2>3 DEF b
<1>11. log' = ew
  BY DEF ew
<1>12. Extends(ew, log) /\ L \in 1..Len(ew)
  BY <1>1, <1>2, <1>10 DEF Extends, L
<1>15. \A i \in 1..Len(s.pending) :
         /\ ew[L + (2 * i - 1)].type = "tool/call"
         /\ ew[L + 2 * i].type = "tool/result" /\ ew[L + 2 * i].id = s.pending[i]
  <2>. SUFFICES ASSUME NEW i \in 1..P
               PROVE  /\ ew[L + (2 * i - 1)].type = "tool/call"
                      /\ ew[L + 2 * i].type = "tool/result" /\ ew[L + 2 * i].id = s.pending[i]
    BY <1>2
  <2>1. ew[L + (2 * i - 1)] = CallEvent(nextToStart + i) /\ ew[L + 2 * i] = ResultEvent(nextToStart + i, Skipped)
    BY <1>3, <1>5, <1>10
  <2>2. nextToStart + i \in Nat
    BY <1>1
  <2>. QED
    BY <1>2, <1>7, <2>1, <2>2
<1>16. Good(ew) /\ Scan(ew).turn /\ Scan(ew).step = step /\ Scan(ew).pending = <<>>
       /\ ew[Len(ew)].type # "turn/end"
  <2>1. /\ Good(log) /\ Scan(log).turn /\ ew \in Seq(Events) /\ Extends(ew, log)
        /\ Len(ew) = Len(log) + 2 * Len(Scan(log).pending) /\ Scan(log).step = step
    BY <1>2, <1>10, <1>12 DEF LogInv, L, s
  <2>2. \A i \in 1..Len(Scan(log).pending) :
          /\ ew[Len(log) + (2 * i - 1)].type = "tool/call"
          /\ ew[Len(log) + 2 * i].type = "tool/result" /\ ew[Len(log) + 2 * i].id = Scan(log).pending[i]
    BY <1>15 DEF L, s
  <2>. QED
    BY <2>1, <2>2, PairsGood, Zenon
<1>23. ASSUME NEW i \in 1..Len(ew), ~(i \in 1..L /\ ew[i] = log[i])
       PROVE \E k \in (nextToStart + 1)..planned : ew[i] = CallEvent(k) \/ ew[i] = ResultEvent(k, Skipped)
  <2>1. i - L \in 1..(2 * P) /\ i = L + (i - L)
    BY <1>1, <1>2, <1>10, <1>23
  <2>. QED
    BY <1>8, <1>10, <2>1
<1>. QED
  BY <1>11, <1>12, <1>16, <1>23 DEF L

\* The end of a group, with results for the calls it did not start if it was
\* aborted (executeToolCalls).
LEMMA LogGroupEnds ==
  ASSUME TypeStep, GroupInv, LogInv, CursorInv, WrittenInv, GroupEnds
  PROVE  LogInv' /\ CursorInv' /\ WrittenInv'
<1>1. pc = "finish" /\ step' = step /\ planned' = planned /\ nextToStart' = nextToStart
      /\ committed' = committed
  BY DEF GroupEnds, turn
<1>2. step \in 1..MaxSteps /\ step \in Nat /\ pc \notin Over
  BY <1>1 DEF TypeStep, GroupInv, Over
<1>3. CASE ~aborted
  <2>1. log' = log /\ pc' = "group"
    BY <1>3 DEF GroupEnds
  <2>2. \A k \in 1..nextToStart : CallLogged(k)'
    <3>1. \A k \in 1..nextToStart : CallLogged(k)
      BY <1>1 DEF WrittenInv, Sched
    <3>. QED
      BY <1>1, <2>1, <3>1 DEF CallLogged, CallEvent, Call
  <2>3. CursorInv'
    BY <1>1, <2>1 DEF CursorInv, Over, Sched
  <2>. QED
    BY <1>1, <2>1, <2>2, <2>3 DEF LogInv, WrittenInv, Over, Sched
<1>4. CASE aborted
  <2>1. log' = log \o SkippedPairs /\ pc' = "returned"
    BY <1>4 DEF GroupEnds, Write
  <2>2. /\ Good(log') /\ Extends(log', log)
        /\ Scan(log').turn /\ Scan(log').step = step /\ Scan(log').pending = <<>>
        /\ log'[Len(log')].type # "turn/end"
        /\ \A i \in 1..Len(log') :
             \/ i \in 1..Len(log) /\ log'[i] = log[i]
             \/ \E k \in (nextToStart + 1)..planned : log'[i] = CallEvent(k) \/ log'[i] = ResultEvent(k, Skipped)
    BY <1>1, <2>1, WrotePairs
  <2>3. \A k \in (nextToStart + 1)..planned :
          /\ CallEvent(k).type = "tool/call" /\ CallEvent(k).id[1] = step
          /\ ResultEvent(k, Skipped).id[1] = step /\ ResultEvent(k, Skipped).note = Skipped
          /\ ResultEvent(k, Skipped).id \in (1..MaxSteps) \X (1..MaxCalls)
    BY <1>2, ToolStepAssumption DEF CallEvent, ResultEvent, Call, Event, TypeStep
  <2>4. \A i \in 1..Len(log') : log'[i].id[1] <= step
    <3>1. \A i \in 1..Len(log) : log[i].id[1] <= step
      BY <1>2 DEF LogInv
    <3>2. step <= step
      BY <1>2
    <3>. QED
      BY <2>2, <2>3, <3>1, <3>2
  <2>5. LogInv'
    BY <1>1, <2>1, <2>2, <2>4 DEF LogInv, Over
  <2>6. CursorInv'
    BY <1>1, <2>1, <2>2 DEF CursorInv, Over, Sched
  <2>7. \A i \in 1..Len(log') : log'[i].type = "tool/result" =>
          log'[i].note \in {Ok, Failed, Aborted, Skipped} /\ log'[i].id \in (1..MaxSteps) \X (1..MaxCalls)
    <3>1. \A i \in 1..Len(log) : log[i].type = "tool/result" =>
            log[i].note \in {Ok, Failed, Aborted, Skipped} /\ log[i].id \in (1..MaxSteps) \X (1..MaxCalls)
      BY <1>2 DEF WrittenInv
    <3>. QED
      BY <2>2, <2>3, <3>1
  <2>8. WrittenInv'
    BY <2>1, <2>7 DEF WrittenInv, Sched
  <2>. QED
    BY <2>5, <2>6, <2>8
<1>. QED
  BY <1>3, <1>4

\* Results, step/end if a step is open, and turn/end: the events that the
\* repair of ev adds to it.
Ending(s, note) ==
  Results(s) \o (IF s.step # 0 THEN <<Event("step/end", <<s.step, 0>>, "")>> ELSE <<>>)
             \o <<Event("turn/end", <<0, 0>>, note)>>

\* ew is ev, closed.
Ended(ew, ev) ==
  /\ Good(ew) /\ Scan(ew) = Fresh /\ ew[Len(ew)].type = "turn/end" /\ Extends(ew, ev)
  /\ Len(ew) \in Nat /\ Len(ew) > Len(ev)
  /\ \A i \in 1..Len(ew) :
       \/ i \in 1..Len(ev) /\ ew[i] = ev[i]
       \/ ew[i].type \in {"step/end", "turn/end"}
       \/ \E k \in 1..Len(Scan(ev).pending) : ew[i] = Results(Scan(ev))[k]

\* A log with its tail is closed.
LEMMA WroteClosers ==
  ASSUME NEW ev, Good(ev), Scan(ev).turn, NEW note \in Notes, NEW ew,
         ew = ev \o Ending(Scan(ev), note)
  PROVE  Ended(ew, ev)
<1>. DEFINE s == Scan(ev)
            L == Len(ev)
            P == Len(s.pending)
            R == Results(s)
            a == Event("step/end", <<s.step, 0>>, "")
            b == Event("turn/end", <<0, 0>>, note)
            E == IF s.step = 0 THEN 0 ELSE 1
<1>1. ev \in Seq(Events) /\ L \in Nat /\ L >= 1 /\ s = At(ev, L) /\ Formed(s, ev, L) /\ s \in Cursors
  <2>1. ev \in Seq(Events) /\ L \in Nat /\ L >= 1
    BY DEF Good
  <2>2. s = At(ev, L)
    BY <2>1, Unfold
  <2>. QED
    BY <2>1, <2>2 DEF Good, Formed
<1>2. R \in Seq(Events) /\ Len(R) = P /\ P \in Nat /\ s.step \in Nat
  BY <1>1, ResultsType DEF Cursors
<1>3. a \in Events /\ b \in Events /\ a.type = "step/end" /\ b.type = "turn/end"
  <2>1. a \in Events /\ b \in Events
    BY <1>2, EventTypes
  <2>. QED
    BY <2>1 DEF Event
<1>4. Ending(s, note) = R \o (IF s.step # 0 THEN <<a>> ELSE <<>>) \o <<b>>
      /\ ew = ev \o Ending(s, note)
  BY DEF Ending
<1>5. s.turn
  OBVIOUS
<1>. HIDE DEF s, L, P, R, a, b
<1>6. CASE s.step = 0
  <2>0. Ending(s, note) = (R \o <<>>) \o <<b>>
    BY <1>4, <1>6
  <2>1. Ending(s, note) \in Seq(Events) /\ Len(Ending(s, note)) = P + 1
        /\ (\A i \in 1..P : Ending(s, note)[i] = R[i]) /\ Ending(s, note)[P + 1] = b
    BY <1>2, <1>3, <2>0
  <2>2. /\ ew \in Seq(Events) /\ Len(ew) = L + P + 1 /\ \A i \in 1..L : ew[i] = ev[i]
        /\ \A i \in 1..P : ew[L + i] = R[i]
        /\ ew[L + P + 1] = b
    <3>1. /\ ew \in Seq(Events) /\ Len(ew) = Len(ev) + Len(Ending(s, note))
          /\ \A i \in 1..Len(ev) : ew[i] = ev[i]
          /\ \A j \in 1..Len(Ending(s, note)) : ew[Len(ev) + j] = Ending(s, note)[j]
      BY <1>1, <1>4, <2>1, Joined
    <3>. QED
      BY <1>1, <1>2, <2>1, <3>1 DEF L
  <2>3. Closed(ew, ev, s)
    BY <1>1, <1>2, <1>3, <1>6, <2>2 DEF Closed, Extends, L, P, R
  <2>4. Good(ew) /\ Scan(ew) = Fresh
    BY <1>5, <2>3, ClosedGood DEF s
  <2>5. ASSUME NEW i \in 1..Len(ew)
        PROVE  \/ i \in 1..L /\ ew[i] = ev[i]
               \/ ew[i].type \in {"step/end", "turn/end"}
               \/ \E k \in 1..P : ew[i] = R[k]
    <3>1. i \in 1..L \/ (i - L \in 1..P /\ i = L + (i - L)) \/ i = L + P + 1
      BY <1>1, <1>2, <2>2
    <3>. QED
      BY <1>3, <2>2, <3>1
  <2>6. Extends(ew, ev) /\ Len(ew) \in Nat /\ Len(ew) > L
    BY <1>1, <1>2, <2>2 DEF Extends, L
  <2>7. ew[Len(ew)].type = "turn/end"
    BY <1>3, <2>2
  <2>. QED
    BY <2>4, <2>5, <2>6, <2>7 DEF s, L, P, R, Ended
<1>7. CASE s.step # 0
  <2>0. Ending(s, note) = (R \o <<a>>) \o <<b>>
    BY <1>4, <1>7
  <2>1. Ending(s, note) \in Seq(Events) /\ Len(Ending(s, note)) = P + 2
        /\ (\A i \in 1..P : Ending(s, note)[i] = R[i]) /\ Ending(s, note)[P + 1] = a
        /\ Ending(s, note)[P + 2] = b
    <3>. DEFINE q == R \o <<a>>
    <3>1. q \in Seq(Events) /\ Len(q) = P + 1 /\ (\A i \in 1..P : q[i] = R[i]) /\ q[P + 1] = a
      BY <1>2, <1>3, JoinedOne
    <3>. HIDE DEF q
    <3>2. Ending(s, note) = q \o <<b>>
      BY <2>0 DEF q
    <3>. QED
      BY <1>2, <1>3, <3>1, <3>2
  <2>2. /\ ew \in Seq(Events) /\ Len(ew) = L + P + 2 /\ \A i \in 1..L : ew[i] = ev[i]
        /\ \A i \in 1..P : ew[L + i] = R[i]
        /\ ew[L + P + 1] = a /\ ew[L + P + 2] = b
    <3>1. /\ ew \in Seq(Events) /\ Len(ew) = Len(ev) + Len(Ending(s, note))
          /\ \A i \in 1..Len(ev) : ew[i] = ev[i]
          /\ \A j \in 1..Len(Ending(s, note)) : ew[Len(ev) + j] = Ending(s, note)[j]
      BY <1>1, <1>4, <2>1, Joined
    <3>. QED
      BY <1>1, <1>2, <2>1, <3>1 DEF L
  <2>3. Closed(ew, ev, s)
    BY <1>1, <1>2, <1>3, <1>7, <2>2 DEF Closed, Extends, L, P, R
  <2>4. Good(ew) /\ Scan(ew) = Fresh
    BY <1>5, <2>3, ClosedGood DEF s
  <2>5. ASSUME NEW i \in 1..Len(ew)
        PROVE  \/ i \in 1..L /\ ew[i] = ev[i]
               \/ ew[i].type \in {"step/end", "turn/end"}
               \/ \E k \in 1..P : ew[i] = R[k]
    <3>1. i \in 1..L \/ (i - L \in 1..P /\ i = L + (i - L)) \/ i = L + P + 1 \/ i = L + P + 2
      BY <1>1, <1>2, <2>2
    <3>. QED
      BY <1>3, <2>2, <3>1
  <2>6. Extends(ew, ev) /\ Len(ew) \in Nat /\ Len(ew) > L
    BY <1>1, <1>2, <2>2 DEF Extends, L
  <2>7. ew[Len(ew)].type = "turn/end"
    BY <1>3, <2>2
  <2>. QED
    BY <2>4, <2>5, <2>6, <2>7 DEF s, L, P, R, Ended
<1>. QED
  BY <1>6, <1>7

\* Two events written one after the other.
LEMMA TwoMore ==
  ASSUME NEW S, NEW r \in Seq(S), NEW a \in S, NEW b \in S
  PROVE  r \o <<a, b>> = (r \o <<a>>) \o <<b>>
<1>1. r \o <<a, b>> \in Seq(S) /\ (r \o <<a>>) \o <<b>> \in Seq(S)
  OBVIOUS
<1>2. Len(r \o <<a, b>>) = Len(r) + 2 /\ Len((r \o <<a>>) \o <<b>>) = Len(r) + 2 /\ Len(r) \in Nat
  OBVIOUS
<1>3. ASSUME NEW i \in 1..(Len(r) + 2) PROVE (r \o <<a, b>>)[i] = ((r \o <<a>>) \o <<b>>)[i]
  <2>. DEFINE q == r \o <<a>>
  <2>1. q \in Seq(S) /\ Len(q) = Len(r) + 1 /\ (\A j \in 1..Len(r) : q[j] = r[j]) /\ q[Len(r) + 1] = a
    OBVIOUS
  <2>. HIDE DEF q
  <2>2. (q \o <<b>>)[Len(r) + 2] = b /\ \A j \in 1..(Len(r) + 1) : (q \o <<b>>)[j] = q[j]
    BY <2>1
  <2>3. /\ (r \o <<a, b>>)[Len(r) + 1] = a /\ (r \o <<a, b>>)[Len(r) + 2] = b
        /\ \A j \in 1..Len(r) : (r \o <<a, b>>)[j] = r[j]
    OBVIOUS
  <2>4. (r \o <<a, b>>)[i] = (q \o <<b>>)[i]
    <3>1. i \in 1..Len(r) \/ i = Len(r) + 1 \/ i = Len(r) + 2
      BY <1>2
    <3>2. \A j \in 1..Len(r) : j \in 1..(Len(r) + 1)
      BY <1>2
    <3>3. Len(r) + 1 \in 1..(Len(r) + 1)
      BY <1>2
    <3>. QED
      BY <2>1, <2>2, <2>3, <3>1, <3>2, <3>3, Zenon
  <2>. QED
    BY <2>4 DEF q
<1>. DEFINE x == r \o <<a, b>>
            y == (r \o <<a>>) \o <<b>>
<1>4. /\ x \in Seq(S) /\ y \in Seq(S) /\ Len(x) = Len(y) /\ Len(x) = Len(r) + 2
      /\ \A i \in 1..(Len(r) + 2) : x[i] = y[i]
  BY <1>1, <1>2, <1>3
<1>. HIDE DEF x, y
<1>5. x = y
  BY <1>4, SeqEqual
<1>. QED
  BY <1>5 DEF x, y

\* A failed step: the recovered results, step/end and turn/end (turn's catch
\* and finally).
LEMMA WroteFailure ==
  ASSUME TypeStep, GroupInv, LogInv, CursorInv, StepFails
  PROVE  /\ Good(log') /\ log'[Len(log')].type = "turn/end" /\ Extends(log', log)
         /\ \A i \in 1..Len(log') :
              \/ i \in 1..Len(log) /\ log'[i] = log[i]
              \/ log'[i].type \in {"step/end", "turn/end"}
              \/ \E k \in 1..Len(Scan(log).pending) : log'[i] = Results(Scan(log))[k]
<1>. DEFINE s == Scan(log)
            a == Event("step/end", <<step, 0>>, "")
            b == Event("turn/end", <<0, 0>>, "error")
<1>1. pc = "failed" /\ log' = log \o (Results(s) \o <<a, b>>)
  BY DEF StepFails, Write
<1>. HIDE DEF a, b
<1>2. s \in Cursors /\ s.turn /\ s.step = step /\ step # 0 /\ step \in Nat
  BY <1>1, OpenTurn DEF CursorInv, Over, GroupInv, TypeStep
<1>3. a \in Events /\ b \in Events /\ "error" \in Notes
  BY <1>2, EventTypes DEF a, b, Notes
<1>4. Results(s) \in Seq(Events)
  BY <1>2, ResultsType
<1>5. Ending(s, "error") = Results(s) \o <<a>> \o <<b>>
  BY <1>2 DEF Ending, a, b
<1>6. Results(s) \o <<a, b>> = Results(s) \o <<a>> \o <<b>>
  BY <1>3, <1>4, TwoMore
<1>7. log' = log \o Ending(s, "error")
  BY <1>1, <1>5, <1>6
<1>8. Good(log)
  BY DEF LogInv
<1>9. Ended(log', log)
  BY <1>2, <1>3, <1>7, <1>8, WroteClosers, Zenon
<1>. QED
  BY <1>9, Zenon DEF Ended

\* What a crash keeps of the log, and its closers (openTurnClosers).
LEMMA WroteRepair ==
  ASSUME LogInv, NEW k \in 1..Len(log), log' = SubSeq(log, 1, k) \o Closers(SubSeq(log, 1, k))
  PROVE  /\ Good(log') /\ log'[Len(log')].type = "turn/end"
         /\ Len(log') \in Nat /\ k <= Len(log') /\ \A i \in 1..k : log'[i] = log[i]
         /\ \A i \in 1..Len(log') :
              \/ i \in 1..k /\ log'[i] = log[i]
              \/ log'[i].type \in {"step/end", "turn/end"}
              \/ \E j \in 1..Len(At(log, k).pending) : log'[i] = Results(At(log, k))[j]
<1>. DEFINE ev == SubSeq(log, 1, k)
            s == Scan(ev)
<1>1. /\ Good(ev) /\ Len(ev) = k /\ (\A i \in 1..k : ev[i] = log[i]) /\ s = At(log, k)
      /\ log' = ev \o Closers(ev)
  BY GoodPrefix DEF LogInv
<1>2. k \in Nat /\ k >= 1 /\ ev \in Seq(Events)
  BY <1>1 DEF Good
<1>. HIDE DEF ev
<1>3. Formed(s, ev, k) /\ s \in Cursors
  <2>1. s = At(ev, k)
    BY <1>1, <1>2, Unfold
  <2>. QED
    BY <1>1, <1>2, <2>1 DEF Good, Formed
<1>4. CASE s.turn
  <2>1. Closers(ev) = Ending(s, "interrupted") /\ "interrupted" \in Notes
    BY <1>4, Zenon DEF Closers, Ending, Notes
  <2>2. /\ Good(log') /\ log'[Len(log')].type = "turn/end" /\ Extends(log', ev)
        /\ Len(log') \in Nat /\ Len(log') > Len(ev)
        /\ \A i \in 1..Len(log') :
             \/ i \in 1..Len(ev) /\ log'[i] = ev[i]
             \/ log'[i].type \in {"step/end", "turn/end"}
             \/ \E j \in 1..Len(s.pending) : log'[i] = Results(s)[j]
    <3>1. log' = ev \o Ending(s, "interrupted")
      BY <1>1, <2>1, Zenon
    <3>2. Ended(log', ev)
      BY <1>1, <1>4, <2>1, <3>1, WroteClosers, Zenon
    <3>. QED
      BY <3>2, Zenon DEF Ended
  <2>. QED
    BY <1>1, <1>2, <2>2 DEF Extends
<1>5. CASE ~s.turn
  <2>1. log' = ev
    <3>1. Closers(ev) = <<>>
      BY <1>5, Zenon DEF Closers
    <3>. QED
      BY <1>1, <1>2, <3>1
  <2>2. ev[k].type = "turn/end"
    <3>1. s.turn = (ev[k].type # "turn/end")
      BY <1>3 DEF Formed, TurnOK
    <3>. QED
      BY <1>5, <3>1, Zenon
  <2>3. Good(log') /\ Len(log') = k /\ log'[k].type = "turn/end" /\ \A i \in 1..k : log'[i] = log[i]
    BY <1>1, <2>1, <2>2
  <2>4. k <= k
    BY <1>2
  <2>. QED
    BY <1>2, <2>3, <2>4, Zenon
<1>. QED
  BY <1>4, <1>5

\* The steps that write nothing.
Quiet ==
  /\ log' = log /\ step' = step /\ planned' = planned /\ committed' = committed
  /\ \/ pc' = pc /\ nextToStart' = nextToStart
     \/ pc \in Sched /\ pc' \in Sched \ {"prepare"} /\ nextToStart' = nextToStart
     \/ pc = "prepare" /\ pc' = "commit" /\ nextToStart' = nextToStart + 1
     \/ pc = "request" /\ pc' = "model"
     \/ pc \notin Over \cup {"between"} /\ pc' = "failed"

\* They leave the log as it is.
LEMMA LogQuiet ==
  ASSUME TypeStep, LogInv, CursorInv, WrittenInv, Quiet
  PROVE  LogInv' /\ CursorInv' /\ WrittenInv'
<1>1. log' = log /\ step' = step /\ planned' = planned /\ committed' = committed
  BY DEF Quiet
<1>2. LogInv'
  BY <1>1 DEF Quiet, LogInv, Over, Sched
<1>3. CursorInv'
  BY <1>1 DEF Quiet, CursorInv, Over, Sched
<1>4. \A x : CallLogged(x)' <=> CallLogged(x)
  BY <1>1 DEF CallLogged, CallEvent, Call
<1>5. nextToStart \in Nat /\ \A x \in 1..(nextToStart + 1) : x \in 1..nextToStart \/ x = nextToStart + 1
  BY ToolStepAssumption DEF TypeStep
<1>6. pc' \in Sched => \A x \in 1..nextToStart' : CallLogged(x)
  <2>. SUFFICES ASSUME pc' \in Sched, NEW x \in 1..nextToStart' PROVE CallLogged(x)
    OBVIOUS
  <2>1. CASE nextToStart' = nextToStart
    <3>1. pc \in Sched
      BY DEF Quiet, Sched
    <3>. QED
      BY <2>1, <3>1 DEF WrittenInv
  <2>2. CASE pc = "prepare" /\ nextToStart' = nextToStart + 1
    BY <1>5, <2>2 DEF WrittenInv, Sched
  <2>. QED
    BY <2>1, <2>2 DEF Quiet, Sched
<1>7. /\ pc' \in {"request", "model"} => pc \in {"request", "model"}
      /\ pc' \notin Over => pc \notin Over
  BY DEF Quiet, Sched, Over
<1>8. pc' = "prepare" => CallLogged(nextToStart + 1) /\ nextToStart' = nextToStart
  BY DEF Quiet, Sched, WrittenInv
<1>. QED
  BY <1>1, <1>2, <1>3, <1>4, <1>6, <1>7, <1>8 DEF WrittenInv

\* The log stays well formed and in step with the scheduler.
LEMMA LogNext ==
  ASSUME TypeStep, TypePool, FlightInv, GroupInv, LogInv, CursorInv, WrittenInv,
         [Next]_vars
  PROVE  LogInv' /\ CursorInv' /\ WrittenInv'
<1>1. CASE StepStarts
  BY <1>1, LogStepStarts
<1>2. CASE AdapterCalled
  <2>1. Quiet
    BY <1>2 DEF Quiet, AdapterCalled, turn, group, Sched, Over
  <2>. QED
    BY <2>1, LogQuiet
<1>3. CASE RequestFails
  <2>1. Quiet
    BY <1>3 DEF Quiet, RequestFails, turn, group, Sched, Over
  <2>. QED
    BY <2>1, LogQuiet
<1>4. ASSUME NEW n \in 0..MaxCalls, ModelReplies(n)
      PROVE  LogInv' /\ CursorInv' /\ WrittenInv'
  BY <1>4, LogModelReplies
<1>5. CASE StepReturns
  BY <1>5, LogStepReturns
<1>6. CASE StepFails
  <2>1. pc' = "closed" /\ Good(log') /\ log'[Len(log')].type = "turn/end"
    BY <1>6, WroteFailure DEF StepFails
  <2>. QED
    BY <2>1 DEF LogInv, CursorInv, WrittenInv, Over, Sched
<1>7. CASE TurnEnds
  BY <1>7, LogTurnEnds
<1>8. CASE Abort
  <2>1. Quiet
    BY <1>8 DEF Quiet, Abort, turn, group, Sched, Over
  <2>. QED
    BY <2>1, LogQuiet
<1>9. ASSUME NEW m \in Modes, GroupStarts(m)
      PROVE  LogInv' /\ CursorInv' /\ WrittenInv'
  <2>1. Quiet
    BY <1>9 DEF Quiet, GroupStarts, turn, group, Sched, Over
  <2>. QED
    BY <2>1, LogQuiet
<1>10. CASE GroupsDone
  <2>1. log' = log /\ step' = step /\ pc = "group" /\ pc' = "returned" /\ next = planned
    BY <1>10 DEF GroupsDone, turn
  <2>2. Scan(log).pending \in Seq(Ids) /\ Len(Scan(log).pending) = planned - committed
        /\ Scan(log).step = step
    BY <2>1, OpenTurn DEF CursorInv, Over, Sched
  <2>3. planned - committed = 0
    BY <2>1 DEF GroupInv, TypeStep
  <2>4. Scan(log).pending = <<>>
    BY <2>2, <2>3
  <2>5. LogInv'
    BY <2>1 DEF LogInv, Over
  <2>6. CursorInv' /\ WrittenInv'
    BY <2>1, <2>2, <2>4 DEF CursorInv, WrittenInv, Over, Sched
  <2>. QED
    BY <2>5, <2>6
<1>11. ASSUME NEW m \in Modes, CallStarts(m)
       PROVE  LogInv' /\ CursorInv' /\ WrittenInv'
  BY <1>11, LogCallStarts
<1>12. ASSUME NEW m \in Modes, FillEnds(m)
       PROVE  LogInv' /\ CursorInv' /\ WrittenInv'
  <2>1. Quiet
    BY <1>12 DEF Quiet, FillEnds, turn, group, Sched, Over
  <2>. QED
    BY <2>1, LogQuiet
<1>13. CASE Launches
  <2>1. Quiet
    BY <1>13 DEF Quiet, Launches, turn, group, Sched, Over
  <2>. QED
    BY <2>1, LogQuiet
<1>14. ASSUME NEW d \in {Failed, Skipped}, Refuses(d)
       PROVE  LogInv' /\ CursorInv' /\ WrittenInv'
  <2>1. Quiet
    BY <1>14 DEF Quiet, Refuses, turn, group, Sched, Over
  <2>. QED
    BY <2>1, LogQuiet
<1>15. CASE SchedulerThrows
  <2>1. Quiet
    BY <1>15 DEF Quiet, SchedulerThrows, turn, group, Sched, Over, TypeStep
  <2>. QED
    BY <2>1, LogQuiet
<1>16. ASSUME NEW c \in 1..MaxCalls, NEW b \in BOOLEAN, Commits(c, b)
       PROVE  LogInv' /\ CursorInv' /\ WrittenInv'
  BY <1>16, LogCommits
<1>17. CASE CommitEnds
  <2>1. Quiet
    BY <1>17 DEF Quiet, CommitEnds, turn, group, Sched, Over
  <2>. QED
    BY <2>1, LogQuiet
<1>18. ASSUME NEW c \in 1..MaxCalls, Invokes(c)
       PROVE  LogInv' /\ CursorInv' /\ WrittenInv'
  <2>1. Quiet
    BY <1>18 DEF Quiet, Invokes, turn, group, Sched, Over
  <2>. QED
    BY <2>1, LogQuiet
<1>19. ASSUME NEW c \in 1..MaxCalls, NEW d \in {Failed, Skipped}, Answers(c, d)
       PROVE  LogInv' /\ CursorInv' /\ WrittenInv'
  <2>1. Quiet
    BY <1>19 DEF Quiet, Answers, turn, group, Sched, Over
  <2>. QED
    BY <2>1, LogQuiet
<1>20. ASSUME NEW c \in 1..MaxCalls, WrapperAnswers(c)
       PROVE  LogInv' /\ CursorInv' /\ WrittenInv'
  <2>1. Quiet
    BY <1>20 DEF Quiet, WrapperAnswers, turn, group, Sched, Over
  <2>. QED
    BY <2>1, LogQuiet
<1>21. ASSUME NEW c \in 1..MaxCalls, NEW r \in {Ok, Failed}, BodySettles(c, r)
       PROVE  LogInv' /\ CursorInv' /\ WrittenInv'
  <2>1. Quiet
    BY <1>21 DEF Quiet, BodySettles, turn, group, Sched, Over
  <2>. QED
    BY <2>1, LogQuiet
<1>22. ASSUME NEW c \in 1..MaxCalls, DispatchRejects(c)
       PROVE  LogInv' /\ CursorInv' /\ WrittenInv'
  <2>1. Quiet
    BY <1>22 DEF Quiet, DispatchRejects, turn, group, Sched, Over
  <2>. QED
    BY <2>1, LogQuiet
<1>23. ASSUME NEW c \in 1..MaxCalls, RaceSettles(c)
       PROVE  LogInv' /\ CursorInv' /\ WrittenInv'
  <2>1. Quiet
    BY <1>23 DEF Quiet, RaceSettles, turn, group, Sched, Over
  <2>. QED
    BY <2>1, LogQuiet
<1>24. CASE Drain
  <2>1. Quiet
    BY <1>24 DEF Quiet, Drain, turn, group, Sched, Over
  <2>. QED
    BY <2>1, LogQuiet
<1>25. CASE GroupEnds
  BY <1>25, LogGroupEnds
<1>26. ASSUME NEW k \in 1..Len(log), Crash(k)
       PROVE  LogInv' /\ CursorInv' /\ WrittenInv'
  <2>1. pc' = "repaired" /\ log' = SubSeq(log, 1, k) \o Closers(SubSeq(log, 1, k))
    BY <1>26 DEF Crash
  <2>2. Good(log') /\ log'[Len(log')].type = "turn/end"
    BY <2>1, WroteRepair
  <2>. QED
    BY <2>1, <2>2 DEF LogInv, CursorInv, WrittenInv, Over, Sched
<1>27. CASE UNCHANGED vars
  <2>1. Quiet
    BY <1>27 DEF Quiet, vars, turn, group
  <2>. QED
    BY <2>1, LogQuiet
<1>. QED
  BY Steps, <1>1, <1>2, <1>3, <1>4, <1>5, <1>6, <1>7, <1>8, <1>9, <1>10, <1>11, <1>12,
     <1>13, <1>14, <1>15, <1>16, <1>17, <1>18, <1>19, <1>20, <1>21, <1>22, <1>23, <1>24,
     <1>25, <1>26, <1>27, Zenon

(***************************************************************************)
(* What is durable, and the bodies that ran                                *)
(***************************************************************************)

\* Only a call of a running group is in front of its body.
LEMMA InTheGroup ==
  ASSUME TypeStep, TypePool, FlightInv, GroupInv, NEW c \in flushing \cup running, pc # "repaired"
  PROVE  /\ pc \in Sched /\ pc \notin Over /\ step \in 1..MaxSteps /\ c \in 1..MaxCalls
         /\ c \in 1..nextToStart /\ committed < c /\ c <= planned
<1>1. c \in inFlight /\ inFlight # {} /\ c \in 1..MaxCalls /\ committed < c /\ c <= nextToStart
  BY DEF TypePool, FlightInv
<1>2. pc \in Sched /\ pc \notin Over /\ pc # "between"
  BY <1>1 DEF TypeStep, FlightInv, Sched, Over
<1>. QED
  BY <1>1, <1>2, ToolStepAssumption DEF TypeStep, GroupInv, Over

\* What the checkpoint in front of a body makes durable is its tool/call.
LEMMA CallFound ==
  ASSUME LogInv, NEW c, CallLogged(c)
  PROVE  CallAt(c) \in 1..Len(log) /\ log[CallAt(c)] = CallEvent(c)
<1>1. DOMAIN log = 1..Len(log)
  BY DEF LogInv, Good
<1>. QED
  BY <1>1 DEF CallLogged, CallAt

\* The durable part of the log only grows and is never rewritten.
Grown ==
  /\ Len(log') \in Nat /\ durable' \in 1..Len(log') /\ durable <= durable'
  /\ \A i \in 1..durable : i \in 1..durable' /\ log'[i] = log[i]

\* Appending keeps what is durable.
LEMMA GrownBy ==
  ASSUME LogInv, durable \in 1..Len(log), Extends(log', log), Len(log') \in Nat,
         durable' \in {durable, Len(log)}
  PROVE  Grown
<1>1. Len(log) \in Nat
  BY DEF LogInv, Good
<1>. QED
  BY <1>1 DEF Extends, Grown

\* One more event.
LEMMA OneMore ==
  ASSUME LogInv, NEW e, log' = log \o <<e>>
  PROVE  Extends(log', log) /\ Len(log') = Len(log) + 1 /\ Len(log') \in Nat
         /\ \A i \in 1..Len(log') : (i \in 1..Len(log) /\ log'[i] = log[i]) \/ log'[i] = e
<1>1. log \in Seq(Events) /\ Len(log) \in Nat
  BY DEF LogInv, Good
<1>. DEFINE ew == log \o <<e>>
<1>2. Len(ew) = Len(log) + 1 /\ ew[Len(log) + 1] = e /\ \A i \in 1..Len(log) : ew[i] = log[i]
  BY <1>1
<1>. HIDE DEF ew
<1>3. log' = ew
  BY DEF ew
<1>. QED
  BY <1>1, <1>2, <1>3 DEF Extends

\* The log as it was.
LEMMA SameLog ==
  ASSUME LogInv, log' = log
  PROVE  Extends(log', log) /\ Len(log') \in Nat
BY DEF LogInv, Good, Extends

\* No step rewrites or loses what a checkpoint made durable, a crash included.
LEMMA GrownNext ==
  ASSUME TypeStep, TypePool, FlightInv, GroupInv, LogInv, CursorInv, WrittenInv,
         durable \in 1..Len(log), [Next]_vars
  PROVE  Grown
<1>1. CASE StepStarts
  <2>1. PICK e : log' = log \o <<e>> /\ durable' \in {durable, Len(log)}
    BY <1>1 DEF StepStarts, Write, RequestCheckpoint, Flushed
  <2>2. Extends(log', log) /\ Len(log') \in Nat
    BY <2>1, OneMore
  <2>. QED
    BY <2>1, <2>2, GrownBy
<1>2. CASE AdapterCalled
  <2>1. log' = log /\ durable' \in {durable, Len(log)}
    BY <1>2 DEF AdapterCalled, RequestCheckpoint, Flushed
  <2>. QED
    BY <2>1, SameLog, GrownBy
<1>3. CASE RequestFails
  <2>1. log' = log /\ durable' \in {durable, Len(log)}
    BY <1>3 DEF RequestFails
  <2>. QED
    BY <2>1, SameLog, GrownBy
<1>4. ASSUME NEW n \in 0..MaxCalls, ModelReplies(n)
      PROVE  Grown
  <2>1. PICK e : log' = log \o <<e>> /\ durable' \in {durable, Len(log)}
    BY <1>4 DEF ModelReplies, Write
  <2>2. Extends(log', log) /\ Len(log') \in Nat
    BY <2>1, OneMore
  <2>. QED
    BY <2>1, <2>2, GrownBy
<1>5. CASE StepReturns
  <2>1. PICK e : log' = log \o <<e>> /\ durable' \in {durable, Len(log)}
    BY <1>5 DEF StepReturns, Write
  <2>2. Extends(log', log) /\ Len(log') \in Nat
    BY <2>1, OneMore
  <2>. QED
    BY <2>1, <2>2, GrownBy
<1>6. CASE StepFails
  <2>1. durable' = durable
    BY <1>6, Zenon DEF StepFails
  <2>2. Extends(log', log) /\ Good(log')
    BY <1>6, WroteFailure, Zenon
  <2>3. Len(log') \in Nat
    BY <2>2 DEF Good
  <2>. QED
    BY <2>1, <2>2, <2>3, GrownBy
<1>7. CASE TurnEnds
  <2>1. PICK e : log' = log \o <<e>> /\ durable' \in {durable, Len(log)}
    BY <1>7 DEF TurnEnds, Write
  <2>2. Extends(log', log) /\ Len(log') \in Nat
    BY <2>1, OneMore
  <2>. QED
    BY <2>1, <2>2, GrownBy
<1>8. CASE Abort
  <2>1. log' = log /\ durable' \in {durable, Len(log)}
    BY <1>8 DEF Abort
  <2>. QED
    BY <2>1, SameLog, GrownBy
<1>9. ASSUME NEW m \in Modes, GroupStarts(m)
      PROVE  Grown
  <2>1. log' = log /\ durable' \in {durable, Len(log)}
    BY <1>9 DEF GroupStarts
  <2>. QED
    BY <2>1, SameLog, GrownBy
<1>10. CASE GroupsDone
  <2>1. log' = log /\ durable' \in {durable, Len(log)}
    BY <1>10 DEF GroupsDone
  <2>. QED
    BY <2>1, SameLog, GrownBy
<1>11. ASSUME NEW m \in Modes, CallStarts(m)
       PROVE  Grown
  <2>1. PICK e : log' = log \o <<e>> /\ durable' \in {durable, Len(log)}
    BY <1>11 DEF CallStarts, Write
  <2>2. Extends(log', log) /\ Len(log') \in Nat
    BY <2>1, OneMore
  <2>. QED
    BY <2>1, <2>2, GrownBy
<1>12. ASSUME NEW m \in Modes, FillEnds(m)
       PROVE  Grown
  <2>1. log' = log /\ durable' \in {durable, Len(log)}
    BY <1>12 DEF FillEnds
  <2>. QED
    BY <2>1, SameLog, GrownBy
<1>13. CASE Launches
  <2>1. log' = log /\ durable' \in {durable, Len(log)}
    BY <1>13 DEF Launches
  <2>. QED
    BY <2>1, SameLog, GrownBy
<1>14. ASSUME NEW d \in {Failed, Skipped}, Refuses(d)
       PROVE  Grown
  <2>1. log' = log /\ durable' \in {durable, Len(log)}
    BY <1>14 DEF Refuses
  <2>. QED
    BY <2>1, SameLog, GrownBy
<1>15. CASE SchedulerThrows
  <2>1. log' = log /\ durable' \in {durable, Len(log)}
    BY <1>15 DEF SchedulerThrows
  <2>. QED
    BY <2>1, SameLog, GrownBy
<1>16. ASSUME NEW c \in 1..MaxCalls, NEW b \in BOOLEAN, Commits(c, b)
       PROVE  Grown
  <2>1. PICK e : log' = log \o <<e>> /\ durable' \in {durable, Len(log)}
    BY <1>16 DEF Commits, Write
  <2>2. Extends(log', log) /\ Len(log') \in Nat
    BY <2>1, OneMore
  <2>. QED
    BY <2>1, <2>2, GrownBy
<1>17. CASE CommitEnds
  <2>1. log' = log /\ durable' \in {durable, Len(log)}
    BY <1>17 DEF CommitEnds
  <2>. QED
    BY <2>1, SameLog, GrownBy
<1>18. ASSUME NEW c \in 1..MaxCalls, Invokes(c)
       PROVE  Grown
  <2>1. c \in flushing /\ pc # "repaired" /\ log' = log
        /\ (durable' = durable \/ Flushed(CallAt(c)))
    BY <1>18 DEF Invokes
  <2>2. CallAt(c) \in 1..Len(log)
    <3>1. CallLogged(c)
      BY <2>1, InTheGroup DEF WrittenInv
    <3>. QED
      BY <3>1, CallFound
  <2>3. Len(log) \in Nat
    BY DEF LogInv, Good
  <2>4. durable' \in 1..Len(log) /\ durable <= durable'
    BY <2>1, <2>2, <2>3 DEF Flushed
  <2>. QED
    BY <2>1, <2>3, <2>4 DEF Grown
<1>19. ASSUME NEW c \in 1..MaxCalls, NEW d \in {Failed, Skipped}, Answers(c, d)
       PROVE  Grown
  <2>1. c \in flushing /\ pc # "repaired" /\ log' = log
        /\ (durable' = durable \/ Flushed(CallAt(c)))
    BY <1>19 DEF Answers
  <2>2. CallAt(c) \in 1..Len(log)
    <3>1. CallLogged(c)
      BY <2>1, InTheGroup DEF WrittenInv
    <3>. QED
      BY <3>1, CallFound
  <2>3. Len(log) \in Nat
    BY DEF LogInv, Good
  <2>4. durable' \in 1..Len(log) /\ durable <= durable'
    BY <2>1, <2>2, <2>3 DEF Flushed
  <2>. QED
    BY <2>1, <2>3, <2>4 DEF Grown
<1>20. ASSUME NEW c \in 1..MaxCalls, WrapperAnswers(c)
       PROVE  Grown
  <2>1. log' = log /\ durable' \in {durable, Len(log)}
    BY <1>20 DEF WrapperAnswers
  <2>. QED
    BY <2>1, SameLog, GrownBy
<1>21. ASSUME NEW c \in 1..MaxCalls, NEW r \in {Ok, Failed}, BodySettles(c, r)
       PROVE  Grown
  <2>1. log' = log /\ durable' \in {durable, Len(log)}
    BY <1>21 DEF BodySettles
  <2>. QED
    BY <2>1, SameLog, GrownBy
<1>22. ASSUME NEW c \in 1..MaxCalls, DispatchRejects(c)
       PROVE  Grown
  <2>1. log' = log /\ durable' \in {durable, Len(log)}
    BY <1>22 DEF DispatchRejects
  <2>. QED
    BY <2>1, SameLog, GrownBy
<1>23. ASSUME NEW c \in 1..MaxCalls, RaceSettles(c)
       PROVE  Grown
  <2>1. log' = log /\ durable' \in {durable, Len(log)}
    BY <1>23 DEF RaceSettles
  <2>. QED
    BY <2>1, SameLog, GrownBy
<1>24. CASE Drain
  <2>1. log' = log /\ durable' \in {durable, Len(log)}
    BY <1>24 DEF Drain
  <2>. QED
    BY <2>1, SameLog, GrownBy
<1>25. CASE GroupEnds
  <2>1. pc = "finish" /\ durable' = durable /\ (log' = log \/ log' = log \o SkippedPairs)
    BY <1>25, Zenon DEF GroupEnds, Write
  <2>2. Extends(log', log) /\ Len(log') \in Nat
    BY <2>1, SameLog, WrotePairs DEF Good
  <2>. QED
    BY <2>1, <2>2, GrownBy
<1>26. ASSUME NEW k \in 1..Len(log), Crash(k)
       PROVE  Grown
  <2>1. k >= durable /\ durable' = Len(log') /\ log' = SubSeq(log, 1, k) \o Closers(SubSeq(log, 1, k))
    BY <1>26 DEF Crash
  <2>2. Len(log') \in Nat /\ k <= Len(log') /\ \A i \in 1..k : log'[i] = log[i]
    BY <2>1, WroteRepair
  <2>3. Len(log) \in Nat /\ durable \in 1..Len(log)
    BY DEF LogInv, Good
  <2>4. \A i \in 1..durable : i \in 1..k
    BY <2>1, <2>3
  <2>5. \A i \in 1..durable : i \in 1..Len(log')
    BY <2>1, <2>2, <2>3
  <2>6. durable <= Len(log') /\ Len(log') \in 1..Len(log')
    BY <2>1, <2>2, <2>3
  <2>. QED
    BY <2>1, <2>2, <2>4, <2>5, <2>6 DEF Grown
<1>27. CASE UNCHANGED vars
  <2>1. log' = log /\ durable' \in {durable, Len(log)}
    BY <1>27 DEF vars
  <2>. QED
    BY <2>1, SameLog, GrownBy
<1>. QED
  BY Steps, <1>1, <1>2, <1>3, <1>4, <1>5, <1>6, <1>7, <1>8, <1>9, <1>10, <1>11, <1>12,
     <1>13, <1>14, <1>15, <1>16, <1>17, <1>18, <1>19, <1>20, <1>21, <1>22, <1>23, <1>24,
     <1>25, <1>26, <1>27, Zenon

\* A body that ran has its tool/call in the durable log.
Ran(c) == Call(c) \in dispatched
CalledInv ==
  \A c \in dispatched : c[1] <= step /\ \E i \in 1..durable : log[i].type = "tool/call" /\ log[i].id = c

\* No body runs twice, and the results of the pool tell whether it ran.
OnceInv ==
  /\ pc \in {"request", "model"} => \A c \in 1..MaxCalls : ~Ran(c)
  /\ pc \in Sched =>
       \A c \in 1..MaxCalls :
         /\ nextToStart < c \/ c \in flushing \/ slots[c] = Skipped => ~Ran(c)
         /\ slots[c] = Aborted => Ran(c)

\* What a request carried is durable.
ShownInv ==
  \A c \in shown : \E r \in 1..durable :
    log[r].type = "tool/result" /\ log[r].id = c /\ log[r].note \notin {Unknown, NotStarted}

\* Types of the history.
LEMMA TypeHistoryNext ==
  ASSUME TypeStep, TypePool, FlightInv, GroupInv, LogInv, CursorInv, WrittenInv,
         TypeHistory, Grown, [Next]_vars
  PROVE  TypeHistory'
<1>1. CASE StepStarts
  <2>1. dispatched' = dispatched /\ shown' = shown
    BY <1>1 DEF StepStarts, turn, pool, bodies
  <2>. QED
    BY <2>1 DEF Grown, TypeHistory
<1>2. CASE AdapterCalled
  <2>1. /\ dispatched' = dispatched /\ pc = "request"
        /\ shown' = {log[i].id : i \in {j \in DOMAIN log : log[j].type = "tool/result"}}
    BY <1>2 DEF AdapterCalled, pool, bodies
  <2>2. DOMAIN log = 1..Len(log)
    BY DEF LogInv, Good
  <2>3. shown' \subseteq (1..MaxSteps) \X (1..MaxCalls)
    BY <2>1, <2>2 DEF WrittenInv, Over
  <2>. QED
    BY <2>1, <2>3 DEF Grown, TypeHistory
<1>3. CASE RequestFails
  <2>1. dispatched' = dispatched /\ shown' = shown
    BY <1>3 DEF RequestFails, turn, pool, bodies
  <2>. QED
    BY <2>1 DEF Grown, TypeHistory
<1>4. ASSUME NEW n \in 0..MaxCalls, ModelReplies(n)
      PROVE  TypeHistory'
  <2>1. dispatched' = dispatched /\ shown' = shown
    BY <1>4 DEF ModelReplies, turn, pool, bodies
  <2>. QED
    BY <2>1 DEF Grown, TypeHistory
<1>5. CASE StepReturns
  <2>1. dispatched' = dispatched /\ shown' = shown
    BY <1>5 DEF StepReturns, turn, pool, bodies
  <2>. QED
    BY <2>1 DEF Grown, TypeHistory
<1>6. CASE StepFails
  <2>1. dispatched' = dispatched /\ shown' = shown
    BY <1>6, Zenon DEF StepFails, turn, pool, bodies
  <2>. QED
    BY <2>1 DEF Grown, TypeHistory
<1>7. CASE TurnEnds
  <2>1. dispatched' = dispatched /\ shown' = shown
    BY <1>7 DEF TurnEnds, turn, pool, bodies
  <2>. QED
    BY <2>1 DEF Grown, TypeHistory
<1>8. CASE Abort
  <2>1. dispatched' = dispatched /\ shown' = shown
    BY <1>8 DEF Abort, turn, pool, bodies
  <2>. QED
    BY <2>1 DEF Grown, TypeHistory
<1>9. ASSUME NEW m \in Modes, GroupStarts(m)
      PROVE  TypeHistory'
  <2>1. dispatched' = dispatched /\ shown' = shown
    BY <1>9 DEF GroupStarts, turn, pool, bodies
  <2>. QED
    BY <2>1 DEF Grown, TypeHistory
<1>10. CASE GroupsDone
  <2>1. dispatched' = dispatched /\ shown' = shown
    BY <1>10 DEF GroupsDone, turn, pool, bodies
  <2>. QED
    BY <2>1 DEF Grown, TypeHistory
<1>11. ASSUME NEW m \in Modes, CallStarts(m)
       PROVE  TypeHistory'
  <2>1. dispatched' = dispatched /\ shown' = shown
    BY <1>11 DEF CallStarts, turn, pool, bodies
  <2>. QED
    BY <2>1 DEF Grown, TypeHistory
<1>12. ASSUME NEW m \in Modes, FillEnds(m)
       PROVE  TypeHistory'
  <2>1. dispatched' = dispatched /\ shown' = shown
    BY <1>12 DEF FillEnds, turn, pool, bodies
  <2>. QED
    BY <2>1 DEF Grown, TypeHistory
<1>13. CASE Launches
  <2>1. dispatched' = dispatched /\ shown' = shown
    BY <1>13 DEF Launches, turn, pool, bodies
  <2>. QED
    BY <2>1 DEF Grown, TypeHistory
<1>14. ASSUME NEW d \in {Failed, Skipped}, Refuses(d)
       PROVE  TypeHistory'
  <2>1. dispatched' = dispatched /\ shown' = shown
    BY <1>14 DEF Refuses, turn, pool, bodies
  <2>. QED
    BY <2>1 DEF Grown, TypeHistory
<1>15. CASE SchedulerThrows
  <2>1. dispatched' = dispatched /\ shown' = shown
    BY <1>15 DEF SchedulerThrows, turn, pool, bodies
  <2>. QED
    BY <2>1 DEF Grown, TypeHistory
<1>16. ASSUME NEW c \in 1..MaxCalls, NEW b \in BOOLEAN, Commits(c, b)
       PROVE  TypeHistory'
  <2>1. dispatched' = dispatched /\ shown' = shown
    BY <1>16 DEF Commits, turn, pool, bodies
  <2>. QED
    BY <2>1 DEF Grown, TypeHistory
<1>17. CASE CommitEnds
  <2>1. dispatched' = dispatched /\ shown' = shown
    BY <1>17 DEF CommitEnds, turn, pool, bodies
  <2>. QED
    BY <2>1 DEF Grown, TypeHistory
<1>18. ASSUME NEW c \in 1..MaxCalls, Invokes(c)
       PROVE  TypeHistory'
  <2>1. dispatched' = dispatched \cup {Call(c)} /\ shown' = shown /\ c \in flushing /\ pc # "repaired"
    BY <1>18 DEF Invokes, turn
  <2>2. Call(c) \in (1..MaxSteps) \X (1..MaxCalls)
    BY <2>1, InTheGroup DEF Call
  <2>. QED
    BY <2>1, <2>2 DEF Grown, TypeHistory
<1>19. ASSUME NEW c \in 1..MaxCalls, NEW d \in {Failed, Skipped}, Answers(c, d)
       PROVE  TypeHistory'
  <2>1. dispatched' = dispatched /\ shown' = shown
    BY <1>19 DEF Answers, turn, pool, bodies
  <2>. QED
    BY <2>1 DEF Grown, TypeHistory
<1>20. ASSUME NEW c \in 1..MaxCalls, WrapperAnswers(c)
       PROVE  TypeHistory'
  <2>1. dispatched' = dispatched /\ shown' = shown
    BY <1>20 DEF WrapperAnswers, turn, pool, bodies
  <2>. QED
    BY <2>1 DEF Grown, TypeHistory
<1>21. ASSUME NEW c \in 1..MaxCalls, NEW r \in {Ok, Failed}, BodySettles(c, r)
       PROVE  TypeHistory'
  <2>1. dispatched' = dispatched /\ shown' = shown
    BY <1>21 DEF BodySettles, turn, pool, bodies
  <2>. QED
    BY <2>1 DEF Grown, TypeHistory
<1>22. ASSUME NEW c \in 1..MaxCalls, DispatchRejects(c)
       PROVE  TypeHistory'
  <2>1. dispatched' = dispatched /\ shown' = shown
    BY <1>22 DEF DispatchRejects, turn, pool, bodies
  <2>. QED
    BY <2>1 DEF Grown, TypeHistory
<1>23. ASSUME NEW c \in 1..MaxCalls, RaceSettles(c)
       PROVE  TypeHistory'
  <2>1. dispatched' = dispatched /\ shown' = shown
    BY <1>23 DEF RaceSettles, turn, pool, bodies
  <2>. QED
    BY <2>1 DEF Grown, TypeHistory
<1>24. CASE Drain
  <2>1. dispatched' = dispatched /\ shown' = shown
    BY <1>24 DEF Drain, turn, pool, bodies
  <2>. QED
    BY <2>1 DEF Grown, TypeHistory
<1>25. CASE GroupEnds
  <2>1. dispatched' = dispatched /\ shown' = shown
    BY <1>25 DEF GroupEnds, turn, pool, bodies
  <2>. QED
    BY <2>1 DEF Grown, TypeHistory
<1>26. ASSUME NEW k \in 1..Len(log), Crash(k)
       PROVE  TypeHistory'
  <2>1. dispatched' = dispatched /\ shown' = shown
    BY <1>26 DEF Crash, turn, pool, bodies
  <2>. QED
    BY <2>1 DEF Grown, TypeHistory
<1>27. CASE UNCHANGED vars
  <2>1. dispatched' = dispatched /\ shown' = shown
    BY <1>27 DEF vars, turn, pool, bodies
  <2>. QED
    BY <2>1 DEF Grown, TypeHistory
<1>. QED
  BY Steps, <1>1, <1>2, <1>3, <1>4, <1>5, <1>6, <1>7, <1>8, <1>9, <1>10, <1>11, <1>12,
     <1>13, <1>14, <1>15, <1>16, <1>17, <1>18, <1>19, <1>20, <1>21, <1>22, <1>23, <1>24,
     <1>25, <1>26, <1>27, Zenon

\* A body that ran before the step.
LEMMA CalledKept ==
  ASSUME TypeStep, TypeHistory, CalledInv, Grown, dispatched' = dispatched, step' \in {step, step + 1}
  PROVE  CalledInv'
<1>. SUFFICES ASSUME NEW c \in dispatched
             PROVE  c[1] <= step' /\ \E i \in 1..durable' : log'[i].type = "tool/call" /\ log'[i].id = c
  BY DEF CalledInv
<1>1. c[1] \in Nat /\ c[1] <= step /\ step \in Nat
  BY DEF TypeHistory, CalledInv, TypeStep
<1>2. PICK i \in 1..durable : log[i].type = "tool/call" /\ log[i].id = c
  BY DEF CalledInv
<1>3. i \in 1..durable' /\ log'[i] = log[i]
  BY DEF Grown
<1>. QED
  BY <1>1, <1>2, <1>3

\* The checkpoint in front of a body covers its tool/call.
LEMMA CalledNext ==
  ASSUME TypeStep, TypePool, FlightInv, GroupInv, LogInv, CursorInv, WrittenInv,
         TypeHistory, Grown, CalledInv, [Next]_vars
  PROVE  CalledInv'
<1>1. CASE StepStarts
  <2>1. dispatched' = dispatched /\ step' \in {step, step + 1}
    BY <1>1 DEF StepStarts, turn, pool, bodies
  <2>. QED
    BY <2>1, CalledKept
<1>2. CASE AdapterCalled
  <2>1. dispatched' = dispatched /\ step' \in {step, step + 1}
    BY <1>2 DEF AdapterCalled, turn, pool, bodies
  <2>. QED
    BY <2>1, CalledKept
<1>3. CASE RequestFails
  <2>1. dispatched' = dispatched /\ step' \in {step, step + 1}
    BY <1>3 DEF RequestFails, turn, pool, bodies
  <2>. QED
    BY <2>1, CalledKept
<1>4. ASSUME NEW n \in 0..MaxCalls, ModelReplies(n)
      PROVE  CalledInv'
  <2>1. dispatched' = dispatched /\ step' \in {step, step + 1}
    BY <1>4 DEF ModelReplies, turn, pool, bodies
  <2>. QED
    BY <2>1, CalledKept
<1>5. CASE StepReturns
  <2>1. dispatched' = dispatched /\ step' \in {step, step + 1}
    BY <1>5 DEF StepReturns, turn, pool, bodies
  <2>. QED
    BY <2>1, CalledKept
<1>6. CASE StepFails
  <2>1. dispatched' = dispatched /\ step' = step
    BY <1>6, Zenon DEF StepFails, turn, pool, bodies
  <2>. QED
    BY <2>1, CalledKept
<1>7. CASE TurnEnds
  <2>1. dispatched' = dispatched /\ step' \in {step, step + 1}
    BY <1>7 DEF TurnEnds, turn, pool, bodies
  <2>. QED
    BY <2>1, CalledKept
<1>8. CASE Abort
  <2>1. dispatched' = dispatched /\ step' \in {step, step + 1}
    BY <1>8 DEF Abort, turn, pool, bodies
  <2>. QED
    BY <2>1, CalledKept
<1>9. ASSUME NEW m \in Modes, GroupStarts(m)
      PROVE  CalledInv'
  <2>1. dispatched' = dispatched /\ step' \in {step, step + 1}
    BY <1>9 DEF GroupStarts, turn, pool, bodies
  <2>. QED
    BY <2>1, CalledKept
<1>10. CASE GroupsDone
  <2>1. dispatched' = dispatched /\ step' \in {step, step + 1}
    BY <1>10 DEF GroupsDone, turn, pool, bodies
  <2>. QED
    BY <2>1, CalledKept
<1>11. ASSUME NEW m \in Modes, CallStarts(m)
       PROVE  CalledInv'
  <2>1. dispatched' = dispatched /\ step' \in {step, step + 1}
    BY <1>11 DEF CallStarts, turn, pool, bodies
  <2>. QED
    BY <2>1, CalledKept
<1>12. ASSUME NEW m \in Modes, FillEnds(m)
       PROVE  CalledInv'
  <2>1. dispatched' = dispatched /\ step' \in {step, step + 1}
    BY <1>12 DEF FillEnds, turn, pool, bodies
  <2>. QED
    BY <2>1, CalledKept
<1>13. CASE Launches
  <2>1. dispatched' = dispatched /\ step' \in {step, step + 1}
    BY <1>13 DEF Launches, turn, pool, bodies
  <2>. QED
    BY <2>1, CalledKept
<1>14. ASSUME NEW d \in {Failed, Skipped}, Refuses(d)
       PROVE  CalledInv'
  <2>1. dispatched' = dispatched /\ step' \in {step, step + 1}
    BY <1>14 DEF Refuses, turn, pool, bodies
  <2>. QED
    BY <2>1, CalledKept
<1>15. CASE SchedulerThrows
  <2>1. dispatched' = dispatched /\ step' \in {step, step + 1}
    BY <1>15 DEF SchedulerThrows, turn, pool, bodies
  <2>. QED
    BY <2>1, CalledKept
<1>16. ASSUME NEW c \in 1..MaxCalls, NEW b \in BOOLEAN, Commits(c, b)
       PROVE  CalledInv'
  <2>1. dispatched' = dispatched /\ step' \in {step, step + 1}
    BY <1>16 DEF Commits, turn, pool, bodies
  <2>. QED
    BY <2>1, CalledKept
<1>17. CASE CommitEnds
  <2>1. dispatched' = dispatched /\ step' \in {step, step + 1}
    BY <1>17 DEF CommitEnds, turn, pool, bodies
  <2>. QED
    BY <2>1, CalledKept
<1>18. ASSUME NEW c \in 1..MaxCalls, Invokes(c)
       PROVE  CalledInv'
  <2>1. /\ dispatched' = dispatched \cup {Call(c)} /\ c \in flushing /\ pc # "repaired"
        /\ step' = step /\ log' = log /\ Flushed(CallAt(c))
    BY <1>18 DEF Invokes, turn
  <2>2. pc \in Sched /\ step \in Nat /\ c \in 1..nextToStart
    BY <2>1, InTheGroup
  <2>3. CallAt(c) \in 1..Len(log) /\ log[CallAt(c)] = CallEvent(c) /\ Len(log) \in Nat
    BY <2>2, CallFound DEF WrittenInv, LogInv, Good
  <2>4. durable \in Nat /\ CallAt(c) \in 1..durable'
    BY <2>1, <2>3 DEF Flushed, TypeHistory
  <2>5. CallEvent(c).type = "tool/call" /\ CallEvent(c).id = Call(c) /\ Call(c)[1] = step
    BY DEF CallEvent, Call, Event
  <2>6. \A x \in dispatched : x[1] <= step /\ \E i \in 1..durable' : log[i].type = "tool/call" /\ log[i].id = x
    BY <2>1 DEF CalledInv, Grown
  <2>7. step <= step
    BY <2>2
  <2>8. \A x \in dispatched' : x[1] <= step /\ \E i \in 1..durable' : log[i].type = "tool/call" /\ log[i].id = x
    BY <2>1, <2>3, <2>4, <2>5, <2>6, <2>7
  <2>. QED
    BY <2>1, <2>8 DEF CalledInv
<1>19. ASSUME NEW c \in 1..MaxCalls, NEW d \in {Failed, Skipped}, Answers(c, d)
       PROVE  CalledInv'
  <2>1. dispatched' = dispatched /\ step' \in {step, step + 1}
    BY <1>19 DEF Answers, turn, pool, bodies
  <2>. QED
    BY <2>1, CalledKept
<1>20. ASSUME NEW c \in 1..MaxCalls, WrapperAnswers(c)
       PROVE  CalledInv'
  <2>1. dispatched' = dispatched /\ step' \in {step, step + 1}
    BY <1>20 DEF WrapperAnswers, turn, pool, bodies
  <2>. QED
    BY <2>1, CalledKept
<1>21. ASSUME NEW c \in 1..MaxCalls, NEW r \in {Ok, Failed}, BodySettles(c, r)
       PROVE  CalledInv'
  <2>1. dispatched' = dispatched /\ step' \in {step, step + 1}
    BY <1>21 DEF BodySettles, turn, pool, bodies
  <2>. QED
    BY <2>1, CalledKept
<1>22. ASSUME NEW c \in 1..MaxCalls, DispatchRejects(c)
       PROVE  CalledInv'
  <2>1. dispatched' = dispatched /\ step' \in {step, step + 1}
    BY <1>22 DEF DispatchRejects, turn, pool, bodies
  <2>. QED
    BY <2>1, CalledKept
<1>23. ASSUME NEW c \in 1..MaxCalls, RaceSettles(c)
       PROVE  CalledInv'
  <2>1. dispatched' = dispatched /\ step' \in {step, step + 1}
    BY <1>23 DEF RaceSettles, turn, pool, bodies
  <2>. QED
    BY <2>1, CalledKept
<1>24. CASE Drain
  <2>1. dispatched' = dispatched /\ step' \in {step, step + 1}
    BY <1>24 DEF Drain, turn, pool, bodies
  <2>. QED
    BY <2>1, CalledKept
<1>25. CASE GroupEnds
  <2>1. dispatched' = dispatched /\ step' \in {step, step + 1}
    BY <1>25 DEF GroupEnds, turn, pool, bodies
  <2>. QED
    BY <2>1, CalledKept
<1>26. ASSUME NEW k \in 1..Len(log), Crash(k)
       PROVE  CalledInv'
  <2>1. dispatched' = dispatched /\ step' \in {step, step + 1}
    BY <1>26 DEF Crash, turn, pool, bodies
  <2>. QED
    BY <2>1, CalledKept
<1>27. CASE UNCHANGED vars
  <2>1. dispatched' = dispatched /\ step' \in {step, step + 1}
    BY <1>27 DEF vars, turn, pool, bodies
  <2>. QED
    BY <2>1, CalledKept
<1>. QED
  BY Steps, <1>1, <1>2, <1>3, <1>4, <1>5, <1>6, <1>7, <1>8, <1>9, <1>10, <1>11, <1>12,
     <1>13, <1>14, <1>15, <1>16, <1>17, <1>18, <1>19, <1>20, <1>21, <1>22, <1>23, <1>24,
     <1>25, <1>26, <1>27, Zenon

\* A body is invoked once, and the pool knows whether it was.
LEMMA OnceNext ==
  ASSUME TypeStep, TypePool, FlightInv, GroupInv, CalledInv, OnceInv, [Next]_vars
  PROVE  OnceInv'
<1>1. CASE StepStarts
  <2>1. pc' = "request" /\ step' = step + 1 /\ dispatched' = dispatched
    BY <1>1 DEF StepStarts, pool, bodies
  <2>2. \A x \in dispatched : x[1] <= step
    BY DEF CalledInv
  <2>3. step \in Nat /\ ~(step + 1 <= step)
    BY DEF TypeStep
  <2>4. \A c \in 1..MaxCalls : ~Ran(c)'
    BY <2>1, <2>2, <2>3 DEF Ran, Call
  <2>. QED
    BY <2>1, <2>4 DEF OnceInv, Sched
<1>2. CASE AdapterCalled
  <2>1. step' = step /\ dispatched' = dispatched
    BY <1>2 DEF AdapterCalled, turn, pool, bodies
  <2>2. \A x : Ran(x)' <=> Ran(x)
    BY <2>1 DEF Ran, Call
  <2>3. nextToStart' = nextToStart /\ flushing' = flushing /\ slots' = slots
        /\ (pc' \in {"request", "model"} => pc \in {"request", "model"}) /\ (pc' \in Sched => pc \in Sched)
    BY <1>2 DEF AdapterCalled, turn, group, pool, bodies, Sched, Over
  <2>. QED
    BY <2>2, <2>3 DEF OnceInv
<1>3. CASE RequestFails
  <2>1. step' = step /\ dispatched' = dispatched
    BY <1>3 DEF RequestFails, turn, pool, bodies
  <2>2. \A x : Ran(x)' <=> Ran(x)
    BY <2>1 DEF Ran, Call
  <2>3. nextToStart' = nextToStart /\ flushing' = flushing /\ slots' = slots
        /\ (pc' \in {"request", "model"} => pc \in {"request", "model"}) /\ (pc' \in Sched => pc \in Sched)
    BY <1>3 DEF RequestFails, turn, group, pool, bodies, Sched, Over
  <2>. QED
    BY <2>2, <2>3 DEF OnceInv
<1>4. ASSUME NEW n \in 0..MaxCalls, ModelReplies(n)
      PROVE  OnceInv'
  <2>1. /\ pc = "model" /\ pc' = "group" /\ step' = step /\ dispatched' = dispatched /\ flushing' = flushing
        /\ slots' = [k \in 1..MaxCalls |-> None]
    BY <1>4 DEF ModelReplies, FirstGroup, bodies
  <2>2. \A x : Ran(x)' <=> Ran(x)
    BY <2>1 DEF Ran, Call
  <2>3. \A c \in 1..MaxCalls : ~Ran(c)
    BY <2>1 DEF OnceInv
  <2>4. \A c \in 1..MaxCalls : slots'[c] # Aborted
    BY <2>1 DEF None, Aborted
  <2>. QED
    BY <2>1, <2>2, <2>3, <2>4 DEF OnceInv
<1>5. CASE StepReturns
  <2>1. step' = step /\ dispatched' = dispatched
    BY <1>5 DEF StepReturns, turn, pool, bodies
  <2>2. \A x : Ran(x)' <=> Ran(x)
    BY <2>1 DEF Ran, Call
  <2>3. nextToStart' = nextToStart /\ flushing' = flushing /\ slots' = slots
        /\ (pc' \in {"request", "model"} => pc \in {"request", "model"}) /\ (pc' \in Sched => pc \in Sched)
    BY <1>5 DEF StepReturns, turn, group, pool, bodies, Sched, Over
  <2>. QED
    BY <2>2, <2>3 DEF OnceInv
<1>6. CASE StepFails
  <2>1. pc' = "closed"
    BY <1>6, Zenon DEF StepFails
  <2>. QED
    BY <2>1 DEF OnceInv, Sched
<1>7. CASE TurnEnds
  <2>1. step' = step /\ dispatched' = dispatched
    BY <1>7 DEF TurnEnds, turn, pool, bodies
  <2>2. \A x : Ran(x)' <=> Ran(x)
    BY <2>1 DEF Ran, Call
  <2>3. nextToStart' = nextToStart /\ flushing' = flushing /\ slots' = slots
        /\ (pc' \in {"request", "model"} => pc \in {"request", "model"}) /\ (pc' \in Sched => pc \in Sched)
    BY <1>7 DEF TurnEnds, turn, group, pool, bodies, Sched, Over
  <2>. QED
    BY <2>2, <2>3 DEF OnceInv
<1>8. CASE Abort
  <2>1. step' = step /\ dispatched' = dispatched
    BY <1>8 DEF Abort, turn, pool, bodies
  <2>2. \A x : Ran(x)' <=> Ran(x)
    BY <2>1 DEF Ran, Call
  <2>3. nextToStart' = nextToStart /\ flushing' = flushing /\ slots' = slots
        /\ (pc' \in {"request", "model"} => pc \in {"request", "model"}) /\ (pc' \in Sched => pc \in Sched)
    BY <1>8 DEF Abort, turn, group, pool, bodies, Sched, Over
  <2>. QED
    BY <2>2, <2>3 DEF OnceInv
<1>9. ASSUME NEW m \in Modes, GroupStarts(m)
      PROVE  OnceInv'
  <2>1. step' = step /\ dispatched' = dispatched
    BY <1>9 DEF GroupStarts, turn, pool, bodies
  <2>2. \A x : Ran(x)' <=> Ran(x)
    BY <2>1 DEF Ran, Call
  <2>3. nextToStart' = nextToStart /\ flushing' = flushing /\ slots' = slots
        /\ (pc' \in {"request", "model"} => pc \in {"request", "model"}) /\ (pc' \in Sched => pc \in Sched)
    BY <1>9 DEF GroupStarts, turn, group, pool, bodies, Sched, Over
  <2>. QED
    BY <2>2, <2>3 DEF OnceInv
<1>10. CASE GroupsDone
  <2>1. step' = step /\ dispatched' = dispatched
    BY <1>10 DEF GroupsDone, turn, pool, bodies
  <2>2. \A x : Ran(x)' <=> Ran(x)
    BY <2>1 DEF Ran, Call
  <2>3. nextToStart' = nextToStart /\ flushing' = flushing /\ slots' = slots
        /\ (pc' \in {"request", "model"} => pc \in {"request", "model"}) /\ (pc' \in Sched => pc \in Sched)
    BY <1>10 DEF GroupsDone, turn, group, pool, bodies, Sched, Over
  <2>. QED
    BY <2>2, <2>3 DEF OnceInv
<1>11. ASSUME NEW m \in Modes, CallStarts(m)
       PROVE  OnceInv'
  <2>1. step' = step /\ dispatched' = dispatched
    BY <1>11 DEF CallStarts, turn, pool, bodies
  <2>2. \A x : Ran(x)' <=> Ran(x)
    BY <2>1 DEF Ran, Call
  <2>3. nextToStart' = nextToStart /\ flushing' = flushing /\ slots' = slots
        /\ (pc' \in {"request", "model"} => pc \in {"request", "model"}) /\ (pc' \in Sched => pc \in Sched)
    BY <1>11 DEF CallStarts, turn, group, pool, bodies, Sched, Over
  <2>. QED
    BY <2>2, <2>3 DEF OnceInv
<1>12. ASSUME NEW m \in Modes, FillEnds(m)
       PROVE  OnceInv'
  <2>1. step' = step /\ dispatched' = dispatched
    BY <1>12 DEF FillEnds, turn, pool, bodies
  <2>2. \A x : Ran(x)' <=> Ran(x)
    BY <2>1 DEF Ran, Call
  <2>3. nextToStart' = nextToStart /\ flushing' = flushing /\ slots' = slots
        /\ (pc' \in {"request", "model"} => pc \in {"request", "model"}) /\ (pc' \in Sched => pc \in Sched)
    BY <1>12 DEF FillEnds, turn, group, pool, bodies, Sched, Over
  <2>. QED
    BY <2>2, <2>3 DEF OnceInv
<1>13. CASE Launches
  <2>1. /\ step' = step /\ dispatched' = dispatched
    BY <1>13 DEF Launches, turn, pool, bodies
  <2>2. \A x : Ran(x)' <=> Ran(x)
    BY <2>1 DEF Ran, Call
  <2>3. /\ pc = "prepare" /\ pc' = "commit" /\ nextToStart' = nextToStart + 1 /\ nextToStart \in Nat
        /\ slots' = slots /\ flushing' = flushing \cup {nextToStart + 1}
    BY <1>13, ToolStepAssumption DEF Launches, turn, group, pool, bodies, TypeStep
  <2>4. \A x \in 1..MaxCalls : (nextToStart' < x \/ x \in flushing' => nextToStart < x \/ x \in flushing)
    BY <2>3
  <2>. QED
    BY <2>2, <2>3, <2>4 DEF OnceInv, Sched
<1>14. ASSUME NEW d \in {Failed, Skipped}, Refuses(d)
       PROVE  OnceInv'
  <2>1. /\ step' = step /\ dispatched' = dispatched
    BY <1>14 DEF Refuses, turn, pool, bodies
  <2>2. \A x : Ran(x)' <=> Ran(x)
    BY <2>1 DEF Ran, Call
  <2>3. /\ pc = "prepare" /\ pc' = "commit" /\ nextToStart' = nextToStart + 1 /\ nextToStart \in Nat
        /\ slots' = [slots EXCEPT ![nextToStart + 1] = d] /\ flushing' = flushing
    BY <1>14, ToolStepAssumption DEF Refuses, turn, group, pool, bodies, TypeStep
  <2>4. \A x \in 1..MaxCalls :
          /\ nextToStart' < x => nextToStart < x
          /\ slots'[x] = slots[x] \/ (nextToStart < x /\ slots'[x] # Aborted)
    BY <2>3 DEF TypePool, Failed, Skipped, Aborted
  <2>. QED
    BY <2>2, <2>3, <2>4 DEF OnceInv, Sched
<1>15. CASE SchedulerThrows
  <2>1. step' = step /\ dispatched' = dispatched
    BY <1>15 DEF SchedulerThrows, turn, pool, bodies
  <2>2. \A x : Ran(x)' <=> Ran(x)
    BY <2>1 DEF Ran, Call
  <2>3. nextToStart' = nextToStart /\ flushing' = flushing /\ slots' = slots
        /\ (pc' \in {"request", "model"} => pc \in {"request", "model"}) /\ (pc' \in Sched => pc \in Sched)
    BY <1>15 DEF SchedulerThrows, turn, group, pool, bodies, Sched, Over
  <2>. QED
    BY <2>2, <2>3 DEF OnceInv
<1>16. ASSUME NEW c \in 1..MaxCalls, NEW b \in BOOLEAN, Commits(c, b)
       PROVE  OnceInv'
  <2>1. step' = step /\ dispatched' = dispatched
    BY <1>16 DEF Commits, turn, pool, bodies
  <2>2. \A x : Ran(x)' <=> Ran(x)
    BY <2>1 DEF Ran, Call
  <2>3. nextToStart' = nextToStart /\ flushing' = flushing /\ pc' = pc /\ slots' = [slots EXCEPT ![c] = None]
    BY <1>16 DEF Commits, turn, group, pool, bodies
  <2>4. \A x \in 1..MaxCalls : slots'[x] = slots[x] \/ (slots'[x] # Aborted /\ slots'[x] # Skipped)
    BY <2>3 DEF TypePool, None, Skipped, Aborted
  <2>. QED
    BY <2>2, <2>3, <2>4 DEF OnceInv
<1>17. CASE CommitEnds
  <2>1. step' = step /\ dispatched' = dispatched
    BY <1>17 DEF CommitEnds, turn, pool, bodies
  <2>2. \A x : Ran(x)' <=> Ran(x)
    BY <2>1 DEF Ran, Call
  <2>3. nextToStart' = nextToStart /\ flushing' = flushing /\ slots' = slots
        /\ (pc' \in {"request", "model"} => pc \in {"request", "model"}) /\ (pc' \in Sched => pc \in Sched)
    BY <1>17 DEF CommitEnds, turn, group, pool, bodies, Sched, Over
  <2>. QED
    BY <2>2, <2>3 DEF OnceInv
<1>18. ASSUME NEW c \in 1..MaxCalls, Invokes(c)
       PROVE  OnceInv'
  <2>1. /\ step' = step /\ dispatched' = dispatched \cup {Call(c)} /\ flushing' = flushing \ {c}
        /\ c \in flushing /\ pc # "repaired" /\ pc' = pc /\ slots' = slots /\ nextToStart' = nextToStart
    BY <1>18 DEF Invokes, turn, group
  <2>2. \A x : Ran(x)' <=> Ran(x) \/ x = c
    BY <2>1 DEF Ran, Call
  <2>3. pc \in Sched /\ ~(nextToStart < c) /\ slots[c] = None
    <3>1. pc \in Sched /\ c \in 1..nextToStart /\ nextToStart \in Nat
      BY <2>1, InTheGroup, ToolStepAssumption DEF TypeStep
    <3>. QED
      BY <2>1, <3>1 DEF FlightInv
  <2>4. slots[c] # Skipped
    BY <2>3 DEF None, Skipped
  <2>5. pc' \notin {"request", "model"}
    BY <2>1, <2>3 DEF Sched
  <2>. QED
    BY <2>1, <2>2, <2>3, <2>4, <2>5 DEF OnceInv
<1>19. ASSUME NEW c \in 1..MaxCalls, NEW d \in {Failed, Skipped}, Answers(c, d)
       PROVE  OnceInv'
  <2>1. step' = step /\ dispatched' = dispatched
    BY <1>19 DEF Answers, turn, pool, bodies
  <2>2. \A x : Ran(x)' <=> Ran(x)
    BY <2>1 DEF Ran, Call
  <2>3. /\ nextToStart' = nextToStart /\ pc' = pc /\ pc # "repaired" /\ flushing' \subseteq flushing
        /\ c \in flushing /\ slots' = [slots EXCEPT ![c] = d]
    BY <1>19 DEF Answers, turn, group, pool, bodies
  <2>4. pc \in Sched
    BY <2>3, InTheGroup
  <2>5. ~Ran(c) /\ d # Aborted
    BY <2>3, <2>4 DEF OnceInv, Failed, Skipped, Aborted
  <2>6. \A x \in 1..MaxCalls : slots'[x] = slots[x] \/
          ((slots'[x] = Aborted => Ran(x)) /\ (slots'[x] = Skipped => ~Ran(x)))
    BY <2>3, <2>5 DEF TypePool
  <2>7. pc' \notin {"request", "model"}
    BY <2>3, <2>4 DEF Sched
  <2>. QED
    BY <2>2, <2>3, <2>4, <2>6, <2>7 DEF OnceInv
<1>20. ASSUME NEW c \in 1..MaxCalls, WrapperAnswers(c)
       PROVE  OnceInv'
  <2>1. step' = step /\ dispatched' = dispatched
    BY <1>20 DEF WrapperAnswers, turn, pool, bodies
  <2>2. \A x : Ran(x)' <=> Ran(x)
    BY <2>1 DEF Ran, Call
  <2>3. /\ nextToStart' = nextToStart /\ pc' = pc /\ pc # "repaired" /\ flushing' \subseteq flushing
        /\ c \in flushing /\ slots' = [slots EXCEPT ![c] = Outcome(c, Ok)]
    BY <1>20 DEF WrapperAnswers, turn, group, pool, bodies
  <2>4. pc \in Sched
    BY <2>3, InTheGroup
  <2>5. (Outcome(c, Ok) = Aborted => Ran(c)) /\ (Outcome(c, Ok) = Skipped => ~Ran(c))
    BY DEF Outcome, Cancelled, Ran, Ok, Failed, Aborted, Skipped
  <2>6. \A x \in 1..MaxCalls : slots'[x] = slots[x] \/
          ((slots'[x] = Aborted => Ran(x)) /\ (slots'[x] = Skipped => ~Ran(x)))
    BY <2>3, <2>5 DEF TypePool
  <2>7. pc' \notin {"request", "model"}
    BY <2>3, <2>4 DEF Sched
  <2>. QED
    BY <2>2, <2>3, <2>4, <2>6, <2>7 DEF OnceInv
<1>21. ASSUME NEW c \in 1..MaxCalls, NEW r \in {Ok, Failed}, BodySettles(c, r)
       PROVE  OnceInv'
  <2>1. step' = step /\ dispatched' = dispatched
    BY <1>21 DEF BodySettles, turn, pool, bodies
  <2>2. \A x : Ran(x)' <=> Ran(x)
    BY <2>1 DEF Ran, Call
  <2>3. /\ nextToStart' = nextToStart /\ pc' = pc /\ pc # "repaired" /\ flushing' \subseteq flushing
        /\ c \in running /\ slots' = [slots EXCEPT ![c] = Outcome(c, r)]
    BY <1>21 DEF BodySettles, turn, group, pool, bodies
  <2>4. pc \in Sched
    BY <2>3, InTheGroup
  <2>5. (Outcome(c, r) = Aborted => Ran(c)) /\ (Outcome(c, r) = Skipped => ~Ran(c))
    BY DEF Outcome, Cancelled, Ran, Ok, Failed, Aborted, Skipped
  <2>6. \A x \in 1..MaxCalls : slots'[x] = slots[x] \/
          ((slots'[x] = Aborted => Ran(x)) /\ (slots'[x] = Skipped => ~Ran(x)))
    BY <2>3, <2>5 DEF TypePool
  <2>7. pc' \notin {"request", "model"}
    BY <2>3, <2>4 DEF Sched
  <2>. QED
    BY <2>2, <2>3, <2>4, <2>6, <2>7 DEF OnceInv
<1>22. ASSUME NEW c \in 1..MaxCalls, DispatchRejects(c)
       PROVE  OnceInv'
  <2>1. step' = step /\ dispatched' = dispatched
    BY <1>22 DEF DispatchRejects, turn, pool, bodies
  <2>2. \A x : Ran(x)' <=> Ran(x)
    BY <2>1 DEF Ran, Call
  <2>3. nextToStart' = nextToStart /\ flushing' = flushing /\ slots' = slots
        /\ (pc' \in {"request", "model"} => pc \in {"request", "model"}) /\ (pc' \in Sched => pc \in Sched)
    BY <1>22 DEF DispatchRejects, turn, group, pool, bodies, Sched, Over
  <2>. QED
    BY <2>2, <2>3 DEF OnceInv
<1>23. ASSUME NEW c \in 1..MaxCalls, RaceSettles(c)
       PROVE  OnceInv'
  <2>1. step' = step /\ dispatched' = dispatched
    BY <1>23 DEF RaceSettles, turn, pool, bodies
  <2>2. \A x : Ran(x)' <=> Ran(x)
    BY <2>1 DEF Ran, Call
  <2>3. nextToStart' = nextToStart /\ flushing' = flushing /\ slots' = slots
        /\ (pc' \in {"request", "model"} => pc \in {"request", "model"}) /\ (pc' \in Sched => pc \in Sched)
    BY <1>23 DEF RaceSettles, turn, group, pool, bodies, Sched, Over
  <2>. QED
    BY <2>2, <2>3 DEF OnceInv
<1>24. CASE Drain
  <2>1. step' = step /\ dispatched' = dispatched
    BY <1>24 DEF Drain, turn, pool, bodies
  <2>2. \A x : Ran(x)' <=> Ran(x)
    BY <2>1 DEF Ran, Call
  <2>3. nextToStart' = nextToStart /\ flushing' = flushing /\ slots' = slots
        /\ (pc' \in {"request", "model"} => pc \in {"request", "model"}) /\ (pc' \in Sched => pc \in Sched)
    BY <1>24 DEF Drain, turn, group, pool, bodies, Sched, Over
  <2>. QED
    BY <2>2, <2>3 DEF OnceInv
<1>25. CASE GroupEnds
  <2>1. step' = step /\ dispatched' = dispatched
    BY <1>25 DEF GroupEnds, turn, pool, bodies
  <2>2. \A x : Ran(x)' <=> Ran(x)
    BY <2>1 DEF Ran, Call
  <2>3. nextToStart' = nextToStart /\ flushing' = flushing /\ slots' = slots
        /\ (pc' \in {"request", "model"} => pc \in {"request", "model"}) /\ (pc' \in Sched => pc \in Sched)
    BY <1>25 DEF GroupEnds, turn, group, pool, bodies, Sched, Over
  <2>. QED
    BY <2>2, <2>3 DEF OnceInv
<1>26. ASSUME NEW k \in 1..Len(log), Crash(k)
       PROVE  OnceInv'
  <2>1. pc' = "repaired"
    BY <1>26, Zenon DEF Crash
  <2>. QED
    BY <2>1 DEF OnceInv, Sched
<1>27. CASE UNCHANGED vars
  <2>1. step' = step /\ dispatched' = dispatched
    BY <1>27 DEF vars, turn, pool, bodies
  <2>2. \A x : Ran(x)' <=> Ran(x)
    BY <2>1 DEF Ran, Call
  <2>3. nextToStart' = nextToStart /\ flushing' = flushing /\ slots' = slots
        /\ (pc' \in {"request", "model"} => pc \in {"request", "model"}) /\ (pc' \in Sched => pc \in Sched)
    BY <1>27 DEF vars, turn, group, pool, bodies, Sched, Over
  <2>. QED
    BY <2>2, <2>3 DEF OnceInv
<1>. QED
  BY Steps, <1>1, <1>2, <1>3, <1>4, <1>5, <1>6, <1>7, <1>8, <1>9, <1>10, <1>11, <1>12,
     <1>13, <1>14, <1>15, <1>16, <1>17, <1>18, <1>19, <1>20, <1>21, <1>22, <1>23, <1>24,
     <1>25, <1>26, <1>27, Zenon

(***************************************************************************)
(* What the results say                                                    *)
(***************************************************************************)

\* The code of a result tells the truth about the body.
Honest(e) ==
  e.type = "tool/result" =>
    /\ e.note \in {NotStarted, Skipped} => e.id \notin dispatched
    /\ e.note = Aborted => e.id \in dispatched
TruthInv == \A i \in 1..Len(log) : Honest(log[i])

\* A recovered result tells the truth: a body that ran left its tool/call in
\* whatever the crash kept.
LEMMA RecoveredTruth ==
  ASSUME LogInv, CalledInv, NEW k \in 1..Len(log), durable \in 1..Len(log), durable <= k,
         NEW j \in 1..Len(At(log, k).pending)
  PROVE  Honest(Results(At(log, k))[j])
<1>. DEFINE s == At(log, k)
            e == Results(s)[j]
<1>1. Formed(s, log, k) /\ Len(log) \in Nat
  BY DEF LogInv, Good
<1>. HIDE DEF s
<1>2. j \in 1..Len(s.pending) /\ s \in Cursors /\ PendingOK(s) /\ StepOK(s, log, k)
  BY <1>1 DEF Formed, s
<1>3. e.type = "tool/result" /\ e.id = s.pending[j]
      /\ e.note = IF s.pending[j] \in s.started THEN Unknown ELSE NotStarted
  BY <1>2, ResultsType
<1>. HIDE DEF e
<1>4. e.note # Aborted /\ e.note # Skipped /\ (e.note = NotStarted => e.id \notin s.started)
  BY <1>3 DEF Unknown, NotStarted, Aborted, Skipped
<1>5. s.step # 0 /\ e.id[1] = s.step
  BY <1>2, <1>3 DEF PendingOK
<1>6. ASSUME e.id \in dispatched PROVE e.id \in s.started
  <2>1. PICK i \in 1..durable : log[i].type = "tool/call" /\ log[i].id = e.id
    BY <1>6 DEF CalledInv
  <2>2. i \in 1..k
    BY <1>1
  <2>. QED
    BY <1>2, <1>5, <2>1, <2>2 DEF StepOK
<1>7. Honest(e)
  BY <1>4, <1>6 DEF Honest
<1>. QED
  BY <1>7 DEF e, s

\* A call that is not committed has no result.
LEMMA NoResultYet ==
  ASSUME TypeStep, LogInv, CursorInv, pc \in Sched, NEW c \in Nat, committed < c, c <= planned,
         NEW i \in 1..Len(log), log[i].type = "tool/result"
  PROVE  log[i].id # Call(c)
<1>1. pc \notin Over /\ committed \in Nat /\ planned \in Nat /\ step \in Nat
  BY DEF TypeStep, Sched, Over
<1>. DEFINE p == Scan(log).pending
            j == c - committed
<1>2. j \in 1..(planned - committed) /\ committed + j = c
  BY <1>1
<1>3. Len(p) = planned - committed /\ \A x \in 1..(planned - committed) : p[x] = <<step, committed + x>>
  BY DEF CursorInv
<1>. HIDE DEF j
<1>4. j \in 1..Len(p) /\ p[j] = <<step, c>>
  BY <1>2, <1>3
<1>5. OrderOK(Scan(log), log, Len(log))
  BY <1>1, OpenTurn DEF Formed
<1>6. Before(log[i].id, p[j])
  BY <1>4, <1>5 DEF OrderOK
<1>. HIDE DEF p
<1>7. ~Before(<<step, c>>, <<step, c>>)
  BY <1>1 DEF Before
<1>. QED
  BY <1>4, <1>6, <1>7 DEF Call

\* The events that are no results, and the results written before.
LEMMA TruthAppend ==
  ASSUME LogInv, TruthInv, dispatched' = dispatched, NEW e, log' = log \o <<e>>, Honest(e)
  PROVE  TruthInv'
<1>1. \A i \in 1..Len(log') : (i \in 1..Len(log) /\ log'[i] = log[i]) \/ log'[i] = e
  BY OneMore
<1>2. \A x : Honest(x)' <=> Honest(x)
  BY DEF Honest
<1>3. \A i \in 1..Len(log') : Honest(log'[i])
  BY <1>1 DEF TruthInv
<1>. QED
  BY <1>2, <1>3 DEF Honest, TruthInv

\* No step writes a result that lies, and no body runs that a result denied.
LEMMA TruthNext ==
  ASSUME TypeStep, TypePool, FlightInv, GroupInv, LogInv, CursorInv, WrittenInv,
         TypeHistory, CalledInv, OnceInv, TruthInv, [Next]_vars
  PROVE  TruthInv'
<1>1. CASE StepStarts
  <2>. DEFINE e == Event("step/start", <<step + 1, 0>>, "")
  <2>1. log' = log \o <<e>> /\ dispatched' = dispatched
    BY <1>1 DEF StepStarts, Write, pool, bodies
  <2>2. e.type # "tool/result"
    BY DEF Event
  <2>. HIDE DEF e
  <2>3. Honest(e)
    BY <2>2 DEF Honest
  <2>. QED
    BY <2>1, <2>3, TruthAppend
<1>2. CASE AdapterCalled
  <2>1. log' = log /\ dispatched' = dispatched
    BY <1>2 DEF AdapterCalled, pool, bodies
  <2>. QED
    BY <2>1 DEF TruthInv, Honest
<1>3. CASE RequestFails
  <2>1. log' = log /\ dispatched' = dispatched
    BY <1>3 DEF RequestFails, pool, bodies
  <2>. QED
    BY <2>1 DEF TruthInv, Honest
<1>4. ASSUME NEW n \in 0..MaxCalls, ModelReplies(n)
      PROVE  TruthInv'
  <2>. DEFINE e == Event("assistant/message", <<step, n>>, "")
  <2>1. log' = log \o <<e>> /\ dispatched' = dispatched
    BY <1>4 DEF ModelReplies, Write, pool, bodies
  <2>2. e.type # "tool/result"
    BY DEF Event
  <2>. HIDE DEF e
  <2>3. Honest(e)
    BY <2>2 DEF Honest
  <2>. QED
    BY <2>1, <2>3, TruthAppend
<1>5. CASE StepReturns
  <2>. DEFINE e == Event("step/end", <<step, 0>>, "")
  <2>1. log' = log \o <<e>> /\ dispatched' = dispatched
    BY <1>5 DEF StepReturns, Write, pool, bodies
  <2>2. e.type # "tool/result"
    BY DEF Event
  <2>. HIDE DEF e
  <2>3. Honest(e)
    BY <2>2 DEF Honest
  <2>. QED
    BY <2>1, <2>3, TruthAppend
<1>6. CASE StepFails
  <2>1. dispatched' = dispatched /\ pc = "failed"
    BY <1>6, Zenon DEF StepFails, pool, bodies
  <2>2. \A i \in 1..Len(log') :
          \/ i \in 1..Len(log) /\ log'[i] = log[i]
          \/ log'[i].type \in {"step/end", "turn/end"}
          \/ \E j \in 1..Len(Scan(log).pending) : log'[i] = Results(Scan(log))[j]
    BY <1>6, WroteFailure, Zenon
  <2>3. log \in Seq(Events) /\ Len(log) \in Nat /\ Len(log) \in 1..Len(log) /\ durable <= Len(log)
    BY DEF LogInv, Good, TypeHistory
  <2>4. Scan(log) = At(log, Len(log))
    BY <2>3, Unfold
  <2>5. \A j \in 1..Len(Scan(log).pending) : Honest(Results(Scan(log))[j])
    BY <2>3, <2>4, RecoveredTruth DEF TypeHistory
  <2>6. \A x : x.type \in {"step/end", "turn/end"} => Honest(x)
    BY DEF Honest
  <2>7. \A i \in 1..Len(log') : Honest(log'[i])
    BY <2>2, <2>5, <2>6 DEF TruthInv
  <2>. QED
    BY <2>1, <2>7 DEF TruthInv, Honest
<1>7. CASE TurnEnds
  <2>. DEFINE e == Event("turn/end", <<0, 0>>, "")
  <2>1. log' = log \o <<e>> /\ dispatched' = dispatched
    BY <1>7 DEF TurnEnds, Write, pool, bodies
  <2>2. e.type # "tool/result"
    BY DEF Event
  <2>. HIDE DEF e
  <2>3. Honest(e)
    BY <2>2 DEF Honest
  <2>. QED
    BY <2>1, <2>3, TruthAppend
<1>8. CASE Abort
  <2>1. log' = log /\ dispatched' = dispatched
    BY <1>8 DEF Abort, pool, bodies
  <2>. QED
    BY <2>1 DEF TruthInv, Honest
<1>9. ASSUME NEW m \in Modes, GroupStarts(m)
      PROVE  TruthInv'
  <2>1. log' = log /\ dispatched' = dispatched
    BY <1>9 DEF GroupStarts, pool, bodies
  <2>. QED
    BY <2>1 DEF TruthInv, Honest
<1>10. CASE GroupsDone
  <2>1. log' = log /\ dispatched' = dispatched
    BY <1>10 DEF GroupsDone, pool, bodies
  <2>. QED
    BY <2>1 DEF TruthInv, Honest
<1>11. ASSUME NEW m \in Modes, CallStarts(m)
       PROVE  TruthInv'
  <2>. DEFINE e == CallEvent(nextToStart + 1)
  <2>1. log' = log \o <<e>> /\ dispatched' = dispatched
    BY <1>11 DEF CallStarts, Write, pool, bodies
  <2>2. e.type # "tool/result"
    BY DEF Event, CallEvent
  <2>. HIDE DEF e
  <2>3. Honest(e)
    BY <2>2 DEF Honest
  <2>. QED
    BY <2>1, <2>3, TruthAppend
<1>12. ASSUME NEW m \in Modes, FillEnds(m)
       PROVE  TruthInv'
  <2>1. log' = log /\ dispatched' = dispatched
    BY <1>12 DEF FillEnds, pool, bodies
  <2>. QED
    BY <2>1 DEF TruthInv, Honest
<1>13. CASE Launches
  <2>1. log' = log /\ dispatched' = dispatched
    BY <1>13 DEF Launches, pool, bodies
  <2>. QED
    BY <2>1 DEF TruthInv, Honest
<1>14. ASSUME NEW d \in {Failed, Skipped}, Refuses(d)
       PROVE  TruthInv'
  <2>1. log' = log /\ dispatched' = dispatched
    BY <1>14 DEF Refuses, pool, bodies
  <2>. QED
    BY <2>1 DEF TruthInv, Honest
<1>15. CASE SchedulerThrows
  <2>1. log' = log /\ dispatched' = dispatched
    BY <1>15 DEF SchedulerThrows, pool, bodies
  <2>. QED
    BY <2>1 DEF TruthInv, Honest
<1>16. ASSUME NEW c \in 1..MaxCalls, NEW b \in BOOLEAN, Commits(c, b)
       PROVE  TruthInv'
  <2>. DEFINE note == IF b THEN Failed ELSE Outcome(c, slots[c])
              e == ResultEvent(c, note)
  <2>1. log' = log \o <<e>> /\ dispatched' = dispatched /\ pc = "commit"
    BY <1>16 DEF Commits, Write, bodies
  <2>2. e.note = note /\ e.id = Call(c)
    BY DEF ResultEvent, Event
  <2>3. /\ slots[c] = Skipped => Call(c) \notin dispatched
        /\ slots[c] = Aborted => Call(c) \in dispatched
        /\ slots[c] \in {None, Ok, Failed, Aborted, Skipped}
    BY <2>1 DEF OnceInv, Sched, Ran, TypePool
  <2>4. /\ note \in {NotStarted, Skipped} => Call(c) \notin dispatched
        /\ note = Aborted => Call(c) \in dispatched
    BY <2>3 DEF Outcome, Cancelled, None, Ok, Failed, Aborted, Skipped, NotStarted
  <2>. HIDE DEF e, note
  <2>5. Honest(e)
    BY <2>2, <2>4 DEF Honest
  <2>. QED
    BY <2>1, <2>5, TruthAppend
<1>17. CASE CommitEnds
  <2>1. log' = log /\ dispatched' = dispatched
    BY <1>17 DEF CommitEnds, pool, bodies
  <2>. QED
    BY <2>1 DEF TruthInv, Honest
<1>18. ASSUME NEW c \in 1..MaxCalls, Invokes(c)
       PROVE  TruthInv'
  <2>1. log' = log /\ dispatched' = dispatched \cup {Call(c)} /\ c \in flushing /\ pc # "repaired"
    BY <1>18 DEF Invokes
  <2>2. pc \in Sched /\ c \in Nat /\ committed < c /\ c <= planned
    BY <2>1, InTheGroup
  <2>3. \A i \in 1..Len(log) : log[i].type = "tool/result" => log[i].id # Call(c)
    BY <2>2, NoResultYet
  <2>. QED
    BY <2>1, <2>3 DEF TruthInv, Honest
<1>19. ASSUME NEW c \in 1..MaxCalls, NEW d \in {Failed, Skipped}, Answers(c, d)
       PROVE  TruthInv'
  <2>1. log' = log /\ dispatched' = dispatched
    BY <1>19 DEF Answers, pool, bodies
  <2>. QED
    BY <2>1 DEF TruthInv, Honest
<1>20. ASSUME NEW c \in 1..MaxCalls, WrapperAnswers(c)
       PROVE  TruthInv'
  <2>1. log' = log /\ dispatched' = dispatched
    BY <1>20 DEF WrapperAnswers, pool, bodies
  <2>. QED
    BY <2>1 DEF TruthInv, Honest
<1>21. ASSUME NEW c \in 1..MaxCalls, NEW r \in {Ok, Failed}, BodySettles(c, r)
       PROVE  TruthInv'
  <2>1. log' = log /\ dispatched' = dispatched
    BY <1>21 DEF BodySettles, pool, bodies
  <2>. QED
    BY <2>1 DEF TruthInv, Honest
<1>22. ASSUME NEW c \in 1..MaxCalls, DispatchRejects(c)
       PROVE  TruthInv'
  <2>1. log' = log /\ dispatched' = dispatched
    BY <1>22 DEF DispatchRejects, pool, bodies
  <2>. QED
    BY <2>1 DEF TruthInv, Honest
<1>23. ASSUME NEW c \in 1..MaxCalls, RaceSettles(c)
       PROVE  TruthInv'
  <2>1. log' = log /\ dispatched' = dispatched
    BY <1>23 DEF RaceSettles, pool, bodies
  <2>. QED
    BY <2>1 DEF TruthInv, Honest
<1>24. CASE Drain
  <2>1. log' = log /\ dispatched' = dispatched
    BY <1>24 DEF Drain, pool, bodies
  <2>. QED
    BY <2>1 DEF TruthInv, Honest
<1>25. CASE GroupEnds
  <2>1. dispatched' = dispatched /\ pc = "finish" /\ (log' = log \/ log' = log \o SkippedPairs)
    BY <1>25, Zenon DEF GroupEnds, Write, pool, bodies
  <2>2. CASE log' = log
    BY <2>1, <2>2 DEF TruthInv, Honest
  <2>3. CASE log' = log \o SkippedPairs
    <3>1. \A i \in 1..Len(log') :
            \/ i \in 1..Len(log) /\ log'[i] = log[i]
            \/ \E k \in (nextToStart + 1)..planned : log'[i] = CallEvent(k) \/ log'[i] = ResultEvent(k, Skipped)
      BY <2>1, <2>3, WrotePairs
    <3>2. ASSUME NEW k \in (nextToStart + 1)..planned
          PROVE  Honest(CallEvent(k)) /\ Honest(ResultEvent(k, Skipped))
      <4>1. k \in 1..MaxCalls /\ nextToStart < k
        BY ToolStepAssumption DEF TypeStep
      <4>2. Call(k) \notin dispatched
        BY <2>1, <4>1 DEF OnceInv, Sched, Ran
      <4>3. CallEvent(k).type = "tool/call" /\ ResultEvent(k, Skipped).id = Call(k)
            /\ ResultEvent(k, Skipped).note = Skipped
        BY DEF CallEvent, ResultEvent, Event
      <4>4. Skipped # Aborted
        BY DEF Skipped, Aborted
      <4>. QED
        BY <4>2, <4>3, <4>4 DEF Honest
    <3>3. \A i \in 1..Len(log') : Honest(log'[i])
      BY <3>1, <3>2 DEF TruthInv
    <3>. QED
      BY <2>1, <3>3 DEF TruthInv, Honest
  <2>. QED
    BY <2>1, <2>2, <2>3
<1>26. ASSUME NEW k \in 1..Len(log), Crash(k)
       PROVE  TruthInv'
  <2>1. /\ dispatched' = dispatched /\ durable <= k
        /\ log' = SubSeq(log, 1, k) \o Closers(SubSeq(log, 1, k))
    BY <1>26 DEF Crash, pool, bodies, TypeHistory, LogInv, Good
  <2>2. \A i \in 1..Len(log') :
          \/ i \in 1..k /\ log'[i] = log[i]
          \/ log'[i].type \in {"step/end", "turn/end"}
          \/ \E j \in 1..Len(At(log, k).pending) : log'[i] = Results(At(log, k))[j]
    BY <2>1, WroteRepair
  <2>3. Len(log) \in Nat /\ \A i \in 1..k : i \in 1..Len(log)
    BY DEF LogInv, Good
  <2>4. \A j \in 1..Len(At(log, k).pending) : Honest(Results(At(log, k))[j])
    BY <2>1, RecoveredTruth DEF TypeHistory
  <2>5. \A x : x.type \in {"step/end", "turn/end"} => Honest(x)
    BY DEF Honest
  <2>6. \A i \in 1..Len(log') : Honest(log'[i])
    BY <2>2, <2>3, <2>4, <2>5 DEF TruthInv
  <2>. QED
    BY <2>1, <2>6 DEF TruthInv, Honest
<1>27. CASE UNCHANGED vars
  <2>1. log' = log /\ dispatched' = dispatched
    BY <1>27 DEF vars, pool, bodies
  <2>. QED
    BY <2>1 DEF TruthInv, Honest
<1>. QED
  BY Steps, <1>1, <1>2, <1>3, <1>4, <1>5, <1>6, <1>7, <1>8, <1>9, <1>10, <1>11, <1>12,
     <1>13, <1>14, <1>15, <1>16, <1>17, <1>18, <1>19, <1>20, <1>21, <1>22, <1>23, <1>24,
     <1>25, <1>26, <1>27, Zenon

\* A flush of the whole log makes all of it durable.
LEMMA FlushedAll ==
  ASSUME NEW n \in Nat, durable \in 1..n, Flushed(n)
  PROVE  durable' = n
BY DEF Flushed

\* What an earlier request carried stays.
LEMMA ShownKept ==
  ASSUME ShownInv, Grown, shown' = shown
  PROVE  ShownInv'
BY DEF ShownInv, Grown

\* The request's checkpoint covers the results that the request carries.
LEMMA ShownNext ==
  ASSUME LogInv, WrittenInv, TypeHistory, Grown, ShownInv, [Next]_vars
  PROVE  ShownInv'
<1>1. CASE StepStarts
  <2>1. shown' = shown
    BY <1>1 DEF StepStarts, turn
  <2>. QED
    BY <2>1, ShownKept
<1>2. CASE AdapterCalled
  <2>0. Flushed(Len(log))
    BY <1>2 DEF AdapterCalled, RequestCheckpoint
  <2>1. /\ pc = "request" /\ log' = log
        /\ shown' = {log[i].id : i \in {j \in DOMAIN log : log[j].type = "tool/result"}}
    BY <1>2 DEF AdapterCalled
  <2>2. DOMAIN log = 1..Len(log) /\ Len(log) \in Nat
    BY DEF LogInv, Good
  <2>3. durable' = Len(log)
    <3>1. durable \in 1..Len(log)
      BY DEF TypeHistory
    <3>. QED
      BY <2>0, <2>2, <3>1, FlushedAll
  <2>4. \A i \in 1..Len(log) : log[i].type = "tool/result" => log[i].note \in {Ok, Failed, Aborted, Skipped}
    BY <2>1 DEF WrittenInv, Over
  <2>5. \A i \in 1..Len(log) : log[i].type = "tool/result" => log[i].note \notin {Unknown, NotStarted}
    BY <2>4 DEF Ok, Failed, Aborted, Skipped, Unknown, NotStarted
  <2>. QED
    BY <2>1, <2>2, <2>3, <2>5 DEF ShownInv
<1>3. CASE RequestFails
  <2>1. shown' = shown
    BY <1>3 DEF RequestFails, turn
  <2>. QED
    BY <2>1, ShownKept
<1>4. ASSUME NEW n \in 0..MaxCalls, ModelReplies(n)
      PROVE  ShownInv'
  <2>1. shown' = shown
    BY <1>4 DEF ModelReplies, turn
  <2>. QED
    BY <2>1, ShownKept
<1>5. CASE StepReturns
  <2>1. shown' = shown
    BY <1>5 DEF StepReturns, turn
  <2>. QED
    BY <2>1, ShownKept
<1>6. CASE StepFails
  <2>1. shown' = shown
    BY <1>6, Zenon DEF StepFails, turn
  <2>. QED
    BY <2>1, ShownKept
<1>7. CASE TurnEnds
  <2>1. shown' = shown
    BY <1>7 DEF TurnEnds, turn
  <2>. QED
    BY <2>1, ShownKept
<1>8. CASE Abort
  <2>1. shown' = shown
    BY <1>8 DEF Abort, turn
  <2>. QED
    BY <2>1, ShownKept
<1>9. ASSUME NEW m \in Modes, GroupStarts(m)
      PROVE  ShownInv'
  <2>1. shown' = shown
    BY <1>9 DEF GroupStarts, turn
  <2>. QED
    BY <2>1, ShownKept
<1>10. CASE GroupsDone
  <2>1. shown' = shown
    BY <1>10 DEF GroupsDone, turn
  <2>. QED
    BY <2>1, ShownKept
<1>11. ASSUME NEW m \in Modes, CallStarts(m)
       PROVE  ShownInv'
  <2>1. shown' = shown
    BY <1>11 DEF CallStarts, turn
  <2>. QED
    BY <2>1, ShownKept
<1>12. ASSUME NEW m \in Modes, FillEnds(m)
       PROVE  ShownInv'
  <2>1. shown' = shown
    BY <1>12 DEF FillEnds, turn
  <2>. QED
    BY <2>1, ShownKept
<1>13. CASE Launches
  <2>1. shown' = shown
    BY <1>13 DEF Launches, turn
  <2>. QED
    BY <2>1, ShownKept
<1>14. ASSUME NEW d \in {Failed, Skipped}, Refuses(d)
       PROVE  ShownInv'
  <2>1. shown' = shown
    BY <1>14 DEF Refuses, turn
  <2>. QED
    BY <2>1, ShownKept
<1>15. CASE SchedulerThrows
  <2>1. shown' = shown
    BY <1>15 DEF SchedulerThrows, turn
  <2>. QED
    BY <2>1, ShownKept
<1>16. ASSUME NEW c \in 1..MaxCalls, NEW b \in BOOLEAN, Commits(c, b)
       PROVE  ShownInv'
  <2>1. shown' = shown
    BY <1>16 DEF Commits, turn
  <2>. QED
    BY <2>1, ShownKept
<1>17. CASE CommitEnds
  <2>1. shown' = shown
    BY <1>17 DEF CommitEnds, turn
  <2>. QED
    BY <2>1, ShownKept
<1>18. ASSUME NEW c \in 1..MaxCalls, Invokes(c)
       PROVE  ShownInv'
  <2>1. shown' = shown
    BY <1>18 DEF Invokes, turn
  <2>. QED
    BY <2>1, ShownKept
<1>19. ASSUME NEW c \in 1..MaxCalls, NEW d \in {Failed, Skipped}, Answers(c, d)
       PROVE  ShownInv'
  <2>1. shown' = shown
    BY <1>19 DEF Answers, turn
  <2>. QED
    BY <2>1, ShownKept
<1>20. ASSUME NEW c \in 1..MaxCalls, WrapperAnswers(c)
       PROVE  ShownInv'
  <2>1. shown' = shown
    BY <1>20 DEF WrapperAnswers, turn
  <2>. QED
    BY <2>1, ShownKept
<1>21. ASSUME NEW c \in 1..MaxCalls, NEW r \in {Ok, Failed}, BodySettles(c, r)
       PROVE  ShownInv'
  <2>1. shown' = shown
    BY <1>21 DEF BodySettles, turn
  <2>. QED
    BY <2>1, ShownKept
<1>22. ASSUME NEW c \in 1..MaxCalls, DispatchRejects(c)
       PROVE  ShownInv'
  <2>1. shown' = shown
    BY <1>22 DEF DispatchRejects, turn
  <2>. QED
    BY <2>1, ShownKept
<1>23. ASSUME NEW c \in 1..MaxCalls, RaceSettles(c)
       PROVE  ShownInv'
  <2>1. shown' = shown
    BY <1>23 DEF RaceSettles, turn
  <2>. QED
    BY <2>1, ShownKept
<1>24. CASE Drain
  <2>1. shown' = shown
    BY <1>24 DEF Drain, turn
  <2>. QED
    BY <2>1, ShownKept
<1>25. CASE GroupEnds
  <2>1. shown' = shown
    BY <1>25 DEF GroupEnds, turn
  <2>. QED
    BY <2>1, ShownKept
<1>26. ASSUME NEW k \in 1..Len(log), Crash(k)
       PROVE  ShownInv'
  <2>1. shown' = shown
    BY <1>26 DEF Crash, turn
  <2>. QED
    BY <2>1, ShownKept
<1>27. CASE UNCHANGED vars
  <2>1. shown' = shown
    BY <1>27 DEF vars, turn
  <2>. QED
    BY <2>1, ShownKept
<1>. QED
  BY Steps, <1>1, <1>2, <1>3, <1>4, <1>5, <1>6, <1>7, <1>8, <1>9, <1>10, <1>11, <1>12,
     <1>13, <1>14, <1>15, <1>16, <1>17, <1>18, <1>19, <1>20, <1>21, <1>22, <1>23, <1>24,
     <1>25, <1>26, <1>27, Zenon

(***************************************************************************)
(* The theorems                                                            *)
(***************************************************************************)

\* Nothing but a crash stops bodies that run.
LEMMA RunsAlone ==
  ASSUME TypeStep, TypePool, FlightInv, GroupInv, AloneInv, pc # "repaired"
  PROVE  ExclusiveAlone
<1>. SUFFICES ASSUME NEW c \in running, c \in exclusive PROVE running = {c}
  BY DEF ExclusiveAlone
<1>1. /\ pc \in InGroup /\ running \subseteq inFlight /\ mode \in Modes /\ next \in Nat
      /\ nextToStart \in Nat /\ groupEnd \in Nat
      /\ \A x \in inFlight : x \in 1..MaxCalls /\ next < x /\ x <= nextToStart
      /\ nextToStart <= groupEnd
  <2>1. pc \in InGroup
    BY DEF TypeStep, TypePool, FlightInv, InGroup
  <2>. QED
    BY <2>1, ToolStepAssumption DEF TypeStep, TypePool, FlightInv, AloneInv, GroupInv
<1>2. c \in inFlight /\ next < c /\ ~(c <= next)
  BY <1>1
<1>3. mode = "exclusive"
  BY <1>1, <1>2 DEF AloneInv, Modes
<1>4. groupEnd = next + 1
  BY <1>1, <1>3 DEF AloneInv
<1>5. \A x \in inFlight : x = next + 1
  BY <1>1, <1>4
<1>. QED
  BY <1>1, <1>2, <1>5

\* What a crash leaves behind of a process.
CrashInv == pc = "repaired" => ExclusiveAlone

\* Nothing happens after the repair.
LEMMA CrashNext ==
  ASSUME TypeStep, TypePool, FlightInv, GroupInv, AloneInv, CrashInv, [Next]_vars
  PROVE  CrashInv'
<1>1. CASE StepStarts
  <2>1. pc' # "repaired"
    BY <1>1 DEF StepStarts
  <2>. QED
    BY <2>1 DEF CrashInv
<1>2. CASE AdapterCalled
  <2>1. pc' # "repaired"
    BY <1>2 DEF AdapterCalled
  <2>. QED
    BY <2>1 DEF CrashInv
<1>3. CASE RequestFails
  <2>1. pc' # "repaired"
    BY <1>3 DEF RequestFails
  <2>. QED
    BY <2>1 DEF CrashInv
<1>4. ASSUME NEW n \in 0..MaxCalls, ModelReplies(n)
      PROVE  CrashInv'
  <2>1. pc' # "repaired"
    BY <1>4 DEF ModelReplies
  <2>. QED
    BY <2>1 DEF CrashInv
<1>5. CASE StepReturns
  <2>1. pc' # "repaired"
    BY <1>5 DEF StepReturns
  <2>. QED
    BY <2>1 DEF CrashInv
<1>6. CASE StepFails
  <2>1. pc' # "repaired"
    BY <1>6, Zenon DEF StepFails
  <2>. QED
    BY <2>1 DEF CrashInv
<1>7. CASE TurnEnds
  <2>1. pc' # "repaired"
    BY <1>7 DEF TurnEnds
  <2>. QED
    BY <2>1 DEF CrashInv
<1>8. CASE Abort
  <2>1. pc' # "repaired"
    BY <1>8 DEF Abort
  <2>. QED
    BY <2>1 DEF CrashInv
<1>9. ASSUME NEW m \in Modes, GroupStarts(m)
      PROVE  CrashInv'
  <2>1. pc' # "repaired"
    BY <1>9 DEF GroupStarts
  <2>. QED
    BY <2>1 DEF CrashInv
<1>10. CASE GroupsDone
  <2>1. pc' # "repaired"
    BY <1>10 DEF GroupsDone
  <2>. QED
    BY <2>1 DEF CrashInv
<1>11. ASSUME NEW m \in Modes, CallStarts(m)
       PROVE  CrashInv'
  <2>1. pc' # "repaired"
    BY <1>11 DEF CallStarts
  <2>. QED
    BY <2>1 DEF CrashInv
<1>12. ASSUME NEW m \in Modes, FillEnds(m)
       PROVE  CrashInv'
  <2>1. pc' # "repaired"
    BY <1>12 DEF FillEnds
  <2>. QED
    BY <2>1 DEF CrashInv
<1>13. CASE Launches
  <2>1. pc' # "repaired"
    BY <1>13 DEF Launches
  <2>. QED
    BY <2>1 DEF CrashInv
<1>14. ASSUME NEW d \in {Failed, Skipped}, Refuses(d)
       PROVE  CrashInv'
  <2>1. pc' # "repaired"
    BY <1>14 DEF Refuses
  <2>. QED
    BY <2>1 DEF CrashInv
<1>15. CASE SchedulerThrows
  <2>1. pc' # "repaired"
    BY <1>15 DEF SchedulerThrows
  <2>. QED
    BY <2>1 DEF CrashInv
<1>16. ASSUME NEW c \in 1..MaxCalls, NEW b \in BOOLEAN, Commits(c, b)
       PROVE  CrashInv'
  <2>1. pc' # "repaired"
    BY <1>16 DEF Commits
  <2>. QED
    BY <2>1 DEF CrashInv
<1>17. CASE CommitEnds
  <2>1. pc' # "repaired"
    BY <1>17 DEF CommitEnds
  <2>. QED
    BY <2>1 DEF CrashInv
<1>18. ASSUME NEW c \in 1..MaxCalls, Invokes(c)
       PROVE  CrashInv'
  <2>1. pc' # "repaired"
    BY <1>18 DEF Invokes
  <2>. QED
    BY <2>1 DEF CrashInv
<1>19. ASSUME NEW c \in 1..MaxCalls, NEW d \in {Failed, Skipped}, Answers(c, d)
       PROVE  CrashInv'
  <2>1. pc' # "repaired"
    BY <1>19 DEF Answers
  <2>. QED
    BY <2>1 DEF CrashInv
<1>20. ASSUME NEW c \in 1..MaxCalls, WrapperAnswers(c)
       PROVE  CrashInv'
  <2>1. pc' # "repaired"
    BY <1>20 DEF WrapperAnswers
  <2>. QED
    BY <2>1 DEF CrashInv
<1>21. ASSUME NEW c \in 1..MaxCalls, NEW r \in {Ok, Failed}, BodySettles(c, r)
       PROVE  CrashInv'
  <2>1. pc' # "repaired"
    BY <1>21 DEF BodySettles
  <2>. QED
    BY <2>1 DEF CrashInv
<1>22. ASSUME NEW c \in 1..MaxCalls, DispatchRejects(c)
       PROVE  CrashInv'
  <2>1. pc' # "repaired"
    BY <1>22 DEF DispatchRejects
  <2>. QED
    BY <2>1 DEF CrashInv
<1>23. ASSUME NEW c \in 1..MaxCalls, RaceSettles(c)
       PROVE  CrashInv'
  <2>1. pc' # "repaired"
    BY <1>23 DEF RaceSettles
  <2>. QED
    BY <2>1 DEF CrashInv
<1>24. CASE Drain
  <2>1. pc' # "repaired"
    BY <1>24 DEF Drain
  <2>. QED
    BY <2>1 DEF CrashInv
<1>25. CASE GroupEnds
  <2>1. pc' # "repaired"
    BY <1>25 DEF GroupEnds
  <2>. QED
    BY <2>1 DEF CrashInv
<1>26. ASSUME NEW k \in 1..Len(log), Crash(k)
       PROVE  CrashInv'
  <2>1. pc # "repaired" /\ running' = running /\ exclusive' = exclusive
    BY <1>26, Zenon DEF Crash, pool, bodies
  <2>2. ExclusiveAlone
    BY <2>1, RunsAlone
  <2>. QED
    BY <2>1, <2>2 DEF CrashInv, ExclusiveAlone
<1>27. CASE UNCHANGED vars
  BY <1>27 DEF vars, CrashInv, ExclusiveAlone, pool, bodies
<1>. QED
  BY Steps, <1>1, <1>2, <1>3, <1>4, <1>5, <1>6, <1>7, <1>8, <1>9, <1>10, <1>11, <1>12,
     <1>13, <1>14, <1>15, <1>16, <1>17, <1>18, <1>19, <1>20, <1>21, <1>22, <1>23, <1>24,
     <1>25, <1>26, <1>27, Zenon

\* The inductive invariant.
PoolInv == TypeStep /\ TypePool /\ TypeFlags /\ FlightInv /\ GroupInv /\ KeptInv /\ SizeInv /\ AloneInv /\ CrashInv
RecordInv == LogInv /\ CursorInv /\ WrittenInv
PastInv == TypeHistory /\ CalledInv /\ OnceInv /\ TruthInv /\ ShownInv
Inv == PoolInv /\ RecordInv /\ PastInv

\* It holds of a turn that has just started.
LEMMA InitInv ==
  ASSUME Init
  PROVE  Inv
<1>. DEFINE e == Event("turn/start", <<0, 0>>, "")
<1>1. e \in Events /\ e.type = "turn/start" /\ e.id = <<0, 0>>
  BY DEF Event, Events, Kinds, Ids, Notes
<1>2. log = <<e>>
  BY DEF Init
<1>. HIDE DEF e
<1>3. Good(log) /\ Scan(log).step = 0
  BY <1>1, <1>2, StartGood
<1>4. Len(log) = 1 /\ log[1] = e
  BY <1>2
<1>5. /\ durable = 1 /\ pc = "between" /\ step = 0 /\ planned = 0 /\ next = 0 /\ mode = "parallel"
      /\ groupEnd = 0 /\ nextToStart = 0 /\ committed = 0 /\ slots = [k \in 1..MaxCalls |-> None]
      /\ inFlight = {} /\ flushing = {} /\ running = {} /\ dispatched = {} /\ exclusive = {}
      /\ shown = {} /\ signal = FALSE /\ aborted = FALSE /\ schedulerFailure = FALSE
  BY DEF Init
<1>6. TypeStep /\ TypePool /\ TypeFlags /\ TypeHistory
  <2>1. TypeStep
    <3>1. MaxSteps \in Nat /\ MaxCalls \in Nat
      BY ToolStepAssumption
    <3>2. 0 \in 0..MaxSteps /\ 0 \in 0..MaxCalls /\ 0 \in 0..0
      BY <3>1
    <3>. QED
      BY <1>5, <3>2, Zenon DEF TypeStep, Modes
  <2>2. TypeFlags
    BY <1>5, Zenon DEF TypeFlags
  <2>3. TypePool
    BY <1>5, Zenon DEF TypePool
  <2>4. TypeHistory
    BY <1>4, <1>5 DEF TypeHistory
  <2>. QED
    BY <2>1, <2>2, <2>3, <2>4
<1>7. FlightInv /\ GroupInv /\ KeptInv /\ AloneInv /\ CrashInv
  BY <1>5 DEF FlightInv, GroupInv, KeptInv, AloneInv, CrashInv, InGroup, Sched
<1>8. SizeInv
  <2>1. Cardinality({}) = 0
    BY FS_EmptySet
  <2>. QED
    BY <1>5, <2>1, ToolStepAssumption DEF SizeInv
<1>9. RecordInv
  <2>1. \A i \in 1..Len(log) : log[i] = e
    BY <1>4
  <2>2. e.id[1] <= 0
    BY <1>1
  <2>3. LogInv
    BY <1>1, <1>3, <1>4, <1>5, <2>1, <2>2 DEF LogInv, Over
  <2>4. CursorInv /\ WrittenInv
    BY <1>1, <1>3, <1>5, <2>1 DEF CursorInv, WrittenInv, Over, Sched
  <2>. QED
    BY <2>3, <2>4 DEF RecordInv
<1>10. CalledInv /\ OnceInv /\ ShownInv
  BY <1>5 DEF CalledInv, OnceInv, ShownInv, Sched
<1>11. TruthInv
  BY <1>1, <1>4 DEF TruthInv, Honest
<1>. QED
  BY <1>6, <1>7, <1>8, <1>9, <1>10, <1>11 DEF Inv, PoolInv, PastInv

\* Every step keeps it, a crash included.
LEMMA NextInv ==
  ASSUME Inv, [Next]_vars
  PROVE  Inv'
<1>. USE DEF Inv, PoolInv, RecordInv, PastInv
<1>1. TypeStep' /\ TypePool' /\ TypeFlags' /\ FlightInv' /\ GroupInv' /\ KeptInv' /\ SizeInv' /\ AloneInv'
  BY TypeStepNext, TypePoolNext, TypeFlagsNext, FlightNext, GroupNext, KeptNext, SizeNext,
     AloneNext, Zenon
<1>2. CrashInv'
  BY CrashNext, Zenon
<1>3. LogInv' /\ CursorInv' /\ WrittenInv'
  BY LogNext, Zenon
<1>4. durable \in 1..Len(log)
  BY DEF TypeHistory
<1>5. Grown
  BY <1>4, GrownNext, Zenon
<1>6. TypeHistory' /\ CalledInv' /\ OnceInv' /\ TruthInv' /\ ShownInv'
  BY <1>5, TypeHistoryNext, CalledNext, OnceNext, TruthNext, ShownNext, Zenon
<1>. QED
  BY <1>1, <1>2, <1>3, <1>6, Zenon

\* The inductive invariant holds in every reachable state.
LEMMA Invariance == Spec => []Inv
<1>1. Init => Inv
  BY InitInv
<1>2. Inv /\ [Next]_vars => Inv'
  BY NextInv
<1>. QED
  BY <1>1, <1>2, PTL DEF Spec

\* At most maxParallelToolCalls bodies overlap, a step ends only after every
\* body it dispatched has settled, also by a scheduler failure, and runGroup
\* never finds an uncommitted settled call (tool-calls.ts).
THEOREM SchedulerSafety == Spec => []SchedulerSafe
<1>1. ASSUME Inv PROVE SchedulerSafe
  <2>. USE DEF Inv, PoolInv, PastInv
  <2>1. TypeOK
    BY <1>1 DEF TypeOK
  <2>2. PoolBounded
    BY <1>1, Finite, ToolStepAssumption DEF SizeInv, PoolBounded
  <2>3. NoOrphanBody
    BY <1>1 DEF FlightInv, TypePool, NoOrphanBody
  <2>4. GroupDrained
    BY <1>1 DEF FlightInv, GroupInv, TypeStep, GroupDrained
  <2>. QED
    BY <2>1, <2>2, <2>3, <2>4 DEF SchedulerSafe
<1>. QED
  BY <1>1, Invariance, PTL

\* A call that is exclusive when it starts runs alone, whatever the registry
\* did to the modes of the group after it was formed (fillPool).
THEOREM ExclusiveRunsAlone == Spec => []ExclusiveAlone
<1>1. ASSUME Inv PROVE ExclusiveAlone
  BY <1>1, RunsAlone DEF Inv, PoolInv, CrashInv
<1>. QED
  BY <1>1, Invariance, PTL

\* The fold over a log whose steps are closed.
LEMMA AtRest ==
  ASSUME LogInv, CursorInv, pc \in Over \cup {"between"}
  PROVE  /\ log \in Seq(Events) /\ Len(log) \in Nat /\ Len(log) >= 1
         /\ Formed(Scan(log), log, Len(log))
         /\ Scan(log).pending = <<>> /\ Scan(log).step = 0
         /\ pc \in Over => Scan(log) = Fresh
<1>1. log \in Seq(Events) /\ Len(log) \in Nat /\ Len(log) >= 1
  BY DEF LogInv, Good
<1>2. Scan(log) = At(log, Len(log)) /\ At(log, Len(log)) = Observe(At(log, Len(log) - 1), log[Len(log)])
  BY <1>1, Unfold
<1>3. Formed(Scan(log), log, Len(log))
  BY <1>1, <1>2 DEF LogInv, Good
<1>4. pc \in Over => Scan(log) = Fresh
  BY <1>2 DEF LogInv, Observe
<1>5. Scan(log).step = 0
  BY <1>4 DEF CursorInv, Fresh
<1>6. Scan(log).pending = <<>>
  <2>1. Scan(log).pending \in Seq(Ids) /\ PendingOK(Scan(log))
    BY <1>3 DEF Formed, Cursors
  <2>. QED
    BY <1>5, <2>1 DEF PendingOK
<1>. QED
  BY <1>1, <1>3, <1>4, <1>5, <1>6

\* Results are logged in model order whatever order the bodies settle in
\* (commitReady), the skipped and the recovered ones included.
THEOREM ModelOrder == Spec => []ResultsInModelOrder
<1>1. ASSUME Inv PROVE ResultsInModelOrder
  <2>1. LogInv
    BY <1>1 DEF Inv, RecordInv
  <2>2. log \in Seq(Events) /\ Len(log) \in 1..Len(log) /\ DOMAIN log = 1..Len(log)
    BY <2>1 DEF LogInv, Good
  <2>3. OrderOK(At(log, Len(log)), log, Len(log))
    BY <2>1, <2>2 DEF LogInv, Good, Formed
  <2>. QED
    BY <2>2, <2>3 DEF OrderOK, Before, ResultsInModelOrder, Positions
<1>. QED
  BY <1>1, Invariance, PTL

\* Once a step is closed, by return, abort, failure or the repair of what a
\* crash left, every request of its assistant message has exactly one result,
\* inside the step.
THEOREM CallsAnswered == Spec => []EveryCallAnswered
<1>1. ASSUME Inv PROVE EveryCallAnswered
  <2>. SUFFICES ASSUME pc \in {"between", "closed", "repaired"},
                       NEW a \in Positions("assistant/message"), NEW k \in 1..log[a].id[2]
               PROVE  \E r \in ResultsOf(<<log[a].id[1], k>>) :
                        /\ ResultsOf(<<log[a].id[1], k>>) = {r}
                        /\ a < r
                        /\ \A e \in Positions("step/end") : log[e].id[1] = log[a].id[1] => r < e
    BY DEF EveryCallAnswered
  <2>1. LogInv /\ CursorInv
    BY <1>1 DEF Inv, RecordInv
  <2>2. /\ log \in Seq(Events) /\ Len(log) \in Nat /\ Scan(log).pending = <<>>
        /\ AnswerOK(Scan(log), log, Len(log)) /\ OrderOK(Scan(log), log, Len(log))
    BY <2>1, AtRest DEF Over, Formed
  <2>3. DOMAIN log = 1..Len(log) /\ a \in 1..Len(log) /\ log[a].type = "assistant/message"
    BY <2>2 DEF Positions
  <2>. DEFINE n == Len(log)
              call == <<log[a].id[1], k>>
  <2>4. ~\E i \in 1..Len(Scan(log).pending) : Scan(log).pending[i] = call
    BY <2>2
  <2>5. PICK r \in (a + 1)..n : Answer(a, k, r, log, n)
    BY <2>2, <2>3, <2>4 DEF AnswerOK
  <2>6. r \in 1..n /\ a < r
    BY <2>2, <2>3, <2>5
  <2>7. log[r].type = "tool/result" /\ log[r].id = call
        /\ \A e \in 1..n : log[e].type = "step/end" /\ log[e].id[1] = log[a].id[1] => r < e
    BY <2>5 DEF Answer
  <2>8. k \in Nat /\ log[a].id[1] \in Nat
    BY <2>1, <2>3, LogIds
  <2>. HIDE DEF call
  <2>9. ~Before(call, call)
    BY <2>8 DEF Before, call
  <2>10. ASSUME NEW q \in 1..n, log[q].type = "tool/result", log[q].id = call PROVE q = r
    <3>1. ~(q < r)
      BY <2>2, <2>6, <2>7, <2>9, <2>10 DEF OrderOK
    <3>2. ~(r < q)
      BY <2>2, <2>6, <2>7, <2>9, <2>10 DEF OrderOK
    <3>. QED
      BY <2>2, <2>6, <3>1, <3>2
  <2>11. r \in ResultsOf(call) /\ ResultsOf(call) = {r}
    BY <2>3, <2>6, <2>7, <2>10 DEF ResultsOf, Positions
  <2>12. \A e \in Positions("step/end") : log[e].id[1] = log[a].id[1] => r < e
    BY <2>3, <2>7 DEF Positions
  <2>. QED
    BY <2>6, <2>11, <2>12 DEF call
<1>. QED
  BY <1>1, Invariance, PTL

\* A closed turn is balanced: repair leaves nothing to repair (repair.ts), and
\* its boundaries nest.
THEOREM TurnBalanced == Spec => []Balanced
<1>1. ASSUME Inv PROVE Balanced
  <2>. SUFFICES ASSUME pc \in {"closed", "repaired"}
               PROVE  /\ Closers(log) = <<>>
                      /\ Cardinality(Positions("turn/end")) = 1 /\ log[Len(log)].type = "turn/end"
                      /\ Cardinality(Positions("step/start")) = Cardinality(Positions("step/end"))
    BY DEF Balanced
  <2>1. LogInv /\ CursorInv
    BY <1>1 DEF Inv, RecordInv
  <2>. DEFINE n == Len(log)
              s == Scan(log)
  <2>2. /\ log \in Seq(Events) /\ n \in Nat /\ n >= 1 /\ s = Fresh /\ s.step = 0
        /\ TurnOK(s, log, n) /\ CountOK(s, log, n)
    BY <2>1, AtRest DEF Over, Formed
  <2>3. log[n].type = "turn/end"
    BY <2>1 DEF LogInv, Over
  <2>4. Closers(log) = <<>>
    <3>1. ~s.turn
      BY <2>2 DEF Fresh
    <3>. QED
      BY <3>1, Zenon DEF Closers
  <2>5. DOMAIN log = 1..n
    BY <2>2
  <2>6. Positions("turn/end") = {n}
    <3>1. \A i \in 1..n : log[i].type = "turn/end" => i = n
      BY <2>2 DEF TurnOK
    <3>2. n \in DOMAIN log
      BY <2>2, <2>5
    <3>. QED
      BY <2>3, <2>5, <3>1, <3>2, Zenon DEF Positions
  <2>7. Cardinality({n}) = 1
    BY FS_Singleton
  <2>8. Positions("step/start") = Count("step/start", log, n) /\ Positions("step/end") = Count("step/end", log, n)
    BY <2>5 DEF Positions, Count
  <2>9. Cardinality(Count("step/end", log, n)) \in Nat
    <3>1. IsFiniteSet(1..n)
      BY <2>2, FS_Interval
    <3>2. Count("step/end", log, n) \subseteq 1..n
      BY DEF Count
    <3>. QED
      BY <3>1, <3>2, FS_Subset, FS_CardinalityType
  <2>10. Cardinality(Count("step/start", log, n)) = Cardinality(Count("step/end", log, n))
    BY <2>2, <2>9 DEF CountOK
  <2>. QED
    BY <2>3, <2>4, <2>6, <2>7, <2>8, <2>10
<1>. QED
  BY <1>1, Invariance, PTL

\* The codes of results tell the truth about the body, also those that repair
\* adds to what a crash left of the log.
THEOREM TruthfulCodes == Spec => []CodesTellTheTruth
<1>1. ASSUME Inv PROVE CodesTellTheTruth
  <2>1. DOMAIN log = 1..Len(log)
    BY <1>1 DEF Inv, RecordInv, LogInv, Good
  <2>. QED
    BY <1>1, <2>1 DEF Inv, PastInv, TruthInv, Honest, CodesTellTheTruth, Positions
<1>. QED
  BY <1>1, Invariance, PTL

\* A result that a model request carried is in the log with its outcome,
\* whatever crash follows (session-checkpoint-policy).
THEOREM ShownSurvive == Spec => []ShownResultsSurvive
<1>1. ASSUME Inv PROVE ShownResultsSurvive
  <2>1. DOMAIN log = 1..Len(log) /\ Len(log) \in Nat
    BY <1>1 DEF Inv, RecordInv, LogInv, Good
  <2>2. \A r \in 1..durable : r \in DOMAIN log
    BY <1>1, <2>1 DEF Inv, PastInv, TypeHistory
  <2>. QED
    BY <1>1, <2>2 DEF Inv, PastInv, ShownInv, ShownResultsSurvive, ResultsOf, Positions
<1>. QED
  BY <1>1, Invariance, PTL

\* No step, a crash and its repair included, rewrites or loses an event that a
\* checkpoint made durable.
THEOREM DurableKept == Spec => [][\A i \in 1..durable : i \in DOMAIN log' /\ log'[i] = log[i]]_vars
<1>1. ASSUME Inv, Inv', [Next]_vars
      PROVE  [\A i \in 1..durable : i \in DOMAIN log' /\ log'[i] = log[i]]_vars
  <2>1. DOMAIN log' = 1..Len(log')
    BY <1>1 DEF Inv, RecordInv, LogInv, Good
  <2>2. durable \in 1..Len(log)
    BY <1>1 DEF Inv, PastInv, TypeHistory
  <2>3. Grown
    BY <1>1, <2>2, GrownNext, Zenon DEF Inv, PoolInv, RecordInv
  <2>4. \A i \in 1..durable : i \in DOMAIN log' /\ log'[i] = log[i]
    BY <2>1, <2>3 DEF Grown
  <2>. QED
    BY <2>4
<1>. QED
  BY <1>1, Invariance, PTL DEF Spec

=============================================================================
