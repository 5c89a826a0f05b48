---------------------- MODULE SessionWriteBehindProofs ----------------------
(***************************************************************************)
(* Theorems about SessionWriteBehind, for every retention limit, every     *)
(* set of flush callers, any number of events and both kinds of store.     *)
(***************************************************************************)
EXTENDS SessionWriteBehind, FiniteSetTheorems, SequenceTheorems, TLAPS

----------------------------------------------------------------------------
\* Sequences

\* A run of sequence numbers is a sequence of naturals (snapshotEvents).
LEMMA RunType ==
  ASSUME NEW a \in Nat, NEW b \in Nat, a <= b
  PROVE  /\ Run(a, b) \in Seq(Nat)
         /\ Len(Run(a, b)) = b - a
         /\ IsRun(Run(a, b), a)
  BY DEF Run, IsRun

\* The index set of a sequence is finite and as large as the sequence.
LEMMA Interval1 ==
  ASSUME NEW n \in Nat
  PROVE  IsFiniteSet(1..n) /\ Cardinality(1..n) = n
<1>1. 1 \in Int /\ n \in Int
  OBVIOUS
<1>2. IsFiniteSet(1..n) /\ Cardinality(1..n) = IF 1 > n THEN 0 ELSE n - 1 + 1
  BY <1>1, FS_Interval, Zenon
<1>. QED
  BY <1>2

\* What is left of a sequence without its first k elements.
LEMMA TailType ==
  ASSUME NEW s \in Seq(Nat), NEW k \in Nat, k <= Len(s)
  PROVE  /\ SubSeq(s, k + 1, Len(s)) \in Seq(Nat)
         /\ Len(SubSeq(s, k + 1, Len(s))) = Len(s) - k
         /\ k = 0 => SubSeq(s, k + 1, Len(s)) = s
<1>1. \A i \in (k + 1)..Len(s) : s[i] \in Nat
  OBVIOUS
<1>. QED
  BY <1>1

\* Concatenation stays in the type.
LEMMA ConcatType ==
  ASSUME NEW s \in Seq(Nat), NEW t \in Seq(Nat)
  PROVE  s \o t \in Seq(Nat) /\ Len(s \o t) = Len(s) + Len(t)
  OBVIOUS

\* Concatenating two consecutive runs gives a run.
LEMMA RunConcat ==
  ASSUME NEW s \in Seq(Nat), NEW t \in Seq(Nat), NEW a \in Nat,
         IsRun(s, a), IsRun(t, a + Len(s))
  PROVE  /\ s \o t \in Seq(Nat)
         /\ Len(s \o t) = Len(s) + Len(t)
         /\ IsRun(s \o t, a)
<1>1. s \o t \in Seq(Nat) /\ Len(s \o t) = Len(s) + Len(t)
  OBVIOUS
<1>2. ASSUME NEW i \in DOMAIN (s \o t)
      PROVE  (s \o t)[i] = a + i - 1
  <2>1. i \in 1..(Len(s) + Len(t))
    BY <1>1
  <2>2. CASE i <= Len(s)
    BY <2>1, <2>2 DEF IsRun
  <2>3. CASE i > Len(s)
    <3>1. i - Len(s) \in DOMAIN t
      BY <2>1, <2>3
    <3>2. (s \o t)[i] = t[i - Len(s)]
      BY <2>1, <2>3
    <3>. QED
      BY <3>1, <3>2, <2>1 DEF IsRun
  <2>. QED
    BY <2>1, <2>2, <2>3
<1>. QED
  BY <1>1, <1>2 DEF IsRun

\* The filter of appendLiveBatch keeps a tail of the batch, and all of it
\* when no event of the batch was taken before.
LEMMA FreshType ==
  ASSUME TypeQueue
  PROVE  /\ Fresh \in Seq(Nat)
         /\ Len(Fresh) <= Len(batch)
         /\ IsRun(batch, cursor + Len(deferred)) => Fresh = batch
         /\ durableEvents \in Seq(Nat)
         /\ Len(durableEvents) = Len(deferred) + Len(Fresh)
<1> DEFINE lead == {i \in DOMAIN batch : batch[i] < cursor + Len(deferred)}
<1>1. IsFiniteSet(1..Len(batch)) /\ Cardinality(1..Len(batch)) = Len(batch)
  BY Interval1 DEF TypeQueue
<1>2. lead \subseteq 1..Len(batch)
  BY DEF TypeQueue
<1>3. Cardinality(lead) \in Nat /\ Cardinality(lead) <= Len(batch)
  BY <1>1, <1>2, FS_Subset, FS_CardinalityType
<1>4. Fresh = SubSeq(batch, Cardinality(lead) + 1, Len(batch))
  BY DEF Fresh
<1>5. IsRun(batch, cursor + Len(deferred)) => Cardinality(lead) = 0
  <2>1. IsRun(batch, cursor + Len(deferred)) => lead = {}
    BY DEF TypeQueue, IsRun
  <2>. QED
    BY <2>1, FS_EmptySet
<1>. HIDE DEF lead
<1>6. PICK k \in Nat : k = Cardinality(lead) /\ k <= Len(batch)
  BY <1>3
<1>7. batch \in Seq(Nat)
  BY DEF TypeQueue
<1>8. /\ Fresh \in Seq(Nat) /\ Len(Fresh) = Len(batch) - k
      /\ k = 0 => Fresh = batch
  BY <1>4, <1>6, <1>7, TailType
<1>9. Len(Fresh) <= Len(batch)
  BY <1>8, <1>6, <1>7
<1>. QED
  BY <1>5, <1>6, <1>8, <1>9 DEF TypeQueue, durableEvents

----------------------------------------------------------------------------
\* Type correctness

\* Every freshly created controller is well typed (createWriteBehind).
LEMMA TypeInit == Init => TypeOK
<1>. SUFFICES ASSUME Init PROVE TypeOK
  OBVIOUS
<1>1. store \in Seq(Nat) /\ seed \in Nat
  <2>1. PICK n \in 0..seed : store = Run(0, n)
    BY DEF Init
  <2>2. seed \in Nat
    BY WriteBehindAssumption DEF Init
  <2>. QED
    BY <2>1, <2>2, RunType
<1>2. TypeQueue /\ TypeStore
  BY <1>1 DEF Init, TypeQueue, TypeStore
<1>3. TypeStages /\ TypeCallers
  BY DEF Init, TypeStages, TypeCallers, WriteStages, BarrierStages, CallerStages
<1>4. TypeFlags
  BY Zenon DEF Init, TypeFlags
<1>. QED
  BY <1>2, <1>3, <1>4 DEF TypeOK

\* A transaction leaves a log and idempotency keys of the right type.
LEMMA ApplyType ==
  ASSUME TypeStore, NEW events \in Seq(Nat), Apply(events)
  PROVE  store' \in Seq(Nat) /\ batches' \subseteq Seq(Nat)
<1>1. store \in Seq(Nat) /\ batches \subseteq Seq(Nat)
  BY DEF TypeStore
<1>2. store' = store \/ store' = store \o events
  BY Zenon DEF Apply
<1>3. batches' = batches \/ batches' = batches \cup {events}
  BY Zenon DEF Apply
<1>4. store' \in Seq(Nat)
  BY <1>1, <1>2, ConcatType
<1>5. batches' \subseteq Seq(Nat)
  BY <1>1, <1>3, Zenon
<1>. QED
  BY <1>4, <1>5

\* startWrite moves the whole queue into the batch.
LEMMA StartWriteType ==
  ASSUME TypeQueue, NEW b, StartWrite(b)
  PROVE  batch' \in Seq(Nat) /\ pending' \in Seq(Nat) /\ activeBatchSize' \in Nat
  BY DEF TypeQueue, StartWrite

\* While initialization is pending the store holds at most the seed.
SeedCovers == init = "pending" => Len(store) <= seed

\* Every step keeps the types (one step per handler of the controller).
LEMMA TypeNext == TypeOK /\ SeedCovers /\ [Next]_vars => TypeOK'
<1>. SUFFICES ASSUME TypeOK, SeedCovers, [Next]_vars PROVE TypeOK'
  OBVIOUS
<1>. USE DEF control, queue, session, state, flushes, remote
<1>0. TypeQueue /\ TypeStore /\ TypeStages /\ TypeCallers /\ TypeFlags
  BY DEF TypeOK
<1>1. CASE Enqueue
  <2>1. TypeQueue' /\ TypeStore' /\ TypeStages' /\ TypeCallers'
    BY <1>0, <1>1 DEF TypeQueue, TypeStore, TypeStages, TypeCallers,
      WriteStages, BarrierStages, CallerStages, Enqueue, Emit, ArmOnEnqueue
  <2>2. TypeFlags'
    BY <1>0, <1>1, Zenon DEF TypeFlags, Enqueue, Emit, ArmOnEnqueue
  <2>. QED
    BY <2>1, <2>2 DEF TypeOK
<1>2. CASE EnqueueRefused
  <2>1. TypeQueue' /\ TypeStore' /\ TypeStages' /\ TypeCallers'
    BY <1>0, <1>2 DEF TypeQueue, TypeStore, TypeStages, TypeCallers,
      WriteStages, BarrierStages, CallerStages, EnqueueRefused, Emit
  <2>2. TypeFlags'
    BY <1>0, <1>2, Zenon DEF TypeFlags, EnqueueRefused, Emit
  <2>. QED
    BY <2>1, <2>2 DEF TypeOK
<1>3. ASSUME NEW c \in Callers, FlushCall(c) PROVE TypeOK'
  <2>1. TypeQueue' /\ TypeStore' /\ TypeStages' /\ TypeCallers'
    BY <1>0, <1>3 DEF TypeQueue, TypeStore, TypeStages, TypeCallers,
      WriteStages, BarrierStages, CallerStages, FlushCall, Call, CancelWait
  <2>2. TypeFlags'
    BY <1>0, <1>3, Zenon DEF TypeFlags, FlushCall, Call, CancelWait
  <2>. QED
    BY <2>1, <2>2 DEF TypeOK
<1>4. CASE Dispose
  <2>1. TypeQueue' /\ TypeStore' /\ TypeStages' /\ TypeCallers'
    BY <1>0, <1>4 DEF TypeQueue, TypeStore, TypeStages, TypeCallers,
      WriteStages, BarrierStages, CallerStages, Dispose, Call, CancelWait
  <2>2. TypeFlags'
    BY <1>0, <1>4, Zenon DEF TypeFlags, Dispose, Call, CancelWait
  <2>. QED
    BY <2>1, <2>2 DEF TypeOK
<1>5. CASE TeardownFlush
  <2>1. TypeQueue' /\ TypeStore' /\ TypeStages' /\ TypeCallers'
    BY <1>0, <1>5 DEF TypeQueue, TypeStore, TypeStages, TypeCallers,
      WriteStages, BarrierStages, CallerStages, TeardownFlush, Call,
      CancelWait
  <2>2. TypeFlags'
    BY <1>0, <1>5, Zenon DEF TypeFlags, TeardownFlush, Call, CancelWait
  <2>. QED
    BY <2>1, <2>2 DEF TypeOK
<1>6. CASE Release
  <2>1. TypeQueue' /\ TypeStore' /\ TypeStages' /\ TypeCallers'
    BY <1>0, <1>6 DEF TypeQueue, TypeStore, TypeStages, TypeCallers,
      WriteStages, BarrierStages, CallerStages, Release
  <2>2. TypeFlags'
    BY <1>0, <1>6, Zenon DEF TypeFlags, Release
  <2>. QED
    BY <2>1, <2>2 DEF TypeOK
<1>7. CASE InitSucceeds
  <2>0. SeedSuffix \in Seq(Nat)
    <3>1. Len(store) <= seed
      BY <1>7 DEF SeedCovers, InitSucceeds
    <3>. QED
      BY <1>0, <3>1, RunType DEF SeedSuffix, TypeQueue, TypeStore
  <2>1. TypeQueue'
    BY <1>0, <1>7, <2>0 DEF TypeQueue, InitSucceeds
  <2>2. TypeStore'
    <3>1. \/ UNCHANGED <<store, batches>>
          \/ Apply(SeedSuffix)
      BY <1>7, Zenon DEF InitSucceeds
    <3>2. store' \in Seq(Nat) /\ batches' \subseteq Seq(Nat)
      BY <1>0, <2>0, <3>1, ApplyType DEF TypeStore
    <3>. QED
      BY <1>0, <1>7, <3>2 DEF TypeStore, InitSucceeds
  <2>3. TypeStages'
    BY <1>0, <1>7 DEF TypeStages, WriteStages, BarrierStages, InitSucceeds
  <2>4. TypeCallers'
    BY <1>0, <1>7 DEF TypeCallers, TypeQueue, CallerStages, InitSucceeds
  <2>5. TypeFlags'
    <3>1. materialized' = materialized \/ materialized' = (seed # 0)
      BY <1>7, Zenon DEF InitSucceeds
    <3>2. materialized' \in BOOLEAN
      BY <1>0, <3>1, Zenon DEF TypeFlags
    <3>. QED
      BY <1>0, <1>7, <3>2, Zenon DEF TypeFlags, InitSucceeds
  <2>. QED
    BY <2>1, <2>2, <2>3, <2>4, <2>5 DEF TypeOK
<1>8. CASE InitFails
  <2>0. SeedSuffix \in Seq(Nat)
    <3>1. Len(store) <= seed
      BY <1>8 DEF SeedCovers, InitFails
    <3>. QED
      BY <1>0, <3>1, RunType DEF SeedSuffix, TypeQueue, TypeStore
  <2>1. TypeQueue'
    BY <1>0, <1>8, <2>0 DEF TypeQueue, InitFails
  <2>2. TypeStore'
    <3>1. \/ UNCHANGED <<store, batches>>
          \/ Apply(SeedSuffix)
      BY <1>8, Zenon DEF InitFails
    <3>2. store' \in Seq(Nat) /\ batches' \subseteq Seq(Nat)
      BY <1>0, <2>0, <3>1, ApplyType DEF TypeStore
    <3>. QED
      BY <1>0, <1>8, <3>2 DEF TypeStore, InitFails
  <2>3. TypeStages'
    BY <1>0, <1>8 DEF TypeStages, WriteStages, BarrierStages, InitFails
  <2>4. TypeCallers'
    BY <1>0, <1>8 DEF TypeCallers, TypeQueue, CallerStages, InitFails
  <2>5. TypeFlags'
    BY <1>0, <1>8, Zenon DEF TypeFlags, InitFails
  <2>. QED
    BY <2>1, <2>2, <2>3, <2>4, <2>5 DEF TypeOK
<1>9. CASE BackendCommits
  <2>0. Fresh \in Seq(Nat) /\ durableEvents \in Seq(Nat)
    BY <1>0, FreshType
  <2>1. TypeQueue'
    BY <1>0, <1>9, <2>0 DEF TypeQueue, BackendCommits
  <2>2. TypeStore'
    <3>1. Apply(durableEvents)
      BY <1>9 DEF BackendCommits
    <3>2. store' \in Seq(Nat) /\ batches' \subseteq Seq(Nat)
      BY <1>0, <2>0, <3>1, ApplyType DEF TypeStore
    <3>. QED
      BY <1>0, <1>9, <3>2 DEF TypeStore, BackendCommits
  <2>3. TypeStages'
    BY <1>0, <1>9 DEF TypeStages, WriteStages, BarrierStages, BackendCommits
  <2>4. TypeCallers'
    BY <1>0, <1>9 DEF TypeCallers, TypeQueue, CallerStages, BackendCommits
  <2>5. TypeFlags'
    BY <1>0, <1>9, Zenon DEF TypeFlags, BackendCommits
  <2>. QED
    BY <2>1, <2>2, <2>3, <2>4, <2>5 DEF TypeOK
<1>10. CASE BackendFails
  <2>1. TypeQueue' /\ TypeStore' /\ TypeStages' /\ TypeCallers'
    BY <1>0, <1>10 DEF TypeQueue, TypeStore, TypeStages, TypeCallers,
      WriteStages, BarrierStages, CallerStages, BackendFails
  <2>2. TypeFlags'
    BY <1>0, <1>10, Zenon DEF TypeFlags, BackendFails
  <2>. QED
    BY <2>1, <2>2 DEF TypeOK
<1>11. CASE BackendTimesOut
  <2>0. Fresh \in Seq(Nat) /\ durableEvents \in Seq(Nat)
    BY <1>0, FreshType
  <2>1. TypeQueue' /\ TypeStore' /\ TypeStages' /\ TypeCallers'
    BY <1>0, <1>11, <2>0 DEF TypeQueue, TypeStore, TypeStages, TypeCallers,
      WriteStages, BarrierStages, CallerStages, BackendTimesOut
  <2>2. TypeFlags'
    BY <1>0, <1>11, Zenon DEF TypeFlags, BackendTimesOut
  <2>. QED
    BY <2>1, <2>2 DEF TypeOK
<1>12. CASE WriteBegins
  <2>0. Fresh \in Seq(Nat) /\ durableEvents \in Seq(Nat)
    BY <1>0, FreshType
  <2>1. TypeQueue'
    <3>1. deferred' = deferred \/ deferred' = deferred \o Fresh
      BY <1>12, Zenon DEF WriteBegins
    <3>2. UNCHANGED <<emitted, accepted, seed, cursor, pending, batch, activeBatchSize>>
      BY <1>12, Zenon DEF WriteBegins
    <3>. QED
      BY <1>0, <2>0, <3>1, <3>2, ConcatType DEF TypeQueue
  <2>2. TypeStore'
    BY <1>0, <1>12, <2>0 DEF TypeStore, WriteBegins
  <2>3. TypeStages'
    BY <1>0, <1>12 DEF TypeStages, WriteStages, BarrierStages, WriteBegins
  <2>4. TypeCallers'
    BY <1>0, <1>12 DEF TypeCallers, TypeQueue, CallerStages, WriteBegins
  <2>5. TypeFlags'
    BY <1>0, <1>12, Zenon DEF TypeFlags, WriteBegins
  <2>. QED
    BY <2>1, <2>2, <2>3, <2>4, <2>5 DEF TypeOK
<1>13. CASE WriteCaught
  <2>1. TypeQueue' /\ TypeStore' /\ TypeStages' /\ TypeCallers'
    BY <1>0, <1>13 DEF TypeQueue, TypeStore, TypeStages, TypeCallers,
      WriteStages, BarrierStages, CallerStages, WriteCaught, Restored,
      CancelWait
  <2>2. TypeFlags'
    BY <1>0, <1>13, Zenon DEF TypeFlags, WriteCaught, Restored, CancelWait
  <2>. QED
    BY <2>1, <2>2 DEF TypeOK
<1>14. CASE WriteSettles
  <2>1. TypeQueue' /\ TypeStore' /\ TypeStages' /\ TypeCallers'
    BY <1>0, <1>14 DEF TypeQueue, TypeStore, TypeStages, TypeCallers,
      WriteStages, BarrierStages, CallerStages, WriteSettles
  <2>2. TypeFlags'
    BY <1>0, <1>14, Zenon DEF TypeFlags, WriteSettles
  <2>. QED
    BY <2>1, <2>2 DEF TypeOK
<1>15. CASE ContinueAutomatic
  <2>1. TypeQueue'
    <3>1. \/ StartWrite(TRUE)
          \/ UNCHANGED <<batch, pending, activeBatchSize>>
      BY <1>15, Zenon DEF ContinueAutomatic
    <3>2. batch' \in Seq(Nat) /\ pending' \in Seq(Nat) /\ activeBatchSize' \in Nat
      BY <1>0, <3>1, StartWriteType DEF TypeQueue
    <3>3. UNCHANGED <<emitted, accepted, seed, cursor, deferred>>
      BY <1>15, Zenon DEF ContinueAutomatic
    <3>. QED
      BY <1>0, <3>2, <3>3 DEF TypeQueue
  <2>2. TypeStore'
    BY <1>0, <1>15 DEF TypeStore, ContinueAutomatic, StartWrite, CancelWait
  <2>3. TypeStages'
    BY <1>0, <1>15 DEF TypeStages, WriteStages, BarrierStages, ContinueAutomatic, StartWrite, CancelWait
  <2>4. TypeCallers'
    BY <1>0, <1>15 DEF TypeCallers, TypeQueue, CallerStages, ContinueAutomatic, StartWrite, CancelWait
  <2>5. TypeFlags'
    BY <1>0, <1>15, Zenon DEF TypeFlags, ContinueAutomatic, StartWrite, CancelWait
  <2>. QED
    BY <2>1, <2>2, <2>3, <2>4, <2>5 DEF TypeOK
<1>16. CASE BarrierResumes
  <2>1. TypeQueue'
    <3>1. \/ StartWrite(FALSE)
          \/ UNCHANGED <<batch, pending, activeBatchSize>>
      BY <1>16, Zenon DEF BarrierResumes
    <3>2. batch' \in Seq(Nat) /\ pending' \in Seq(Nat) /\ activeBatchSize' \in Nat
      BY <1>0, <3>1, StartWriteType DEF TypeQueue
    <3>3. UNCHANGED <<emitted, accepted, seed, cursor, deferred>>
      BY <1>16, Zenon DEF BarrierResumes
    <3>. QED
      BY <1>0, <3>2, <3>3 DEF TypeQueue
  <2>2. TypeStore'
    BY <1>0, <1>16 DEF TypeStore, BarrierResumes, StartWrite, CancelWait, Joined, Verdict
  <2>3. TypeStages'
    BY <1>0, <1>16 DEF TypeStages, WriteStages, BarrierStages, BarrierResumes, StartWrite, CancelWait, Joined, Verdict
  <2>4. TypeCallers'
    BY <1>0, <1>16 DEF TypeCallers, TypeQueue, CallerStages, BarrierResumes, StartWrite, CancelWait, Joined, Verdict
  <2>5. TypeFlags'
    BY <1>0, <1>16, Zenon DEF TypeFlags, BarrierResumes, StartWrite, CancelWait, Joined, Verdict
  <2>. QED
    BY <2>1, <2>2, <2>3, <2>4, <2>5 DEF TypeOK
<1>17. CASE BarrierFails
  <2>1. TypeQueue' /\ TypeStore' /\ TypeStages' /\ TypeCallers'
    BY <1>0, <1>17 DEF TypeQueue, TypeStore, TypeStages, TypeCallers,
      WriteStages, BarrierStages, CallerStages, BarrierFails, Joined
  <2>2. TypeFlags'
    BY <1>0, <1>17, Zenon DEF TypeFlags, BarrierFails, Joined
  <2>. QED
    BY <2>1, <2>2 DEF TypeOK
<1>18. ASSUME NEW c \in FlushCallers, FlushInitFailed(c) PROVE TypeOK'
  <2>1. TypeQueue' /\ TypeStore' /\ TypeStages' /\ TypeCallers'
    BY <1>0, <1>18 DEF TypeQueue, TypeStore, TypeStages, TypeCallers,
      WriteStages, BarrierStages, CallerStages, FlushInitFailed, CancelWait
  <2>2. TypeFlags'
    BY <1>0, <1>18, Zenon DEF TypeFlags, FlushInitFailed, CancelWait
  <2>. QED
    BY <2>1, <2>2 DEF TypeOK
<1>19. ASSUME NEW c \in FlushCallers, Flush(c) PROVE TypeOK'
  <2>1. TypeQueue'
    <3>1. \/ StartWrite(FALSE)
          \/ UNCHANGED <<batch, pending, activeBatchSize>>
      BY <1>19, Zenon DEF Flush
    <3>2. batch' \in Seq(Nat) /\ pending' \in Seq(Nat) /\ activeBatchSize' \in Nat
      BY <1>0, <3>1, StartWriteType DEF TypeQueue
    <3>3. UNCHANGED <<emitted, accepted, seed, cursor, deferred>>
      BY <1>19, Zenon DEF Flush
    <3>. QED
      BY <1>0, <3>2, <3>3 DEF TypeQueue
  <2>2. TypeStore'
    BY <1>0, <1>19 DEF TypeStore, Flush, StartWrite, CancelWait, Verdict
  <2>3. TypeStages'
    BY <1>0, <1>19 DEF TypeStages, WriteStages, BarrierStages, Flush, StartWrite, CancelWait, Verdict
  <2>4. TypeCallers'
    BY <1>0, <1>19 DEF TypeCallers, TypeQueue, CallerStages, Flush, StartWrite, CancelWait, Verdict
  <2>5. TypeFlags'
    BY <1>0, <1>19, Zenon DEF TypeFlags, Flush, StartWrite, CancelWait, Verdict
  <2>. QED
    BY <2>1, <2>2, <2>3, <2>4, <2>5 DEF TypeOK
<1>20. CASE OnDeadline
  <2>1. TypeQueue'
    <3>1. \/ StartWrite(TRUE)
          \/ UNCHANGED <<batch, pending, activeBatchSize>>
      BY <1>20, Zenon DEF OnDeadline
    <3>2. batch' \in Seq(Nat) /\ pending' \in Seq(Nat) /\ activeBatchSize' \in Nat
      BY <1>0, <3>1, StartWriteType DEF TypeQueue
    <3>3. UNCHANGED <<emitted, accepted, seed, cursor, deferred>>
      BY <1>20, Zenon DEF OnDeadline
    <3>. QED
      BY <1>0, <3>2, <3>3 DEF TypeQueue
  <2>2. TypeStore'
    BY <1>0, <1>20 DEF TypeStore, OnDeadline, StartWrite, CancelWait
  <2>3. TypeStages'
    BY <1>0, <1>20 DEF TypeStages, WriteStages, BarrierStages, OnDeadline, StartWrite, CancelWait
  <2>4. TypeCallers'
    BY <1>0, <1>20 DEF TypeCallers, TypeQueue, CallerStages, OnDeadline, StartWrite, CancelWait
  <2>5. TypeFlags'
    BY <1>0, <1>20, Zenon DEF TypeFlags, OnDeadline, StartWrite, CancelWait
  <2>. QED
    BY <2>1, <2>2, <2>3, <2>4, <2>5 DEF TypeOK
<1>21. ASSUME NEW events \in stray, StrayLands(events) PROVE TypeOK'
  <2>0. events \in Seq(Nat)
    BY <1>0 DEF TypeStore
  <2>1. TypeQueue'
    BY <1>0, <1>21, <2>0 DEF TypeQueue, StrayLands
  <2>2. TypeStore'
    <3>1. Apply(events)
      BY <1>21 DEF StrayLands
    <3>2. store' \in Seq(Nat) /\ batches' \subseteq Seq(Nat)
      BY <1>0, <2>0, <3>1, ApplyType DEF TypeStore
    <3>. QED
      BY <1>0, <1>21, <3>2 DEF TypeStore, StrayLands
  <2>3. TypeStages'
    BY <1>0, <1>21 DEF TypeStages, WriteStages, BarrierStages, StrayLands
  <2>4. TypeCallers'
    BY <1>0, <1>21 DEF TypeCallers, TypeQueue, CallerStages, StrayLands
  <2>5. TypeFlags'
    BY <1>0, <1>21, Zenon DEF TypeFlags, StrayLands
  <2>. QED
    BY <2>1, <2>2, <2>3, <2>4, <2>5 DEF TypeOK
<1>22. ASSUME NEW events \in stray, StrayLost(events) PROVE TypeOK'
  <2>1. TypeQueue' /\ TypeStore' /\ TypeStages' /\ TypeCallers'
    BY <1>0, <1>22 DEF TypeQueue, TypeStore, TypeStages, TypeCallers,
      WriteStages, BarrierStages, CallerStages, StrayLost
  <2>2. TypeFlags'
    BY <1>0, <1>22, Zenon DEF TypeFlags, StrayLost
  <2>. QED
    BY <2>1, <2>2 DEF TypeOK
<1>30. CASE UNCHANGED vars
  BY <1>0, <1>30 DEF vars, TypeOK, TypeQueue, TypeStore, TypeStages, TypeCallers, TypeFlags
<1>. QED
  BY <1>1, <1>2, <1>3, <1>4, <1>5, <1>6, <1>7, <1>8, <1>9, <1>10, <1>11, <1>12, <1>13, <1>14, <1>15, <1>16, <1>17, <1>18, <1>19, <1>20, <1>21, <1>22, <1>30 DEF Next, Settle, Backend, Microtask

----------------------------------------------------------------------------
\* Facts the inductive step uses

\* What every conjunct of the invariant may assume.
LEMMA Parts ==
  ASSUME IndInv
  PROVE  /\ TypeQueue /\ TypeStore /\ TypeStages /\ TypeCallers /\ TypeFlags
         /\ Conservation /\ StoreInOrder /\ FlushIsDurable /\ CapacityBound
         /\ WriteInv /\ BarrierInv /\ DraftInv /\ RemoteInv /\ AdmissionInv
         /\ RetireInv
  BY DEF IndInv, SafeInv, TypeOK

\* Appending the next number to a run gives a run (enqueue's push).
LEMMA AppendRun ==
  ASSUME NEW s \in Seq(Nat), NEW a \in Nat, IsRun(s, a)
  PROVE  /\ Append(s, a + Len(s)) \in Seq(Nat)
         /\ Len(Append(s, a + Len(s))) = Len(s) + 1
         /\ IsRun(Append(s, a + Len(s)), a)
<1>1. /\ Append(s, a + Len(s)) \in Seq(Nat)
      /\ Len(Append(s, a + Len(s))) = Len(s) + 1
  OBVIOUS
<1>2. ASSUME NEW i \in DOMAIN Append(s, a + Len(s))
      PROVE  Append(s, a + Len(s))[i] = a + i - 1
  <2>1. i \in 1..(Len(s) + 1)
    BY <1>1
  <2>2. CASE i <= Len(s)
    BY <2>1, <2>2 DEF IsRun
  <2>3. CASE i = Len(s) + 1
    BY <2>1, <2>3
  <2>. QED
    BY <2>1, <2>2, <2>3
<1>. QED
  BY <1>1, <1>2 DEF IsRun

\* A store that takes a batch only at its end, or recognizes it, stays a run
\* that covers the batch (ConversationRepository.append).
LEMMA ApplyRun ==
  ASSUME TypeStore, IsRun(store, 0),
         \A e \in batches : Ordered(e) /\ e[1] + Len(e) <= Len(store),
         NEW events \in Seq(Nat), Apply(events),
         events # <<>> => Ordered(events) /\ Accepts(events)
  PROVE  /\ store' \in Seq(Nat)
         /\ IsRun(store', 0)
         /\ Len(store) <= Len(store')
         /\ events # <<>> => events[1] + Len(events) <= Len(store')
         /\ \/ store' = store
            \/ /\ events # <<>> /\ events[1] = Len(store)
               /\ Len(store') = Len(store) + Len(events)
         /\ \A e \in batches' : Ordered(e) /\ e[1] + Len(e) <= Len(store')
<1>1. store \in Seq(Nat) /\ batches \subseteq Seq(Nat)
  BY DEF TypeStore
<1>2. CASE events = <<>> \/ Duplicate(events)
  <2>1. store' = store /\ batches' = batches
    BY <1>2, Zenon DEF Apply
  <2>2. events # <<>> => events \in batches
    BY <1>2, Zenon DEF Duplicate
  <2>. QED
    BY <1>1, <2>1, <2>2
<1>3. CASE events # <<>> /\ ~Duplicate(events)
  <2>1. store' = store \o events
    BY <1>3, Zenon DEF Apply
  <2>2. batches' = batches \/ batches' = batches \cup {events}
    BY <1>3, Zenon DEF Apply
  <2>3. events[1] = Len(store) /\ IsRun(events, Len(store)) /\ Ordered(events)
    <3>1. Ordered(events) /\ Head(events) = Len(store)
      BY <1>3, Zenon DEF Accepts
    <3>2. Head(events) = events[1]
      BY <1>3
    <3>. QED
      BY <3>1, <3>2 DEF Ordered
  <2>4. IsRun(events, 0 + Len(store)) /\ 0 \in Nat
    BY <1>1, <2>3
  <2>5. /\ store' \in Seq(Nat) /\ IsRun(store', 0)
        /\ Len(store') = Len(store) + Len(events)
    BY <1>1, <2>1, <2>4, RunConcat
  <2>6. ASSUME NEW e \in batches'
        PROVE  Ordered(e) /\ e[1] + Len(e) <= Len(store')
    <3>1. CASE e \in batches
      <4>1. e \in Seq(Nat) /\ Ordered(e) /\ e[1] + Len(e) <= Len(store)
        BY <1>1, <3>1
      <4>2. e[1] \in Nat
        BY <4>1 DEF Ordered
      <4>. QED
        BY <1>1, <2>5, <4>1, <4>2
    <3>2. CASE e = events
      BY <1>1, <2>3, <2>5, <3>2
    <3>. QED
      BY <2>2, <2>6, <3>1, <3>2
  <2>. QED
    BY <1>1, <1>3, <2>3, <2>5, <2>6
<1>. QED
  BY <1>2, <1>3

\* What a write in progress sends: the deferred prefix and its whole batch,
\* a run that starts at the cursor (appendCore's durableEvents).
LEMMA DurableRun ==
  ASSUME TypeQueue, Conservation, WriteInv, active = "writing"
  PROVE  /\ init = "ok" /\ batch # <<>>
         /\ Held = batch /\ Taken = cursor + Len(deferred)
         /\ Fresh = batch
         /\ durableEvents \in Seq(Nat) /\ durableEvents # <<>>
         /\ Len(durableEvents) = Len(deferred) + Len(batch)
         /\ durableEvents[1] = cursor
         /\ Ordered(durableEvents)
<1>1. init = "ok" /\ batch # <<>>
  BY DEF WriteInv, InFlight
<1>2. Held = batch /\ Taken = cursor + Len(deferred)
  BY <1>1 DEF Held, InFlight, Taken
<1>3. IsRun(deferred, cursor) /\ IsRun(batch, cursor + Len(deferred))
  BY <1>1, <1>2 DEF Conservation
<1>4. Fresh = batch /\ durableEvents = deferred \o batch
  BY <1>3, FreshType DEF durableEvents
<1>5. deferred \in Seq(Nat) /\ batch \in Seq(Nat) /\ cursor \in Nat
  BY DEF TypeQueue
<1>6. /\ durableEvents \in Seq(Nat)
      /\ Len(durableEvents) = Len(deferred) + Len(batch)
      /\ IsRun(durableEvents, cursor)
  BY <1>3, <1>4, <1>5, RunConcat
<1>7. durableEvents # <<>> /\ 1 \in DOMAIN durableEvents
  BY <1>1, <1>5, <1>6
<1>8. durableEvents[1] = cursor
  <2>1. durableEvents[1] = cursor + 1 - 1
    BY <1>6, <1>7, Zenon DEF IsRun
  <2>. QED
    BY <1>5, <2>1
<1>. QED
  BY <1>1, <1>2, <1>4, <1>6, <1>7, <1>8 DEF Ordered

\* The part of the seed that initialization appends continues the store.
LEMMA SeedRun ==
  ASSUME TypeQueue, TypeStore, DraftInv, init = "pending"
  PROVE  /\ SeedSuffix \in Seq(Nat)
         /\ Len(SeedSuffix) = seed - Len(store)
         /\ IsRun(SeedSuffix, Len(store))
         /\ SeedSuffix # <<>> =>
              /\ Ordered(SeedSuffix) /\ Accepts(SeedSuffix)
              /\ SeedSuffix[1] = Len(store)
<1>1. Len(store) \in Nat /\ seed \in Nat /\ Len(store) <= seed
  BY DEF TypeQueue, TypeStore, DraftInv
<1>2. /\ SeedSuffix \in Seq(Nat)
      /\ Len(SeedSuffix) = seed - Len(store)
      /\ IsRun(SeedSuffix, Len(store))
  BY <1>1, RunType DEF SeedSuffix
<1>3. ASSUME SeedSuffix # <<>>
      PROVE  SeedSuffix[1] = Len(store) /\ Head(SeedSuffix) = SeedSuffix[1]
  <2>1. 1 \in DOMAIN SeedSuffix
    BY <1>2, <1>3
  <2>2. SeedSuffix[1] = Len(store) + 1 - 1
    BY <1>2, <2>1 DEF IsRun
  <2>. QED
    BY <1>1, <1>2, <1>3, <2>2
<1>. QED
  BY <1>2, <1>3 DEF Ordered, Accepts

\* A step that only lets the store grow keeps every answered flush durable.
LEMMA StillDurable ==
  ASSUME TypeStore, TypeCallers, FlushIsDurable, store' \in Seq(Nat),
         Len(store) <= Len(store'), UNCHANGED <<caller, mark, draft>>
  PROVE  FlushIsDurable'
<1>1. Len(store) \in Nat /\ Len(store') \in Nat
  BY DEF TypeStore
<1>2. ASSUME NEW c \in FlushCallers, caller'[c] = "ok"
      PROVE  Covered(mark[c])'
  <2>1. caller[c] = "ok" /\ mark[c] \in Nat
    BY <1>2 DEF TypeCallers
  <2>2. Covered(mark[c])
    BY <2>1 DEF FlushIsDurable
  <2>3. mark'[c] = mark[c] /\ draft' = draft
    OBVIOUS
  <2>4. CASE mark[c] <= Len(store)
    BY <1>1, <2>1, <2>3, <2>4 DEF Covered
  <2>5. CASE draft /\ \A e \in Materializing : e >= mark[c]
    BY <2>3, <2>5 DEF Covered
  <2>. QED
    BY <2>2, <2>4, <2>5, Zenon DEF Covered
<1>. QED
  BY <1>2, Zenon DEF FlushIsDurable

\* When nothing is queued or being written and nothing was refused, every
\* event emitted so far is durable or part of a trivial draft.
LEMMA DrainedCovers ==
  ASSUME TypeQueue, TypeStore, Conservation, StoreInOrder, WriteInv, DraftInv,
         AdmissionInv, init = "ok", pending = <<>>, active = "none",
         ~admissionFailure, NEW n \in Nat, n <= emitted
  PROVE  Covered(n)
<1>1. emitted = cursor + Len(deferred)
  BY DEF Conservation, Taken, Held, InFlight, AdmissionInv, TypeQueue
<1>2. cursor <= Len(store) /\ Len(store) \in Nat /\ cursor \in Nat /\ deferred \in Seq(Nat)
  BY DEF StoreInOrder, TypeStore, TypeQueue
<1>3. CASE deferred = <<>>
  <2>1. n <= Len(store)
    BY <1>1, <1>2, <1>3
  <2>. QED
    BY <2>1 DEF Covered
<1>4. CASE deferred # <<>>
  <2>1. draft /\ ~materialized /\ ~Materializes(deferred)
    BY <1>4, Zenon DEF DraftInv
  <2>2. cursor = 0
    BY <2>1, Zenon DEF DraftInv
  <2>3. ASSUME NEW e \in Materializing PROVE e >= n
    <3>1. e \in Nat
      BY WriteBehindAssumption
    <3>2. CASE e < Len(deferred)
      <4>1. e + 1 \in DOMAIN deferred
        BY <1>2, <3>1, <3>2
      <4>2. deferred[e + 1] = cursor + (e + 1) - 1
        BY <4>1 DEF Conservation, IsRun
      <4>3. deferred[e + 1] = e
        BY <2>2, <3>1, <4>2
      <4>. QED
        BY <2>1, <2>3, <4>1, <4>3 DEF Materializes
    <3>3. CASE ~(e < Len(deferred))
      BY <1>1, <1>2, <2>2, <3>1, <3>3
    <3>. QED
      BY <3>2, <3>3
  <2>. QED
    BY <2>1, <2>3, Zenon DEF Covered
<1>. QED
  BY <1>3, <1>4

\* startWrite from rest moves the queue into the batch and loses nothing.
LEMMA StartWriteConserves ==
  ASSUME TypeQueue, Conservation, active = "none", NEW b, StartWrite(b),
         UNCHANGED <<init, seed, cursor, deferred, accepted>>
  PROVE  Conservation'
<1>1. Held = <<>> /\ Held' = pending /\ pending' = <<>> /\ Taken' = Taken
  BY DEF Held, InFlight, Taken, StartWrite
<1>2. pending \in Seq(Nat) /\ Taken \in Nat
  BY DEF TypeQueue, Taken
<1>3. IsRun(pending, Taken) /\ accepted = Taken + Len(pending)
  BY <1>1, <1>2 DEF Conservation
<1>4. IsRun(Held', Taken') /\ IsRun(pending', Taken' + Len(Held'))
  BY <1>1, <1>2, <1>3 DEF IsRun
<1>5. accepted' = Taken' + Len(Held') + Len(pending')
  BY <1>1, <1>2, <1>3
<1>6. init' = "ok" => IsRun(deferred', cursor')
  BY DEF Conservation, IsRun
<1>. QED
  BY <1>4, <1>5, <1>6 DEF Conservation

\* A step that leaves the queues and the coordinator's state alone conserves.
LEMMA StillConserved ==
  ASSUME Conservation,
         UNCHANGED <<init, seed, cursor, deferred, accepted, pending, batch, active>>
  PROVE  Conservation'
  BY DEF Conservation, IsRun, Held, InFlight, Taken

----------------------------------------------------------------------------
\* The inductive step, one lemma per handler

\* enqueue keeps the invariant: the event joins the end of the queue.
LEMMA EnqueueStep ==
  ASSUME IndInv, Enqueue
  PROVE  SafeInv'
<1>. USE DEF control, queue, session, state, flushes, remote
<1>0. /\ TypeQueue /\ TypeStore /\ TypeStages /\ TypeCallers /\ TypeFlags
      /\ Conservation /\ StoreInOrder /\ FlushIsDurable /\ CapacityBound
      /\ WriteInv /\ BarrierInv /\ DraftInv /\ RemoteInv /\ AdmissionInv /\ RetireInv
  BY Parts
<1>1. StoreInOrder'
  BY <1>0, WriteBehindAssumption DEF StoreInOrder, IsRun, TypeQueue,
    TypeStore, TypeStages, TypeCallers, TypeFlags, Enqueue, Emit,
    ArmOnEnqueue, FlushCallers
<1>2. FlushIsDurable' /\ AdmissionInv' /\ RetireInv'
  BY <1>0, WriteBehindAssumption DEF FlushIsDurable, Covered, AdmissionInv,
    RetireInv, TypeQueue, TypeStore, TypeStages, TypeCallers, TypeFlags,
    Enqueue, Emit, ArmOnEnqueue, FlushCallers
<1>3. BarrierInv' /\ DraftInv'
  BY <1>0, WriteBehindAssumption DEF BarrierInv, DraftInv, Materializes,
    TypeQueue, TypeStore, TypeStages, TypeCallers, TypeFlags, Enqueue, Emit,
    ArmOnEnqueue, FlushCallers
<1>4. Conservation'
  <2>1. emitted = accepted /\ Taken \in Nat /\ Held \in Seq(Nat) /\ pending \in Seq(Nat)
    BY <1>0 DEF Enqueue, AdmissionInv, TypeQueue, Taken, Held
  <2>2. Taken' = Taken /\ Held' = Held
    BY DEF Enqueue, Taken, Held, InFlight
  <2>3. /\ pending' = Append(pending, (Taken + Len(Held)) + Len(pending))
        /\ accepted' = accepted + 1
    BY <1>0, <2>1 DEF Enqueue, Conservation
  <2>4. IsRun(pending, Taken + Len(Held)) /\ Taken + Len(Held) \in Nat
    BY <1>0, <2>1 DEF Conservation
  <2>5. IsRun(pending', Taken' + Len(Held')) /\ Len(pending') = Len(pending) + 1
    BY <2>1, <2>2, <2>3, <2>4, AppendRun
  <2>6. IsRun(Held', Taken') /\ (init' = "ok" => IsRun(deferred', cursor'))
    BY <1>0, <2>2 DEF Conservation, Enqueue, IsRun
  <2>. QED
    BY <1>0, <2>1, <2>2, <2>3, <2>5, <2>6 DEF Conservation
<1>5. CapacityBound'
  <2>1. Len(pending) + activeBatchSize < MaxPending
    BY <1>0, WriteBehindAssumption DEF Enqueue, Full, TypeQueue
  <2>2. Len(Held) <= activeBatchSize /\ Held' = Held
    BY <1>0 DEF WriteInv, Held, InFlight, TypeQueue, Enqueue
  <2>3. Len(pending') = Len(pending) + 1
    BY <1>0 DEF Enqueue, TypeQueue
  <2>4. Len(Held) \in Nat /\ Len(pending) \in Nat /\ activeBatchSize \in Nat
    BY <1>0 DEF Held, TypeQueue
  <2>. QED
    BY <2>1, <2>2, <2>3, <2>4, WriteBehindAssumption DEF CapacityBound
<1>6. WriteInv'
  <2>1. pending' # <<>> /\ barrier' = barrier /\ UNCHANGED <<state, store, stray, batch, active, activeBatchSize, auto>>
    BY <1>0 DEF Enqueue, TypeQueue
  <2>. QED
    BY <1>0, <2>1 DEF WriteInv, InFlight, Materializes
<1>7. RemoteInv'
  <2>1. UNCHANGED <<stray, batches, store>> /\ accepted' = accepted + 1 /\ accepted \in Nat
    BY <1>0 DEF Enqueue, TypeQueue
  <2>2. ASSUME NEW e \in stray PROVE Ordered(e) /\ e[1] + Len(e) <= accepted + 1
    <3>1. e \in Seq(Nat) /\ Ordered(e) /\ e[1] + Len(e) <= accepted
      BY <1>0, <2>2 DEF RemoteInv, TypeStore
    <3>2. e[1] \in Nat
      BY <3>1 DEF Ordered
    <3>. QED
      BY <2>1, <3>1, <3>2
  <2>. QED
    BY <1>0, <2>1, <2>2 DEF RemoteInv
<1>. QED
  BY <1>1, <1>2, <1>3, <1>4, <1>5, <1>6, <1>7 DEF SafeInv

\* A refused event changes nothing but the admission failure.
LEMMA EnqueueRefusedStep ==
  ASSUME IndInv, EnqueueRefused
  PROVE  SafeInv'
<1>. USE DEF control, queue, session, state, flushes, remote
<1>0. /\ TypeQueue /\ TypeStore /\ TypeStages /\ TypeCallers /\ TypeFlags
      /\ Conservation /\ StoreInOrder /\ FlushIsDurable /\ CapacityBound
      /\ WriteInv /\ BarrierInv /\ DraftInv /\ RemoteInv /\ AdmissionInv /\ RetireInv
  BY Parts
<1>1. Conservation' /\ StoreInOrder' /\ CapacityBound' /\ RemoteInv'
  BY <1>0, WriteBehindAssumption DEF Conservation, IsRun, Held, InFlight,
    Taken, StoreInOrder, CapacityBound, RemoteInv, Ordered, TypeQueue,
    TypeStore, TypeStages, TypeCallers, TypeFlags, EnqueueRefused, Emit,
    FlushCallers
<1>2. FlushIsDurable' /\ AdmissionInv' /\ RetireInv'
  BY <1>0, WriteBehindAssumption DEF FlushIsDurable, Covered, AdmissionInv,
    RetireInv, TypeQueue, TypeStore, TypeStages, TypeCallers, TypeFlags,
    EnqueueRefused, Emit, FlushCallers
<1>3. WriteInv' /\ BarrierInv' /\ DraftInv'
  BY <1>0, WriteBehindAssumption DEF WriteInv, InFlight, Materializes,
    BarrierInv, DraftInv, TypeQueue, TypeStore, TypeStages, TypeCallers,
    TypeFlags, EnqueueRefused, Emit, FlushCallers
<1>. QED
  BY <1>1, <1>2, <1>3 DEF SafeInv

\* session/flush marks its caller and cancels the deadline.
LEMMA FlushCallStep ==
  ASSUME IndInv, NEW c \in Callers, FlushCall(c)
  PROVE  SafeInv'
<1>. USE DEF control, queue, session, state, flushes, remote
<1>0. /\ TypeQueue /\ TypeStore /\ TypeStages /\ TypeCallers /\ TypeFlags
      /\ Conservation /\ StoreInOrder /\ FlushIsDurable /\ CapacityBound
      /\ WriteInv /\ BarrierInv /\ DraftInv /\ RemoteInv /\ AdmissionInv /\ RetireInv
  BY Parts
<1>1. Conservation' /\ StoreInOrder' /\ CapacityBound' /\ RemoteInv'
  BY <1>0, WriteBehindAssumption DEF Conservation, IsRun, Held, InFlight,
    Taken, StoreInOrder, CapacityBound, RemoteInv, Ordered, TypeQueue,
    TypeStore, TypeStages, TypeCallers, TypeFlags, FlushCall, Call,
    CancelWait, FlushCallers
<1>2. FlushIsDurable' /\ AdmissionInv' /\ RetireInv'
  BY <1>0, WriteBehindAssumption DEF FlushIsDurable, Covered, AdmissionInv,
    RetireInv, TypeQueue, TypeStore, TypeStages, TypeCallers, TypeFlags,
    FlushCall, Call, CancelWait, FlushCallers
<1>3. WriteInv' /\ BarrierInv' /\ DraftInv'
  BY <1>0, WriteBehindAssumption DEF WriteInv, InFlight, Materializes,
    BarrierInv, DraftInv, TypeQueue, TypeStore, TypeStages, TypeCallers,
    TypeFlags, FlushCall, Call, CancelWait, FlushCallers
<1>. QED
  BY <1>1, <1>2, <1>3 DEF SafeInv

\* session/disposed starts the final drain.
LEMMA DisposeStep ==
  ASSUME IndInv, Dispose
  PROVE  SafeInv'
<1>. USE DEF control, queue, session, state, flushes, remote
<1>0. /\ TypeQueue /\ TypeStore /\ TypeStages /\ TypeCallers /\ TypeFlags
      /\ Conservation /\ StoreInOrder /\ FlushIsDurable /\ CapacityBound
      /\ WriteInv /\ BarrierInv /\ DraftInv /\ RemoteInv /\ AdmissionInv /\ RetireInv
  BY Parts
<1>1. Conservation' /\ StoreInOrder' /\ CapacityBound' /\ RemoteInv'
  BY <1>0, WriteBehindAssumption DEF Conservation, IsRun, Held, InFlight,
    Taken, StoreInOrder, CapacityBound, RemoteInv, Ordered, TypeQueue,
    TypeStore, TypeStages, TypeCallers, TypeFlags, Dispose, Call, CancelWait,
    FlushCallers
<1>2. FlushIsDurable' /\ AdmissionInv' /\ RetireInv'
  BY <1>0, WriteBehindAssumption DEF FlushIsDurable, Covered, AdmissionInv,
    RetireInv, TypeQueue, TypeStore, TypeStages, TypeCallers, TypeFlags,
    Dispose, Call, CancelWait, FlushCallers
<1>3. WriteInv' /\ BarrierInv' /\ DraftInv'
  BY <1>0, WriteBehindAssumption DEF WriteInv, InFlight, Materializes,
    BarrierInv, DraftInv, TypeQueue, TypeStore, TypeStages, TypeCallers,
    TypeFlags, Dispose, Call, CancelWait, FlushCallers
<1>. QED
  BY <1>1, <1>2, <1>3 DEF SafeInv

\* Backend teardown retries a failed retirement.
LEMMA TeardownFlushStep ==
  ASSUME IndInv, TeardownFlush
  PROVE  SafeInv'
<1>. USE DEF control, queue, session, state, flushes, remote
<1>0. /\ TypeQueue /\ TypeStore /\ TypeStages /\ TypeCallers /\ TypeFlags
      /\ Conservation /\ StoreInOrder /\ FlushIsDurable /\ CapacityBound
      /\ WriteInv /\ BarrierInv /\ DraftInv /\ RemoteInv /\ AdmissionInv /\ RetireInv
  BY Parts
<1>1. Conservation' /\ StoreInOrder' /\ CapacityBound' /\ RemoteInv'
  BY <1>0, WriteBehindAssumption DEF Conservation, IsRun, Held, InFlight,
    Taken, StoreInOrder, CapacityBound, RemoteInv, Ordered, TypeQueue,
    TypeStore, TypeStages, TypeCallers, TypeFlags, TeardownFlush, Call,
    CancelWait, FlushCallers
<1>2. FlushIsDurable' /\ AdmissionInv' /\ RetireInv'
  BY <1>0, WriteBehindAssumption DEF FlushIsDurable, Covered, AdmissionInv,
    RetireInv, TypeQueue, TypeStore, TypeStages, TypeCallers, TypeFlags,
    TeardownFlush, Call, CancelWait, FlushCallers
<1>3. WriteInv' /\ BarrierInv' /\ DraftInv'
  BY <1>0, WriteBehindAssumption DEF WriteInv, InFlight, Materializes,
    BarrierInv, DraftInv, TypeQueue, TypeStore, TypeStages, TypeCallers,
    TypeFlags, TeardownFlush, Call, CancelWait, FlushCallers
<1>. QED
  BY <1>1, <1>2, <1>3 DEF SafeInv

\* retireCore drops the controller.
LEMMA ReleaseStep ==
  ASSUME IndInv, Release
  PROVE  SafeInv'
<1>. USE DEF control, queue, session, state, flushes, remote
<1>0. /\ TypeQueue /\ TypeStore /\ TypeStages /\ TypeCallers /\ TypeFlags
      /\ Conservation /\ StoreInOrder /\ FlushIsDurable /\ CapacityBound
      /\ WriteInv /\ BarrierInv /\ DraftInv /\ RemoteInv /\ AdmissionInv /\ RetireInv
  BY Parts
<1>1. Conservation' /\ StoreInOrder' /\ CapacityBound' /\ RemoteInv'
  BY <1>0, WriteBehindAssumption DEF Conservation, IsRun, Held, InFlight,
    Taken, StoreInOrder, CapacityBound, RemoteInv, Ordered, TypeQueue,
    TypeStore, TypeStages, TypeCallers, TypeFlags, Release, FlushCallers
<1>2. FlushIsDurable' /\ AdmissionInv' /\ RetireInv'
  BY <1>0, WriteBehindAssumption DEF FlushIsDurable, Covered, AdmissionInv,
    RetireInv, TypeQueue, TypeStore, TypeStages, TypeCallers, TypeFlags,
    Release, FlushCallers
<1>3. WriteInv' /\ BarrierInv' /\ DraftInv'
  BY <1>0, WriteBehindAssumption DEF WriteInv, InFlight, Materializes,
    BarrierInv, DraftInv, TypeQueue, TypeStore, TypeStages, TypeCallers,
    TypeFlags, Release, FlushCallers
<1>. QED
  BY <1>1, <1>2, <1>3 DEF SafeInv

\* onCreated persists, adopts or defers the seed.
LEMMA InitSucceedsStep ==
  ASSUME IndInv, InitSucceeds
  PROVE  SafeInv'
<1>. USE DEF control, queue, session, state, flushes, remote
<1>0. /\ TypeQueue /\ TypeStore /\ TypeStages /\ TypeCallers /\ TypeFlags
      /\ Conservation /\ StoreInOrder /\ FlushIsDurable /\ CapacityBound
      /\ WriteInv /\ BarrierInv /\ DraftInv /\ RemoteInv /\ AdmissionInv /\ RetireInv
  BY Parts
<1>a. init = "pending" /\ init' = "ok"
  BY DEF InitSucceeds
<1>b. /\ SeedSuffix \in Seq(Nat)
      /\ Len(SeedSuffix) = seed - Len(store)
      /\ IsRun(SeedSuffix, Len(store))
      /\ SeedSuffix # <<>> =>
           Ordered(SeedSuffix) /\ Accepts(SeedSuffix) /\ SeedSuffix[1] = Len(store)
  BY <1>0, <1>a, SeedRun
<1>c. cursor = 0 /\ deferred = <<>> /\ stray = {} /\ Len(store) <= seed /\ ~materialized
  BY <1>0, <1>a DEF DraftInv
<1>d. seed \in Nat /\ Len(store) \in Nat /\ store \in Seq(Nat) /\ accepted \in Nat
  BY <1>0 DEF TypeQueue, TypeStore
<1>e. \/ /\ store = <<>> /\ Defers(SeedSuffix) /\ deferred' = SeedSuffix
         /\ UNCHANGED <<cursor, materialized, store, batches>>
      \/ /\ Apply(SeedSuffix) /\ cursor' = seed /\ materialized' = (seed # 0)
         /\ deferred' = deferred
  BY Zenon DEF InitSucceeds
<1>f. ASSUME Apply(SeedSuffix)
      PROVE  /\ store' \in Seq(Nat) /\ IsRun(store', 0) /\ Len(store') = seed
             /\ Len(store) <= Len(store')
             /\ \A e \in batches' : Ordered(e) /\ e[1] + Len(e) <= Len(store')
  <2>1. IsRun(store, 0) /\ \A e \in batches : Ordered(e) /\ e[1] + Len(e) <= Len(store)
    BY <1>0 DEF StoreInOrder, RemoteInv
  <2>2. /\ store' \in Seq(Nat) /\ IsRun(store', 0) /\ Len(store) <= Len(store')
        /\ SeedSuffix # <<>> => SeedSuffix[1] + Len(SeedSuffix) <= Len(store')
        /\ \/ store' = store
           \/ /\ SeedSuffix # <<>> /\ SeedSuffix[1] = Len(store)
              /\ Len(store') = Len(store) + Len(SeedSuffix)
        /\ \A e \in batches' : Ordered(e) /\ e[1] + Len(e) <= Len(store')
    BY <1>0, <1>b, <1>f, <2>1, ApplyRun
  <2>3. SeedSuffix = <<>> => Len(store) = seed
    BY <1>b, <1>d
  <2>4. Len(store') = seed
    BY <1>b, <1>c, <1>d, <2>2, <2>3
  <2>. QED
    BY <2>2, <2>4
<1>g. UNCHANGED <<seed, draft, stray, control, queue, session, flushes>>
  BY DEF InitSucceeds
<1>h. /\ Held' = Held /\ Held \in Seq(Nat) /\ Taken = seed /\ seed <= accepted
      /\ IsRun(Held, seed) /\ IsRun(pending, seed + Len(Held))
      /\ accepted = seed + Len(Held) + Len(pending)
  BY <1>0, <1>a, <1>g DEF Held, InFlight, Taken, Conservation, TypeQueue
<1>1. CapacityBound'
  BY <1>0, WriteBehindAssumption DEF CapacityBound, Held, InFlight, TypeQueue,
    TypeStore, TypeStages, TypeCallers, TypeFlags, InitSucceeds, FlushCallers
<1>2. AdmissionInv' /\ RetireInv'
  BY <1>0, WriteBehindAssumption DEF AdmissionInv, RetireInv, TypeQueue,
    TypeStore, TypeStages, TypeCallers, TypeFlags, InitSucceeds, FlushCallers
<1>3. WriteInv' /\ BarrierInv'
  BY <1>0, WriteBehindAssumption DEF WriteInv, InFlight, Materializes,
    BarrierInv, TypeQueue, TypeStore, TypeStages, TypeCallers, TypeFlags,
    InitSucceeds, FlushCallers
<1>4. Conservation'
  <2>1. cursor' + Len(deferred') = seed /\ IsRun(deferred', cursor')
    <3>1. CASE store = <<>> /\ deferred' = SeedSuffix /\ cursor' = cursor
      BY <1>b, <1>c, <1>d, <3>1 DEF IsRun
    <3>2. CASE cursor' = seed /\ deferred' = deferred
      BY <1>c, <1>d, <3>2 DEF IsRun
    <3>. QED
      BY <1>e, <3>1, <3>2
  <2>2. Taken' = seed
    BY <1>a, <2>1 DEF Taken
  <2>. QED
    BY <1>g, <1>h, <2>1, <2>2 DEF Conservation, IsRun
<1>5. StoreInOrder'
  <2>1. CASE UNCHANGED <<store, cursor>>
    BY <1>0, <1>g, <2>1 DEF StoreInOrder, IsRun
  <2>2. CASE Apply(SeedSuffix) /\ cursor' = seed
    BY <1>d, <1>f, <1>g, <1>h, <2>2 DEF StoreInOrder
  <2>. QED
    BY <1>e, <2>1, <2>2
<1>6. FlushIsDurable'
  <2>1. store' \in Seq(Nat) /\ Len(store) <= Len(store')
    BY <1>d, <1>e, <1>f
  <2>. QED
    BY <1>0, <1>g, <2>1, StillDurable
<1>7. DraftInv'
  <2>1. CASE /\ store = <<>> /\ Defers(SeedSuffix) /\ deferred' = SeedSuffix
             /\ UNCHANGED <<cursor, materialized, store, batches>>
    BY <1>a, <1>c, <1>g, <2>1 DEF DraftInv, Defers, Materializes
  <2>2. CASE cursor' = seed /\ materialized' = (seed # 0) /\ deferred' = deferred
    BY <1>a, <1>c, <1>g, <2>2 DEF DraftInv, Materializes
  <2>. QED
    BY <1>e, <2>1, <2>2
<1>8. RemoteInv'
  <2>1. stray' = {}
    BY <1>c, <1>g
  <2>2. CASE UNCHANGED <<store, batches>>
    BY <1>0, <2>1, <2>2 DEF RemoteInv
  <2>3. CASE Apply(SeedSuffix)
    BY <1>f, <2>1, <2>3 DEF RemoteInv
  <2>. QED
    BY <1>e, <2>2, <2>3
<1>. QED
  BY <1>1, <1>2, <1>3, <1>4, <1>5, <1>6, <1>7, <1>8 DEF SafeInv

\* A failed onCreated leaves the queue as it is.
LEMMA InitFailsStep ==
  ASSUME IndInv, InitFails
  PROVE  SafeInv'
<1>. USE DEF control, queue, session, state, flushes, remote
<1>0. /\ TypeQueue /\ TypeStore /\ TypeStages /\ TypeCallers /\ TypeFlags
      /\ Conservation /\ StoreInOrder /\ FlushIsDurable /\ CapacityBound
      /\ WriteInv /\ BarrierInv /\ DraftInv /\ RemoteInv /\ AdmissionInv /\ RetireInv
  BY Parts
<1>a. init = "pending" /\ init' = "failed"
  BY DEF InitFails
<1>b. /\ SeedSuffix \in Seq(Nat)
      /\ Len(SeedSuffix) = seed - Len(store)
      /\ IsRun(SeedSuffix, Len(store))
      /\ SeedSuffix # <<>> =>
           Ordered(SeedSuffix) /\ Accepts(SeedSuffix) /\ SeedSuffix[1] = Len(store)
  BY <1>0, <1>a, SeedRun
<1>c. cursor = 0 /\ deferred = <<>> /\ stray = {} /\ Len(store) <= seed /\ ~materialized
  BY <1>0, <1>a DEF DraftInv
<1>d. seed \in Nat /\ Len(store) \in Nat /\ store \in Seq(Nat) /\ accepted \in Nat
  BY <1>0 DEF TypeQueue, TypeStore
<1>e. UNCHANGED <<store, batches>> \/ Apply(SeedSuffix)
  BY Zenon DEF InitFails
<1>f. ASSUME Apply(SeedSuffix)
      PROVE  /\ store' \in Seq(Nat) /\ IsRun(store', 0) /\ Len(store') = seed
             /\ Len(store) <= Len(store')
             /\ \A e \in batches' : Ordered(e) /\ e[1] + Len(e) <= Len(store')
  <2>1. IsRun(store, 0) /\ \A e \in batches : Ordered(e) /\ e[1] + Len(e) <= Len(store)
    BY <1>0 DEF StoreInOrder, RemoteInv
  <2>2. /\ store' \in Seq(Nat) /\ IsRun(store', 0) /\ Len(store) <= Len(store')
        /\ SeedSuffix # <<>> => SeedSuffix[1] + Len(SeedSuffix) <= Len(store')
        /\ \/ store' = store
           \/ /\ SeedSuffix # <<>> /\ SeedSuffix[1] = Len(store)
              /\ Len(store') = Len(store) + Len(SeedSuffix)
        /\ \A e \in batches' : Ordered(e) /\ e[1] + Len(e) <= Len(store')
    BY <1>0, <1>b, <1>f, <2>1, ApplyRun
  <2>3. SeedSuffix = <<>> => Len(store) = seed
    BY <1>b, <1>d
  <2>4. Len(store') = seed
    BY <1>b, <1>c, <1>d, <2>2, <2>3
  <2>. QED
    BY <2>2, <2>4
<1>g. UNCHANGED <<seed, draft, stray, cursor, deferred, materialized, control, queue, session, flushes>>
  BY DEF InitFails
<1>h. /\ Held' = Held /\ Held \in Seq(Nat) /\ Taken = seed /\ seed <= accepted
      /\ IsRun(Held, seed) /\ IsRun(pending, seed + Len(Held))
      /\ accepted = seed + Len(Held) + Len(pending)
  BY <1>0, <1>a, <1>g DEF Held, InFlight, Taken, Conservation, TypeQueue
<1>1. Conservation' /\ CapacityBound'
  BY <1>0, WriteBehindAssumption DEF Conservation, IsRun, Held, InFlight,
    Taken, CapacityBound, TypeQueue, TypeStore, TypeStages, TypeCallers,
    TypeFlags, InitFails, FlushCallers
<1>2. AdmissionInv' /\ RetireInv'
  BY <1>0, WriteBehindAssumption DEF AdmissionInv, RetireInv, TypeQueue,
    TypeStore, TypeStages, TypeCallers, TypeFlags, InitFails, FlushCallers
<1>3. WriteInv' /\ BarrierInv' /\ DraftInv'
  BY <1>0, WriteBehindAssumption DEF WriteInv, InFlight, Materializes,
    BarrierInv, DraftInv, TypeQueue, TypeStore, TypeStages, TypeCallers,
    TypeFlags, InitFails, FlushCallers
<1>4. StoreInOrder'
  <2>1. CASE UNCHANGED <<store, batches>>
    BY <1>0, <1>g, <2>1 DEF StoreInOrder, IsRun
  <2>2. CASE Apply(SeedSuffix)
    BY <1>c, <1>d, <1>f, <1>g, <1>h, <2>2 DEF StoreInOrder
  <2>. QED
    BY <1>e, <2>1, <2>2
<1>5. FlushIsDurable'
  <2>1. store' \in Seq(Nat) /\ Len(store) <= Len(store')
    BY <1>d, <1>e, <1>f
  <2>. QED
    BY <1>0, <1>g, <2>1, StillDurable
<1>6. RemoteInv'
  <2>1. stray' = {}
    BY <1>c, <1>g
  <2>2. CASE UNCHANGED <<store, batches>>
    BY <1>0, <2>1, <2>2 DEF RemoteInv
  <2>3. CASE Apply(SeedSuffix)
    BY <1>f, <2>1, <2>3 DEF RemoteInv
  <2>. QED
    BY <1>e, <2>2, <2>3
<1>. QED
  BY <1>1, <1>2, <1>3, <1>4, <1>5, <1>6 DEF SafeInv

\* A committed append moves its batch below the cursor.
LEMMA BackendCommitsStep ==
  ASSUME IndInv, BackendCommits
  PROVE  SafeInv'
<1>. USE DEF control, queue, session, state, flushes, remote
<1>0. /\ TypeQueue /\ TypeStore /\ TypeStages /\ TypeCallers /\ TypeFlags
      /\ Conservation /\ StoreInOrder /\ FlushIsDurable /\ CapacityBound
      /\ WriteInv /\ BarrierInv /\ DraftInv /\ RemoteInv /\ AdmissionInv /\ RetireInv
  BY Parts
<1>a. /\ init = "ok" /\ batch # <<>>
      /\ Held = batch /\ Taken = cursor + Len(deferred)
      /\ durableEvents \in Seq(Nat) /\ durableEvents # <<>>
      /\ Len(durableEvents) = Len(deferred) + Len(batch)
      /\ durableEvents[1] = cursor
      /\ Ordered(durableEvents)
  BY <1>0, DurableRun DEF BackendCommits
<1>b. /\ store' \in Seq(Nat) /\ IsRun(store', 0) /\ Len(store) <= Len(store')
      /\ durableEvents # <<>> => durableEvents[1] + Len(durableEvents) <= Len(store')
      /\ \/ store' = store
         \/ /\ durableEvents # <<>> /\ durableEvents[1] = Len(store)
            /\ Len(store') = Len(store) + Len(durableEvents)
      /\ \A e \in batches' : Ordered(e) /\ e[1] + Len(e) <= Len(store')
  <2>1. IsRun(store, 0) /\ \A e \in batches : Ordered(e) /\ e[1] + Len(e) <= Len(store)
    BY <1>0 DEF StoreInOrder, RemoteInv
  <2>2. Apply(durableEvents) /\ Accepts(durableEvents)
    BY DEF BackendCommits
  <2>. QED
    BY <1>0, <1>a, <2>1, <2>2, ApplyRun
<1>c. /\ active' = "resolved" /\ init' = "ok" /\ materialized'
      /\ cursor' = cursor + Len(durableEvents) /\ deferred' = <<>>
      /\ UNCHANGED <<background, activeBatchSize, timer, queue, session, seed,
                     draft, flushes, stray>>
  BY <1>a DEF BackendCommits
<1>d. /\ cursor \in Nat /\ Len(deferred) \in Nat /\ Len(batch) \in Nat
      /\ Len(pending) \in Nat /\ Len(store) \in Nat /\ Len(store') \in Nat /\ accepted \in Nat
  BY <1>0, <1>b DEF TypeQueue, TypeStore
<1>e. /\ accepted = cursor + Len(deferred) + Len(batch) + Len(pending)
      /\ IsRun(pending, cursor + Len(deferred) + Len(batch))
  BY <1>0, <1>a, <1>d DEF Conservation
<1>1. CapacityBound'
  BY <1>0, WriteBehindAssumption DEF CapacityBound, Held, InFlight, TypeQueue,
    TypeStore, TypeStages, TypeCallers, TypeFlags, BackendCommits,
    FlushCallers
<1>2. AdmissionInv' /\ RetireInv'
  BY <1>0, WriteBehindAssumption DEF AdmissionInv, RetireInv, TypeQueue,
    TypeStore, TypeStages, TypeCallers, TypeFlags, BackendCommits,
    FlushCallers
<1>3. WriteInv' /\ BarrierInv'
  BY <1>0, WriteBehindAssumption DEF WriteInv, InFlight, Materializes,
    BarrierInv, TypeQueue, TypeStore, TypeStages, TypeCallers, TypeFlags,
    BackendCommits, FlushCallers
<1>4. Conservation'
  <2>1. Held' = <<>> /\ Taken' = cursor + Len(deferred) + Len(batch)
    BY <1>a, <1>c, <1>d DEF Held, InFlight, Taken
  <2>2. IsRun(pending', Taken' + Len(Held'))
    BY <1>c, <1>d, <1>e, <2>1 DEF IsRun
  <2>3. IsRun(Held', Taken') /\ IsRun(deferred', cursor')
    BY <1>c, <2>1 DEF IsRun
  <2>. QED
    BY <1>c, <1>d, <1>e, <2>1, <2>2, <2>3 DEF Conservation
<1>5. StoreInOrder'
  <2>1. cursor' <= Len(store')
    BY <1>a, <1>b, <1>c
  <2>2. Len(store') <= accepted
    <3>1. CASE store' = store
      BY <1>0, <3>1 DEF StoreInOrder
    <3>2. CASE durableEvents[1] = Len(store) /\ Len(store') = Len(store) + Len(durableEvents)
      BY <1>a, <1>d, <1>e, <3>2
    <3>. QED
      BY <1>b, <3>1, <3>2
  <2>. QED
    BY <1>b, <1>c, <2>1, <2>2 DEF StoreInOrder
<1>6. FlushIsDurable'
  BY <1>0, <1>b, <1>c, StillDurable
<1>7. DraftInv'
  BY <1>c DEF DraftInv
<1>8. RemoteInv'
  BY <1>0, <1>b, <1>c DEF RemoteInv
<1>. QED
  BY <1>1, <1>2, <1>3, <1>4, <1>5, <1>6, <1>7, <1>8 DEF SafeInv

\* A rolled-back append changes no log.
LEMMA BackendFailsStep ==
  ASSUME IndInv, BackendFails
  PROVE  SafeInv'
<1>. USE DEF control, queue, session, state, flushes, remote
<1>0. /\ TypeQueue /\ TypeStore /\ TypeStages /\ TypeCallers /\ TypeFlags
      /\ Conservation /\ StoreInOrder /\ FlushIsDurable /\ CapacityBound
      /\ WriteInv /\ BarrierInv /\ DraftInv /\ RemoteInv /\ AdmissionInv /\ RetireInv
  BY Parts
<1>1. Conservation' /\ StoreInOrder' /\ CapacityBound' /\ RemoteInv'
  BY <1>0, WriteBehindAssumption DEF Conservation, IsRun, Held, InFlight,
    Taken, StoreInOrder, CapacityBound, RemoteInv, Ordered, TypeQueue,
    TypeStore, TypeStages, TypeCallers, TypeFlags, BackendFails, FlushCallers
<1>2. FlushIsDurable' /\ AdmissionInv' /\ RetireInv'
  BY <1>0, WriteBehindAssumption DEF FlushIsDurable, Covered, AdmissionInv,
    RetireInv, TypeQueue, TypeStore, TypeStages, TypeCallers, TypeFlags,
    BackendFails, FlushCallers
<1>3. WriteInv' /\ BarrierInv' /\ DraftInv'
  BY <1>0, WriteBehindAssumption DEF WriteInv, InFlight, Materializes,
    BarrierInv, DraftInv, TypeQueue, TypeStore, TypeStages, TypeCallers,
    TypeFlags, BackendFails, FlushCallers
<1>. QED
  BY <1>1, <1>2, <1>3 DEF SafeInv

\* A timed-out append may still be executed.
LEMMA BackendTimesOutStep ==
  ASSUME IndInv, BackendTimesOut
  PROVE  SafeInv'
<1>. USE DEF control, queue, session, state, flushes, remote
<1>0. /\ TypeQueue /\ TypeStore /\ TypeStages /\ TypeCallers /\ TypeFlags
      /\ Conservation /\ StoreInOrder /\ FlushIsDurable /\ CapacityBound
      /\ WriteInv /\ BarrierInv /\ DraftInv /\ RemoteInv /\ AdmissionInv /\ RetireInv
  BY Parts
<1>a. /\ init = "ok" /\ Held = batch /\ Taken = cursor + Len(deferred)
      /\ durableEvents \in Seq(Nat) /\ Ordered(durableEvents)
      /\ Len(durableEvents) = Len(deferred) + Len(batch)
      /\ durableEvents[1] = cursor
  BY <1>0, DurableRun DEF BackendTimesOut
<1>1. Conservation' /\ StoreInOrder' /\ CapacityBound'
  BY <1>0, WriteBehindAssumption DEF Conservation, IsRun, Held, InFlight,
    Taken, StoreInOrder, CapacityBound, TypeQueue, TypeStore, TypeStages,
    TypeCallers, TypeFlags, BackendTimesOut, FlushCallers
<1>2. FlushIsDurable' /\ AdmissionInv' /\ RetireInv'
  BY <1>0, WriteBehindAssumption DEF FlushIsDurable, Covered, AdmissionInv,
    RetireInv, TypeQueue, TypeStore, TypeStages, TypeCallers, TypeFlags,
    BackendTimesOut, FlushCallers
<1>3. WriteInv' /\ BarrierInv'
  BY <1>0, WriteBehindAssumption DEF WriteInv, InFlight, Materializes,
    BarrierInv, TypeQueue, TypeStore, TypeStages, TypeCallers, TypeFlags,
    BackendTimesOut, FlushCallers
<1>4. DraftInv'
  <2>1. init' = "ok" /\ UNCHANGED state /\ store' = store
    BY <1>a DEF BackendTimesOut
  <2>. QED
    BY <1>0, <2>1 DEF DraftInv, Materializes
<1>5. RemoteInv'
  <2>1. durableEvents[1] + Len(durableEvents) <= accepted
    BY <1>0, <1>a DEF Conservation, TypeQueue
  <2>2. /\ stray' = stray \cup {durableEvents}
        /\ UNCHANGED <<accepted, store, batches>>
    BY DEF BackendTimesOut
  <2>. QED
    BY <1>0, <1>a, <2>1, <2>2 DEF RemoteInv
<1>. QED
  BY <1>1, <1>2, <1>3, <1>4, <1>5 DEF SafeInv

\* appendLiveBatch and appendCore choose what is sent.
LEMMA WriteBeginsStep ==
  ASSUME IndInv, WriteBegins
  PROVE  SafeInv'
<1>. USE DEF control, queue, session, state, flushes, remote
<1>0. /\ TypeQueue /\ TypeStore /\ TypeStages /\ TypeCallers /\ TypeFlags
      /\ Conservation /\ StoreInOrder /\ FlushIsDurable /\ CapacityBound
      /\ WriteInv /\ BarrierInv /\ DraftInv /\ RemoteInv /\ AdmissionInv /\ RetireInv
  BY Parts
<1>a. /\ UNCHANGED <<queue, session, init, seed, cursor, materialized, draft, remote, activeBatchSize, timer>>
      /\ active = "queued" /\ init \in {"ok", "failed"}
  BY <1>0 DEF WriteBegins, TypeStages
<1>b. Held = batch /\ batch # <<>> /\ IsRun(batch, Taken)
  BY <1>0, <1>a DEF Held, InFlight, WriteInv, Conservation
<1>c. init = "ok" => Fresh = batch /\ Taken = cursor + Len(deferred)
  BY <1>0, <1>b, FreshType DEF Taken
<1>d. \/ active' = "rejected" /\ deferred' = deferred
      \/ init = "ok" /\ active' = "resolved" /\ deferred' = deferred /\ Fresh = <<>>
      \/ init = "ok" /\ active' = "resolved" /\ deferred' = deferred \o Fresh /\ Defers(Fresh)
      \/ init = "ok" /\ active' = "writing" /\ deferred' = deferred /\ (Contiguous => ~Defers(Fresh))
  <2>1. CASE init = "failed"
    BY <2>1, Zenon DEF WriteBegins
  <2>2. CASE init = "ok" /\ Fresh = <<>>
    BY <2>2 DEF WriteBegins
  <2>3. CASE init = "ok" /\ Fresh # <<>> /\ ~Contiguous
    BY <2>3 DEF WriteBegins
  <2>4. CASE init = "ok" /\ Fresh # <<>> /\ Contiguous /\ Defers(Fresh)
    BY <2>4 DEF WriteBegins
  <2>5. CASE init = "ok" /\ Fresh # <<>> /\ Contiguous /\ ~Defers(Fresh)
    BY <2>5 DEF WriteBegins
  <2>. QED
    BY <1>a, <2>1, <2>2, <2>3, <2>4, <2>5
<1>e. init = "ok" => Contiguous
  <2>. SUFFICES ASSUME init = "ok" PROVE Contiguous
    OBVIOUS
  <2>1. Fresh = batch /\ IsRun(batch, cursor + Len(deferred))
    BY <1>b, <1>c
  <2>. QED
    BY <2>1 DEF Contiguous, IsRun
<1>f. /\ deferred \in Seq(Nat) /\ batch \in Seq(Nat) /\ pending \in Seq(Nat)
      /\ cursor \in Nat /\ seed \in Nat
  BY <1>0 DEF TypeQueue
<1>1. StoreInOrder' /\ CapacityBound' /\ RemoteInv'
  BY <1>0, WriteBehindAssumption DEF StoreInOrder, IsRun, CapacityBound, Held,
    InFlight, RemoteInv, Ordered, TypeQueue, TypeStore, TypeStages,
    TypeCallers, TypeFlags, WriteBegins, FlushCallers
<1>2. FlushIsDurable' /\ AdmissionInv' /\ RetireInv'
  BY <1>0, WriteBehindAssumption DEF FlushIsDurable, Covered, AdmissionInv,
    RetireInv, TypeQueue, TypeStore, TypeStages, TypeCallers, TypeFlags,
    WriteBegins, FlushCallers
<1>3. BarrierInv'
  BY <1>0, WriteBehindAssumption DEF BarrierInv, TypeQueue, TypeStore,
    TypeStages, TypeCallers, TypeFlags, WriteBegins, FlushCallers
<1>4. Conservation'
  <2>1. CASE active' \in {"rejected", "writing"} /\ deferred' = deferred
    BY <1>0, <1>a, <2>1 DEF Conservation, IsRun, Held, InFlight, Taken
  <2>2. CASE /\ init = "ok" /\ active' = "resolved"
             /\ deferred' = deferred \o batch
    <3>1. IsRun(deferred, cursor) /\ IsRun(batch, cursor + Len(deferred))
      BY <1>0, <1>b, <1>c, <2>2 DEF Conservation
    <3>2. /\ IsRun(deferred', cursor') /\ deferred' \in Seq(Nat)
          /\ Len(deferred') = Len(deferred) + Len(batch)
      BY <1>a, <1>f, <2>2, <3>1, RunConcat
    <3>3. Held' = <<>> /\ Taken' = Taken + Len(batch) /\ Taken \in Nat
      BY <1>a, <1>c, <1>f, <2>2, <3>2 DEF Held, InFlight, Taken
    <3>4. accepted' = Taken + Len(batch) + Len(pending) /\ IsRun(pending', Taken + Len(batch))
      BY <1>0, <1>a, <1>b DEF Conservation, IsRun
    <3>5. accepted' = Taken' + Len(Held') + Len(pending')
      BY <1>a, <1>f, <3>3, <3>4
    <3>6. IsRun(pending', Taken' + Len(Held')) /\ IsRun(Held', Taken')
      BY <1>f, <3>3, <3>4 DEF IsRun
    <3>. QED
      BY <3>2, <3>5, <3>6 DEF Conservation
  <2>. QED
    BY <1>b, <1>c, <1>d, <2>1, <2>2
<1>5. WriteInv'
  <2>1. active' = "writing" => init' = "ok" /\ ~Defers(batch)
    BY <1>a, <1>c, <1>d, <1>e
  <2>2. active' \in {"rejected", "resolved", "writing"}
    BY <1>d
  <2>3. timer => pending # <<>>
    BY <1>0 DEF WriteInv
  <2>4. activeBatchSize = Len(batch)
    BY <1>0, <1>a DEF WriteInv, InFlight
  <2>. QED
    BY <1>a, <1>b, <2>1, <2>2, <2>3, <2>4 DEF WriteInv, InFlight, Defers, Materializes
<1>6. DraftInv'
  <2>1. init' \in {"ok", "failed"}
    BY <1>a
  <2>2. CASE deferred' = deferred
    BY <1>0, <1>a, <2>1, <2>2 DEF DraftInv, Materializes
  <2>3. CASE deferred' = deferred \o batch /\ Defers(batch)
    <3>1. draft /\ ~materialized /\ ~Materializes(batch) /\ ~Materializes(deferred)
      <4>1. CASE deferred = <<>>
        BY <2>3, <4>1 DEF Defers, Materializes
      <4>2. CASE deferred # <<>>
        BY <1>0, <2>3, <4>2 DEF Defers, DraftInv
      <4>. QED
        BY <4>1, <4>2
    <3>2. ASSUME NEW i \in DOMAIN (deferred \o batch)
          PROVE  (deferred \o batch)[i] \notin Materializing
      <4>1. i \in 1..(Len(deferred) + Len(batch))
        BY <1>f
      <4>2. CASE i <= Len(deferred)
        BY <1>f, <3>1, <4>1, <4>2 DEF Materializes
      <4>3. CASE i > Len(deferred)
        <5>1. /\ i - Len(deferred) \in DOMAIN batch
              /\ (deferred \o batch)[i] = batch[i - Len(deferred)]
          BY <1>f, <4>1, <4>3
        <5>. QED
          BY <3>1, <5>1 DEF Materializes
      <4>. QED
        BY <1>f, <4>1, <4>2, <4>3
    <3>3. ~Materializes(deferred')
      BY <2>3, <3>2 DEF Materializes
    <3>4. draft' /\ ~materialized'
      BY <1>a, <3>1
    <3>5. ~Materializes(deferred)'
      BY <1>a, <3>3 DEF Materializes
    <3>6. ~materialized' => cursor' = 0
      BY <1>0, <1>a DEF DraftInv
    <3>. QED
      BY <2>1, <3>4, <3>5, <3>6 DEF DraftInv
  <2>. QED
    BY <1>c, <1>d, <2>2, <2>3
<1>. QED
  BY <1>1, <1>2, <1>3, <1>4, <1>5, <1>6 DEF SafeInv

\* startWrite's catch puts the batch back in front.
LEMMA WriteCaughtStep ==
  ASSUME IndInv, WriteCaught
  PROVE  SafeInv'
<1>. USE DEF control, queue, session, state, flushes, remote
<1>0. /\ TypeQueue /\ TypeStore /\ TypeStages /\ TypeCallers /\ TypeFlags
      /\ Conservation /\ StoreInOrder /\ FlushIsDurable /\ CapacityBound
      /\ WriteInv /\ BarrierInv /\ DraftInv /\ RemoteInv /\ AdmissionInv /\ RetireInv
  BY Parts
<1>1. StoreInOrder' /\ CapacityBound' /\ RemoteInv'
  BY <1>0, WriteBehindAssumption DEF StoreInOrder, IsRun, CapacityBound, Held,
    InFlight, RemoteInv, Ordered, TypeQueue, TypeStore, TypeStages,
    TypeCallers, TypeFlags, WriteCaught, Restored, CancelWait, FlushCallers
<1>2. FlushIsDurable' /\ AdmissionInv' /\ RetireInv'
  BY <1>0, WriteBehindAssumption DEF FlushIsDurable, Covered, AdmissionInv,
    RetireInv, TypeQueue, TypeStore, TypeStages, TypeCallers, TypeFlags,
    WriteCaught, Restored, CancelWait, FlushCallers
<1>3. WriteInv' /\ BarrierInv' /\ DraftInv'
  BY <1>0, WriteBehindAssumption DEF WriteInv, InFlight, Materializes,
    BarrierInv, DraftInv, TypeQueue, TypeStore, TypeStages, TypeCallers,
    TypeFlags, WriteCaught, Restored, CancelWait, FlushCallers
<1>4. Conservation'
  <2>1. Held = batch /\ Held' = <<>> /\ Taken' = Taken /\ Taken \in Nat
    BY <1>0 DEF WriteCaught, Held, InFlight, Taken, TypeQueue
  <2>2. /\ IsRun(batch, Taken) /\ IsRun(pending, Taken + Len(batch))
        /\ batch \in Seq(Nat) /\ pending \in Seq(Nat)
    BY <1>0, <2>1 DEF Conservation, TypeQueue
  <2>3. pending' = batch \o pending /\ accepted' = accepted /\ UNCHANGED <<init, deferred, cursor>>
    BY DEF WriteCaught, Restored
  <2>4. IsRun(pending', Taken) /\ Len(pending') = Len(batch) + Len(pending)
    BY <2>1, <2>2, <2>3, RunConcat
  <2>5. IsRun(pending', Taken' + Len(Held')) /\ IsRun(Held', Taken')
    BY <2>1, <2>4 DEF IsRun
  <2>6. accepted' = Taken' + Len(Held') + Len(pending')
    BY <1>0, <2>1, <2>2, <2>3, <2>4 DEF Conservation
  <2>. QED
    BY <1>0, <2>3, <2>5, <2>6 DEF Conservation, IsRun
<1>. QED
  BY <1>1, <1>2, <1>3, <1>4 DEF SafeInv

\* startWrite's finally wakes whoever waits.
LEMMA WriteSettlesStep ==
  ASSUME IndInv, WriteSettles
  PROVE  SafeInv'
<1>. USE DEF control, queue, session, state, flushes, remote
<1>0. /\ TypeQueue /\ TypeStore /\ TypeStages /\ TypeCallers /\ TypeFlags
      /\ Conservation /\ StoreInOrder /\ FlushIsDurable /\ CapacityBound
      /\ WriteInv /\ BarrierInv /\ DraftInv /\ RemoteInv /\ AdmissionInv /\ RetireInv
  BY Parts
<1>1. Conservation' /\ StoreInOrder' /\ CapacityBound' /\ RemoteInv'
  BY <1>0, WriteBehindAssumption DEF Conservation, IsRun, Held, InFlight,
    Taken, StoreInOrder, CapacityBound, RemoteInv, Ordered, TypeQueue,
    TypeStore, TypeStages, TypeCallers, TypeFlags, WriteSettles, FlushCallers
<1>2. FlushIsDurable' /\ AdmissionInv' /\ RetireInv'
  BY <1>0, WriteBehindAssumption DEF FlushIsDurable, Covered, AdmissionInv,
    RetireInv, TypeQueue, TypeStore, TypeStages, TypeCallers, TypeFlags,
    WriteSettles, FlushCallers
<1>3. WriteInv' /\ BarrierInv' /\ DraftInv'
  BY <1>0, WriteBehindAssumption DEF WriteInv, InFlight, Materializes,
    BarrierInv, DraftInv, TypeQueue, TypeStore, TypeStages, TypeCallers,
    TypeFlags, WriteSettles, FlushCallers
<1>. QED
  BY <1>1, <1>2, <1>3 DEF SafeInv

\* continueAutomatic starts at most one write.
LEMMA ContinueAutomaticStep ==
  ASSUME IndInv, ContinueAutomatic
  PROVE  SafeInv'
<1>. USE DEF control, queue, session, state, flushes, remote
<1>0. /\ TypeQueue /\ TypeStore /\ TypeStages /\ TypeCallers /\ TypeFlags
      /\ Conservation /\ StoreInOrder /\ FlushIsDurable /\ CapacityBound
      /\ WriteInv /\ BarrierInv /\ DraftInv /\ RemoteInv /\ AdmissionInv /\ RetireInv
  BY Parts
<1>1. StoreInOrder' /\ CapacityBound' /\ RemoteInv'
  BY <1>0, WriteBehindAssumption DEF StoreInOrder, IsRun, CapacityBound, Held,
    InFlight, RemoteInv, Ordered, TypeQueue, TypeStore, TypeStages,
    TypeCallers, TypeFlags, ContinueAutomatic, StartWrite, CancelWait,
    FlushCallers
<1>2. FlushIsDurable' /\ AdmissionInv' /\ RetireInv'
  BY <1>0, WriteBehindAssumption DEF FlushIsDurable, Covered, AdmissionInv,
    RetireInv, TypeQueue, TypeStore, TypeStages, TypeCallers, TypeFlags,
    ContinueAutomatic, StartWrite, CancelWait, FlushCallers
<1>3. WriteInv' /\ BarrierInv' /\ DraftInv'
  BY <1>0, WriteBehindAssumption DEF WriteInv, InFlight, Materializes,
    BarrierInv, DraftInv, TypeQueue, TypeStore, TypeStages, TypeCallers,
    TypeFlags, ContinueAutomatic, StartWrite, CancelWait, FlushCallers
<1>4. Conservation'
  <2>1. UNCHANGED <<init, seed, cursor, deferred, accepted>>
    BY DEF ContinueAutomatic
  <2>2. CASE UNCHANGED <<batch, pending, active>>
    BY <1>0, <2>1, <2>2, StillConserved
  <2>3. CASE StartWrite(TRUE) /\ barrier = "none"
    <3>1. active = "none"
      BY <1>0, <2>3 DEF BarrierInv, ContinueAutomatic
    <3>. QED
      BY <1>0, <2>1, <2>3, <3>1, StartWriteConserves
  <2>. QED
    BY <2>2, <2>3, Zenon DEF ContinueAutomatic
<1>. QED
  BY <1>1, <1>2, <1>3, <1>4 DEF SafeInv

\* drainBarrier continues or answers its callers.
LEMMA BarrierResumesStep ==
  ASSUME IndInv, BarrierResumes
  PROVE  SafeInv'
<1>. USE DEF control, queue, session, state, flushes, remote
<1>0. /\ TypeQueue /\ TypeStore /\ TypeStages /\ TypeCallers /\ TypeFlags
      /\ Conservation /\ StoreInOrder /\ FlushIsDurable /\ CapacityBound
      /\ WriteInv /\ BarrierInv /\ DraftInv /\ RemoteInv /\ AdmissionInv /\ RetireInv
  BY Parts
<1>a. active = "none" /\ init = "ok" /\ barrier # "none"
  BY <1>0 DEF BarrierInv, BarrierResumes
<1>b. \/ StartWrite(FALSE) /\ caller' = caller /\ pending # <<>>
      \/ /\ UNCHANGED <<queue, active, background, activeBatchSize, timer, deadlineExpired>>
         /\ pending = <<>> /\ caller' = Joined(Verdict)
  BY Zenon DEF BarrierResumes
<1>c. UNCHANGED <<init, seed, cursor, deferred, accepted, emitted, draft, admissionFailure, life, mark, store>>
  BY DEF BarrierResumes
<1>1. StoreInOrder' /\ CapacityBound' /\ RemoteInv'
  BY <1>0, WriteBehindAssumption DEF StoreInOrder, IsRun, CapacityBound, Held,
    InFlight, RemoteInv, Ordered, TypeQueue, TypeStore, TypeStages,
    TypeCallers, TypeFlags, BarrierResumes, StartWrite, CancelWait, Joined,
    Verdict, FlushCallers
<1>2. AdmissionInv'
  BY <1>0, WriteBehindAssumption DEF AdmissionInv, TypeQueue, TypeStore,
    TypeStages, TypeCallers, TypeFlags, BarrierResumes, StartWrite,
    CancelWait, Joined, Verdict, FlushCallers
<1>3. WriteInv' /\ BarrierInv' /\ DraftInv'
  BY <1>0, WriteBehindAssumption DEF WriteInv, InFlight, Materializes,
    BarrierInv, DraftInv, TypeQueue, TypeStore, TypeStages, TypeCallers,
    TypeFlags, BarrierResumes, StartWrite, CancelWait, Joined, Verdict,
    FlushCallers
<1>4. Conservation'
  <2>1. CASE StartWrite(FALSE)
    BY <1>0, <1>a, <1>c, <2>1, StartWriteConserves
  <2>2. CASE UNCHANGED <<queue, active>>
    BY <1>0, <1>c, <2>2, StillConserved
  <2>. QED
    BY <1>b, <2>1, <2>2
<1>5. FlushIsDurable'
  <2>1. CASE caller' = caller
    BY <1>0, <1>c, <2>1, StillDurable DEF TypeStore
  <2>2. CASE pending = <<>> /\ caller' = Joined(Verdict)
    <3>1. ASSUME NEW d \in FlushCallers, caller'[d] = "ok" PROVE Covered(mark[d])'
      <4>1. \/ caller[d] = "ok"
            \/ ~admissionFailure
        BY <2>2, <3>1 DEF Joined, Verdict
      <4>2. mark[d] \in Nat /\ mark[d] <= emitted
        BY <1>0 DEF TypeCallers, AdmissionInv
      <4>3. Covered(mark[d])
        BY <1>0, <1>a, <2>2, <4>1, <4>2, DrainedCovers DEF FlushIsDurable
      <4>. QED
        BY <1>c, <4>3 DEF Covered
    <3>. QED
      BY <3>1, Zenon DEF FlushIsDurable
  <2>. QED
    BY <1>b, <2>1, <2>2
<1>6. RetireInv'
  <2>0. Retirer \in FlushCallers
    BY DEF FlushCallers
  <2>1. CASE StartWrite(FALSE) /\ caller' = caller /\ pending # <<>>
    <3>1. caller[Retirer] # "ok"
      BY <1>0, <2>1 DEF RetireInv
    <3>. QED
      BY <1>0, <1>c, <2>1, <3>1 DEF RetireInv
  <2>2. CASE UNCHANGED <<queue, active>> /\ pending = <<>> /\ caller' = Joined(Verdict)
    <3>1. caller'[Retirer] = "ok" => caller[Retirer] = "ok" \/ ~admissionFailure
      BY <2>0, <2>2 DEF Joined, Verdict
    <3>2. caller[Retirer] # "barrier" => caller'[Retirer] = caller[Retirer]
      BY <2>0, <2>2 DEF Joined
    <3>. QED
      BY <1>0, <1>a, <1>c, <2>2, <3>1, <3>2 DEF RetireInv
  <2>. QED
    BY <1>b, <2>1, <2>2
<1>. QED
  BY <1>1, <1>2, <1>3, <1>4, <1>5, <1>6 DEF SafeInv

\* drainBarrier rejects its callers.
LEMMA BarrierFailsStep ==
  ASSUME IndInv, BarrierFails
  PROVE  SafeInv'
<1>. USE DEF control, queue, session, state, flushes, remote
<1>0. /\ TypeQueue /\ TypeStore /\ TypeStages /\ TypeCallers /\ TypeFlags
      /\ Conservation /\ StoreInOrder /\ FlushIsDurable /\ CapacityBound
      /\ WriteInv /\ BarrierInv /\ DraftInv /\ RemoteInv /\ AdmissionInv /\ RetireInv
  BY Parts
<1>1. Conservation' /\ StoreInOrder' /\ CapacityBound' /\ RemoteInv'
  BY <1>0, WriteBehindAssumption DEF Conservation, IsRun, Held, InFlight,
    Taken, StoreInOrder, CapacityBound, RemoteInv, Ordered, TypeQueue,
    TypeStore, TypeStages, TypeCallers, TypeFlags, BarrierFails, Joined,
    FlushCallers
<1>2. FlushIsDurable' /\ AdmissionInv' /\ RetireInv'
  BY <1>0, WriteBehindAssumption DEF FlushIsDurable, Covered, AdmissionInv,
    RetireInv, TypeQueue, TypeStore, TypeStages, TypeCallers, TypeFlags,
    BarrierFails, Joined, FlushCallers
<1>3. WriteInv' /\ BarrierInv' /\ DraftInv'
  BY <1>0, WriteBehindAssumption DEF WriteInv, InFlight, Materializes,
    BarrierInv, DraftInv, TypeQueue, TypeStore, TypeStages, TypeCallers,
    TypeFlags, BarrierFails, Joined, FlushCallers
<1>. QED
  BY <1>1, <1>2, <1>3 DEF SafeInv

\* A flush fails with initialization.
LEMMA FlushInitFailedStep ==
  ASSUME IndInv, NEW c \in FlushCallers, FlushInitFailed(c)
  PROVE  SafeInv'
<1>. USE DEF control, queue, session, state, flushes, remote
<1>0. /\ TypeQueue /\ TypeStore /\ TypeStages /\ TypeCallers /\ TypeFlags
      /\ Conservation /\ StoreInOrder /\ FlushIsDurable /\ CapacityBound
      /\ WriteInv /\ BarrierInv /\ DraftInv /\ RemoteInv /\ AdmissionInv /\ RetireInv
  BY Parts
<1>1. Conservation' /\ StoreInOrder' /\ CapacityBound' /\ RemoteInv'
  BY <1>0, WriteBehindAssumption DEF Conservation, IsRun, Held, InFlight,
    Taken, StoreInOrder, CapacityBound, RemoteInv, Ordered, TypeQueue,
    TypeStore, TypeStages, TypeCallers, TypeFlags, FlushInitFailed,
    CancelWait, FlushCallers
<1>2. FlushIsDurable' /\ AdmissionInv' /\ RetireInv'
  BY <1>0, WriteBehindAssumption DEF FlushIsDurable, Covered, AdmissionInv,
    RetireInv, TypeQueue, TypeStore, TypeStages, TypeCallers, TypeFlags,
    FlushInitFailed, CancelWait, FlushCallers
<1>3. WriteInv' /\ BarrierInv' /\ DraftInv'
  BY <1>0, WriteBehindAssumption DEF WriteInv, InFlight, Materializes,
    BarrierInv, DraftInv, TypeQueue, TypeStore, TypeStages, TypeCallers,
    TypeFlags, FlushInitFailed, CancelWait, FlushCallers
<1>. QED
  BY <1>1, <1>2, <1>3 DEF SafeInv

\* flush joins, starts or completes a barrier.
LEMMA FlushStep ==
  ASSUME IndInv, NEW c \in FlushCallers, Flush(c)
  PROVE  SafeInv'
<1>. USE DEF control, queue, session, state, flushes, remote
<1>0. /\ TypeQueue /\ TypeStore /\ TypeStages /\ TypeCallers /\ TypeFlags
      /\ Conservation /\ StoreInOrder /\ FlushIsDurable /\ CapacityBound
      /\ WriteInv /\ BarrierInv /\ DraftInv /\ RemoteInv /\ AdmissionInv /\ RetireInv
  BY Parts
<1>a. init = "ok" /\ UNCHANGED <<init, seed, cursor, deferred, accepted, emitted, draft, admissionFailure, life, mark, store>>
  BY DEF Flush
<1>b. \/ UNCHANGED <<queue, active>> /\ caller' = [caller EXCEPT ![c] = "barrier"]
      \/ active = "none" /\ StartWrite(FALSE) /\ caller' = [caller EXCEPT ![c] = "barrier"]
      \/ /\ active = "none" /\ pending = <<>> /\ UNCHANGED <<queue, active>>
         /\ caller' = [caller EXCEPT ![c] = Verdict]
  BY Zenon DEF Flush
<1>1. StoreInOrder' /\ CapacityBound' /\ RemoteInv'
  BY <1>0, WriteBehindAssumption DEF StoreInOrder, IsRun, CapacityBound, Held,
    InFlight, RemoteInv, Ordered, TypeQueue, TypeStore, TypeStages,
    TypeCallers, TypeFlags, Flush, StartWrite, CancelWait, Verdict,
    FlushCallers
<1>2. AdmissionInv' /\ RetireInv'
  BY <1>0, WriteBehindAssumption DEF AdmissionInv, RetireInv, TypeQueue,
    TypeStore, TypeStages, TypeCallers, TypeFlags, Flush, StartWrite,
    CancelWait, Verdict, FlushCallers
<1>3. WriteInv' /\ BarrierInv' /\ DraftInv'
  BY <1>0, WriteBehindAssumption DEF WriteInv, InFlight, Materializes,
    BarrierInv, DraftInv, TypeQueue, TypeStore, TypeStages, TypeCallers,
    TypeFlags, Flush, StartWrite, CancelWait, Verdict, FlushCallers
<1>4. Conservation'
  <2>1. CASE active = "none" /\ StartWrite(FALSE)
    BY <1>0, <1>a, <2>1, StartWriteConserves
  <2>2. CASE UNCHANGED <<queue, active>>
    BY <1>0, <1>a, <2>2, StillConserved
  <2>. QED
    BY <1>b, <2>1, <2>2
<1>5. FlushIsDurable'
  <2>1. ASSUME NEW d \in FlushCallers, caller'[d] = "ok" PROVE Covered(mark[d])'
    <3>1. \/ caller[d] = "ok"
          \/ active = "none" /\ pending = <<>> /\ ~admissionFailure
      BY <1>0, <1>b, <2>1 DEF TypeCallers, Verdict
    <3>2. mark[d] \in Nat /\ mark[d] <= emitted
      BY <1>0 DEF TypeCallers, AdmissionInv
    <3>3. Covered(mark[d])
      BY <1>0, <1>a, <3>1, <3>2, DrainedCovers DEF FlushIsDurable
    <3>. QED
      BY <1>a, <3>3 DEF Covered
  <2>. QED
    BY <2>1, Zenon DEF FlushIsDurable
<1>. QED
  BY <1>1, <1>2, <1>3, <1>4, <1>5 DEF SafeInv

\* onDeadline starts a write or remembers the deadline.
LEMMA OnDeadlineStep ==
  ASSUME IndInv, OnDeadline
  PROVE  SafeInv'
<1>. USE DEF control, queue, session, state, flushes, remote
<1>0. /\ TypeQueue /\ TypeStore /\ TypeStages /\ TypeCallers /\ TypeFlags
      /\ Conservation /\ StoreInOrder /\ FlushIsDurable /\ CapacityBound
      /\ WriteInv /\ BarrierInv /\ DraftInv /\ RemoteInv /\ AdmissionInv /\ RetireInv
  BY Parts
<1>a. timer /\ Quiet /\ pending # <<>>
  BY <1>0 DEF OnDeadline, WriteInv
<1>b. ~auto /\ barrier \notin {"overlapped", "wrote", "failed"}
  BY <1>a DEF Quiet
<1>c. \/ UNCHANGED <<batch, pending, active>> /\ active # "none"
      \/ active = "none" /\ StartWrite(TRUE)
  BY Zenon DEF OnDeadline
<1>d. UNCHANGED <<init, seed, cursor, deferred, accepted, barrier, caller, mark, emitted, admissionFailure, life, auto>>
  BY DEF OnDeadline
<1>1. StoreInOrder' /\ CapacityBound' /\ RemoteInv'
  BY <1>0, WriteBehindAssumption DEF StoreInOrder, IsRun, CapacityBound, Held,
    InFlight, RemoteInv, Ordered, TypeQueue, TypeStore, TypeStages,
    TypeCallers, TypeFlags, OnDeadline, StartWrite, CancelWait, FlushCallers
<1>2. FlushIsDurable' /\ AdmissionInv'
  BY <1>0, WriteBehindAssumption DEF FlushIsDurable, Covered, AdmissionInv,
    TypeQueue, TypeStore, TypeStages, TypeCallers, TypeFlags, OnDeadline,
    StartWrite, CancelWait, FlushCallers
<1>3. WriteInv' /\ DraftInv'
  BY <1>0, WriteBehindAssumption DEF WriteInv, InFlight, Materializes,
    DraftInv, TypeQueue, TypeStore, TypeStages, TypeCallers, TypeFlags,
    OnDeadline, StartWrite, CancelWait, FlushCallers
<1>4. Conservation'
  <2>1. CASE active = "none" /\ StartWrite(TRUE)
    BY <1>0, <1>d, <2>1, StartWriteConserves
  <2>2. CASE UNCHANGED <<batch, pending, active>>
    BY <1>0, <1>d, <2>2, StillConserved
  <2>. QED
    BY <1>c, <2>1, <2>2
<1>5. BarrierInv'
  <2>1. active' # "none"
    BY <1>c DEF StartWrite
  <2>2. ~auto' /\ barrier' \notin {"overlapped", "wrote", "failed"}
    BY <1>b, <1>d
  <2>3. barrier' # "none" => init' = "ok"
    BY <1>0, <1>d DEF BarrierInv
  <2>. QED
    BY <2>1, <2>2, <2>3 DEF BarrierInv
<1>6. RetireInv'
  <2>1. caller[Retirer] # "ok"
    BY <1>0, <1>a DEF RetireInv
  <2>. QED
    BY <1>0, <1>d, <2>1 DEF RetireInv
<1>. QED
  BY <1>1, <1>2, <1>3, <1>4, <1>5, <1>6 DEF SafeInv

\* A late request is executed against the current log.
LEMMA StrayLandsStep ==
  ASSUME IndInv, NEW events \in stray, StrayLands(events)
  PROVE  SafeInv'
<1>. USE DEF control, queue, session, state, flushes, remote
<1>0. /\ TypeQueue /\ TypeStore /\ TypeStages /\ TypeCallers /\ TypeFlags
      /\ Conservation /\ StoreInOrder /\ FlushIsDurable /\ CapacityBound
      /\ WriteInv /\ BarrierInv /\ DraftInv /\ RemoteInv /\ AdmissionInv /\ RetireInv
  BY Parts
<1>a. events \in Seq(Nat) /\ Ordered(events) /\ events # <<>> /\ events[1] + Len(events) <= accepted
  BY <1>0 DEF RemoteInv, TypeStore, Ordered
<1>b. /\ store' \in Seq(Nat) /\ IsRun(store', 0) /\ Len(store) <= Len(store')
      /\ \/ store' = store
         \/ /\ events # <<>> /\ events[1] = Len(store)
            /\ Len(store') = Len(store) + Len(events)
      /\ \A e \in batches' : Ordered(e) /\ e[1] + Len(e) <= Len(store')
  <2>1. IsRun(store, 0) /\ \A e \in batches : Ordered(e) /\ e[1] + Len(e) <= Len(store)
    BY <1>0 DEF StoreInOrder, RemoteInv
  <2>2. Apply(events) /\ Accepts(events)
    BY DEF StrayLands
  <2>. QED
    BY <1>0, <1>a, <2>1, <2>2, ApplyRun
<1>c. /\ stray' \subseteq stray
      /\ UNCHANGED <<accepted, cursor, caller, mark, draft>>
  BY DEF StrayLands
<1>1. Conservation' /\ CapacityBound'
  BY <1>0, WriteBehindAssumption DEF Conservation, IsRun, Held, InFlight,
    Taken, CapacityBound, TypeQueue, TypeStore, TypeStages, TypeCallers,
    TypeFlags, StrayLands, FlushCallers
<1>2. AdmissionInv' /\ RetireInv'
  BY <1>0, WriteBehindAssumption DEF AdmissionInv, RetireInv, TypeQueue,
    TypeStore, TypeStages, TypeCallers, TypeFlags, StrayLands, FlushCallers
<1>3. WriteInv' /\ BarrierInv' /\ DraftInv'
  BY <1>0, WriteBehindAssumption DEF WriteInv, InFlight, Materializes,
    BarrierInv, DraftInv, TypeQueue, TypeStore, TypeStages, TypeCallers,
    TypeFlags, StrayLands, FlushCallers
<1>4. StoreInOrder'
  <2>1. Len(store') <= accepted
    BY <1>0, <1>a, <1>b DEF StoreInOrder
  <2>2. cursor <= Len(store')
    BY <1>0, <1>b DEF StoreInOrder, TypeQueue, TypeStore
  <2>. QED
    BY <1>b, <1>c, <2>1, <2>2 DEF StoreInOrder
<1>5. FlushIsDurable'
  BY <1>0, <1>b, <1>c, StillDurable
<1>6. RemoteInv'
  BY <1>0, <1>b, <1>c DEF RemoteInv
<1>. QED
  BY <1>1, <1>2, <1>3, <1>4, <1>5, <1>6 DEF SafeInv

\* A late request is dropped.
LEMMA StrayLostStep ==
  ASSUME IndInv, NEW events \in stray, StrayLost(events)
  PROVE  SafeInv'
<1>. USE DEF control, queue, session, state, flushes, remote
<1>0. /\ TypeQueue /\ TypeStore /\ TypeStages /\ TypeCallers /\ TypeFlags
      /\ Conservation /\ StoreInOrder /\ FlushIsDurable /\ CapacityBound
      /\ WriteInv /\ BarrierInv /\ DraftInv /\ RemoteInv /\ AdmissionInv /\ RetireInv
  BY Parts
<1>1. Conservation' /\ StoreInOrder' /\ CapacityBound' /\ RemoteInv'
  BY <1>0, WriteBehindAssumption DEF Conservation, IsRun, Held, InFlight,
    Taken, StoreInOrder, CapacityBound, RemoteInv, Ordered, TypeQueue,
    TypeStore, TypeStages, TypeCallers, TypeFlags, StrayLost, FlushCallers
<1>2. FlushIsDurable' /\ AdmissionInv' /\ RetireInv'
  BY <1>0, WriteBehindAssumption DEF FlushIsDurable, Covered, AdmissionInv,
    RetireInv, TypeQueue, TypeStore, TypeStages, TypeCallers, TypeFlags,
    StrayLost, FlushCallers
<1>3. WriteInv' /\ BarrierInv' /\ DraftInv'
  BY <1>0, WriteBehindAssumption DEF WriteInv, InFlight, Materializes,
    BarrierInv, DraftInv, TypeQueue, TypeStore, TypeStages, TypeCallers,
    TypeFlags, StrayLost, FlushCallers
<1>. QED
  BY <1>1, <1>2, <1>3 DEF SafeInv

----------------------------------------------------------------------------
\* Theorems

\* A new controller satisfies the invariant.
LEMMA IndInit == Init => IndInv
<1>. SUFFICES ASSUME Init PROVE IndInv
  OBVIOUS
<1>1. TypeOK
  BY TypeInit
<1>2. PICK n \in 0..seed : store = Run(0, n) /\ (draft => n = 0)
  BY DEF Init
<1>3. seed \in Nat /\ n \in Nat /\ 0 \in Nat /\ n <= seed
  BY <1>1, <1>2 DEF TypeOK, TypeQueue
<1>4. store \in Seq(Nat) /\ Len(store) = n /\ IsRun(store, 0)
  BY <1>2, <1>3, RunType
<1>5. StoreInOrder
  BY <1>3, <1>4 DEF Init, StoreInOrder
<1>6. Conservation /\ CapacityBound
  <2>1. Held = <<>> /\ Taken = seed
    BY DEF Init, Held, InFlight, Taken
  <2>. QED
    BY <1>3, <2>1, WriteBehindAssumption DEF Init, Conservation, CapacityBound, IsRun
<1>7. FlushIsDurable /\ RetireInv
  BY DEF Init, FlushIsDurable, RetireInv, FlushCallers
<1>8. WriteInv /\ BarrierInv
  BY DEF Init, WriteInv, BarrierInv, InFlight
<1>9. DraftInv
  <2>1. draft => store = <<>>
    BY <1>2, <1>4
  <2>. QED
    BY <1>3, <1>4, <2>1 DEF Init, DraftInv
<1>10. RemoteInv /\ AdmissionInv
  BY <1>3 DEF Init, RemoteInv, AdmissionInv
<1>. QED
  BY <1>1, <1>5, <1>6, <1>7, <1>8, <1>9, <1>10 DEF IndInv, SafeInv

\* The invariant is inductive.
LEMMA IndNext == IndInv /\ [Next]_vars => IndInv'
<1>. SUFFICES ASSUME IndInv, [Next]_vars PROVE IndInv'
  OBVIOUS
<1>1. TypeOK'
  BY Parts, TypeNext DEF TypeOK, SeedCovers, DraftInv
<1>2. ASSUME UNCHANGED vars PROVE SafeInv'
  <2>. USE <1>2, Parts DEF vars, control, queue, session, state, flushes, remote
  <2>2. Conservation' /\ StoreInOrder' /\ CapacityBound'
    BY DEF Conservation, IsRun, Held, InFlight, Taken, StoreInOrder, CapacityBound
  <2>3. FlushIsDurable'
    BY DEF FlushIsDurable, Covered
  <2>4. WriteInv' /\ BarrierInv' /\ DraftInv' /\ AdmissionInv' /\ RetireInv'
    BY DEF WriteInv, InFlight, BarrierInv, DraftInv, Materializes, AdmissionInv, RetireInv
  <2>5. RemoteInv'
    BY DEF RemoteInv, Ordered, IsRun
  <2>. QED
    BY <2>2, <2>3, <2>4, <2>5 DEF SafeInv
<1>3. SafeInv'
  BY <1>2, EnqueueStep, EnqueueRefusedStep, FlushCallStep, DisposeStep,
    TeardownFlushStep, ReleaseStep, InitSucceedsStep, InitFailsStep,
    BackendCommitsStep, BackendFailsStep, BackendTimesOutStep, WriteBeginsStep,
    WriteCaughtStep, WriteSettlesStep, ContinueAutomaticStep, BarrierResumesStep,
    BarrierFailsStep, FlushInitFailedStep, FlushStep, OnDeadlineStep,
    StrayLandsStep, StrayLostStep
  DEF Next, Settle, Backend, Microtask
<1>. QED
  BY <1>1, <1>3 DEF IndInv

\* Every behaviour of the controller satisfies the inductive invariant.
THEOREM Inductive == Spec => []IndInv
  BY IndInit, IndNext, PTL DEF Spec

\* The controller is type correct in every behaviour.
THEOREM TypeCorrect == Spec => []TypeOK
<1>1. IndInv => TypeOK
  BY DEF IndInv
<1>. QED
  BY <1>1, Inductive, PTL

\* No accepted event is lost, duplicated or reordered, however many writes
\* fail and whatever is emitted meanwhile (startWrite, appendCore).
THEOREM NothingLost == Spec => []Conservation
<1>1. IndInv => Conservation
  BY DEF IndInv, SafeInv
<1>. QED
  BY <1>1, Inductive, PTL

\* The durable log is an ordered prefix of the session's events, also when
\* timed-out requests are executed late (ConversationRepository.append).
THEOREM LogInOrder == Spec => []StoreInOrder
<1>1. IndInv => StoreInOrder
  BY DEF IndInv, SafeInv
<1>. QED
  BY <1>1, Inductive, PTL

\* A flush that resolved covers every event emitted before it was called
\* (SessionWriteBehind.flush, drainBarrier).
THEOREM FlushDurable == Spec => []FlushIsDurable
<1>1. IndInv => FlushIsDurable
  BY DEF IndInv, SafeInv
<1>. QED
  BY <1>1, Inductive, PTL

\* The retention limit is never exceeded (enqueue).
THEOREM Bounded == Spec => []CapacityBound
<1>1. IndInv => CapacityBound
  BY DEF IndInv, SafeInv
<1>. QED
  BY <1>1, Inductive, PTL

\* A disposed session is released only when nothing is owed (retireCore).
THEOREM ReleaseDurable == Spec => []ReleaseIsDurable
<1>1. IndInv => ReleaseIsDurable
  <2>. SUFFICES ASSUME IndInv, life = "released" PROVE
         /\ pending = <<>> /\ active = "none" /\ ~admissionFailure
         /\ Covered(emitted)
    BY DEF ReleaseIsDurable
  <2>1. caller[Retirer] = "ok" /\ mark[Retirer] = emitted
    BY Parts DEF RetireInv
  <2>2. pending = <<>> /\ active = "none" /\ ~admissionFailure
    BY <2>1, Parts DEF RetireInv
  <2>3. Retirer \in FlushCallers
    BY DEF FlushCallers
  <2>4. Covered(mark[Retirer])
    BY <2>1, <2>3, Parts DEF FlushIsDurable
  <2>. QED
    BY <2>1, <2>2, <2>4
<1>. QED
  BY <1>1, Inductive, PTL

\* Timer, barrier and continuation never start a write while another is in
\* progress (startWrite's callers).
THEOREM SingleWriter == Spec => OneWriter
<1>1. ASSUME IndInv, [Next]_vars
      PROVE  [active' = "queued" /\ batch' # batch => active = "none"]_vars
  <2>. SUFFICES ASSUME Next, active' = "queued", batch' # batch PROVE active = "none"
    BY <1>1
  <2>. USE DEF control, queue, session, state, flushes, remote
  <2>0. TypeStages /\ BarrierInv /\ WriteInv
    BY <1>1, Parts
  <2>1. CASE OnDeadline
    BY <2>1 DEF OnDeadline
  <2>2. CASE ContinueAutomatic
    BY <2>0, <2>2 DEF ContinueAutomatic, BarrierInv
  <2>3. CASE BarrierResumes
    BY <2>0, <2>3 DEF BarrierResumes, BarrierInv
  <2>4. ASSUME NEW c \in FlushCallers, Flush(c) PROVE active = "none"
    BY <2>4, Zenon DEF Flush
  <2>5. CASE WriteCaught \/ WriteSettles
    BY <2>5 DEF WriteCaught, WriteSettles
  <2>6. ASSUME NEW c \in FlushCallers, FlushInitFailed(c) PROVE FALSE
    BY <2>6 DEF FlushInitFailed
  <2>7. ASSUME NEW c \in Callers, FlushCall(c) PROVE FALSE
    BY <2>7 DEF FlushCall, Call
  <2>8. CASE Dispose \/ TeardownFlush \/ Release \/ Enqueue \/ EnqueueRefused
    BY <2>8 DEF Dispose, TeardownFlush, Call, Release, Enqueue, EnqueueRefused
  <2>9. CASE Settle \/ Backend \/ WriteBegins \/ BarrierFails
    BY <2>9 DEF Settle, InitSucceeds, InitFails, Backend, BackendCommits,
      BackendFails, BackendTimesOut, WriteBegins, BarrierFails
  <2>10. ASSUME NEW e \in stray, StrayLands(e) \/ StrayLost(e) PROVE FALSE
    BY <2>10 DEF StrayLands, StrayLost
  <2>. QED
    BY <2>1, <2>2, <2>3, <2>4, <2>5, <2>6, <2>7, <2>8, <2>9, <2>10 DEF Next, Microtask
<1>. QED
  BY <1>1, Inductive, PTL DEF Spec, OneWriter


(***************************************************************************)
(* The refinement mapping                                                  *)
(***************************************************************************)

\* What the callers see, as one function.
Requests == [c \in FlushCallers |-> Request(caller[c])]

\* Three variables of DurableLog are the controller's own, two are read off
\* its state.
LogState == <<emitted, accepted, Len(store), draft, Requests, mark>>

\* The stages of a caller in terms of DurableLog.
LEMMA RequestOf ==
  /\ Request("idle") = "none"
  /\ Request("init") = "wait" /\ Request("barrier") = "wait"
  /\ Request("ok") = "ok" /\ Request("error") = "error"
BY DEF Request

\* Both specifications mean the same by a covered prefix.
LEMMA SameCovered == ASSUME NEW n PROVE Log!Covered(n) <=> Covered(n)
BY DEF Log!Covered, Covered

\* A step that changes nothing the callers see.
LEMMA Stutter ==
  ASSUME UNCHANGED <<emitted, accepted, draft, mark, caller>>, Len(store') = Len(store)
  PROVE  UNCHANGED Log!vars
BY DEF Log!vars

\* The store may only grow, and never past the events that were accepted.
LEMMA PersistStep ==
  ASSUME IndInv, IndInv', UNCHANGED <<emitted, accepted, draft, mark, caller>>,
         Len(store) <= Len(store')
  PROVE  Log!Next
<1>1. Len(store) \in Nat /\ Len(store') \in Nat /\ accepted \in Nat
  BY Parts DEF IndInv, TypeOK, TypeQueue, TypeStore
<1>2. Len(store') <= accepted
  BY DEF IndInv, SafeInv, StoreInOrder
<1>3. Len(store') \in Len(store)..accepted
  BY <1>1, <1>2
<1>4. Log!Persist
  BY <1>3 DEF Log!Persist
<1>. QED
  BY <1>4 DEF Log!Next

\* One transaction never shortens the log.
LEMMA ApplyGrows ==
  ASSUME NEW events, events \in Seq(Nat), store \in Seq(Nat), Apply(events)
  PROVE  Len(store) <= Len(store')
BY DEF Apply

\* A caller that asks again, with the mark of what was emitted.
LEMMA AskStep ==
  ASSUME TypeOK, NEW c \in FlushCallers, Call(c), caller[c] \in {"idle", "ok", "error"}
  PROVE  Log!Next
<1>1. caller \in [FlushCallers -> CallerStages] /\ mark \in [FlushCallers -> Nat]
  BY DEF TypeOK, TypeCallers
<1>2. Request(caller[c]) # "wait"
  BY RequestOf
<1>3. [d \in FlushCallers |-> Request(caller'[d])]
        = [[d \in FlushCallers |-> Request(caller[d])] EXCEPT ![c] = "wait"]
  <2>1. ASSUME NEW d \in FlushCallers
        PROVE  Request(caller'[d]) = IF d = c THEN "wait" ELSE Request(caller[d])
    BY <1>1, RequestOf DEF Call
  <2>. QED
    BY <2>1
<1>4. UNCHANGED <<emitted, accepted, draft, store>> /\ mark' = [mark EXCEPT ![c] = emitted]
  BY DEF Call, state, remote
<1>5. Log!Ask(c)
  BY <1>2, <1>3, <1>4 DEF Log!Ask
<1>. QED
  BY <1>5 DEF Log!Next

\* Callers that waited are answered together, with success only when every
\* one of them is covered.
LEMMA AnswerStep ==
  ASSUME TypeOK, IndInv',
         NEW cs \in SUBSET FlushCallers, NEW result \in {"ok", "error"},
         \A c \in cs : caller[c] \in {"init", "barrier"},
         caller' = [c \in FlushCallers |-> IF c \in cs THEN result ELSE caller[c]],
         UNCHANGED <<emitted, accepted, draft, mark, store>>
  PROVE  Log!Next
<1>1. \A c \in cs : Requests[c] = "wait"
  BY RequestOf DEF Requests
<1>2. ASSUME result = "ok", NEW c \in cs PROVE Log!Covered(mark[c])
  <2>1. caller'[c] = "ok"
    BY <1>2
  <2>2. Covered(mark[c])'
    BY <2>1 DEF IndInv, SafeInv, FlushIsDurable
  <2>. QED
    BY <2>2, SameCovered DEF Covered
<1>3. [c \in FlushCallers |-> Request(caller'[c])]
        = [c \in FlushCallers |-> IF c \in cs THEN result ELSE Requests[c]]
  <2>1. ASSUME NEW c \in FlushCallers
        PROVE  Request(caller'[c]) = IF c \in cs THEN result ELSE Requests[c]
    BY RequestOf DEF Requests
  <2>. QED
    BY <2>1
<1>4. Log!Answer(cs, result)
  BY <1>1, <1>2, <1>3 DEF Log!Answer, Requests
<1>. QED
  BY <1>4 DEF Log!Next

(***************************************************************************)
(* Every step maps to a step or a stutter                                  *)
(***************************************************************************)

\* The initial states map to initial states.
LEMMA LogInit == Init => Log!Init
<1>. SUFFICES ASSUME Init PROVE Log!Init
  OBVIOUS
<1>1. seed \in Nat
  BY WriteBehindAssumption DEF Init
<1>2. PICK stored \in 0..seed : store = Run(0, stored)
  BY DEF Init
<1>3. Len(store) = stored
  BY <1>1, <1>2 DEF Run
<1>4. \A c \in FlushCallers : Request(caller[c]) = "none"
  BY RequestOf DEF Init
<1>. QED
  BY <1>1, <1>2, <1>3, <1>4 DEF Init, Log!Init

\* Every step of the controller is a step of DurableLog, or changes nothing
\* that DurableLog speaks of.
LEMMA LogNext ==
  ASSUME IndInv, IndInv', [Next]_vars
  PROVE  [Log!Next]_(Log!vars)
<1>. USE DEF control, queue, session, state, flushes, remote
<1>0. TypeOK /\ store \in Seq(Nat) /\ emitted \in Nat /\ accepted \in Nat
  BY DEF IndInv, TypeOK, TypeStore, TypeQueue
<1>c. caller \in [FlushCallers -> CallerStages]
  BY <1>0 DEF TypeOK, TypeCallers
<1>v. Verdict \in {"ok", "error"}
  BY DEF Verdict
<1>1. CASE Enqueue
  <2>1. accepted = emitted
    BY <1>1 DEF Enqueue, IndInv, SafeInv, AdmissionInv
  <2>2. Log!Issue
    BY <1>0, <1>1, <2>1 DEF Enqueue, Emit, Log!Issue
  <2>. QED
    BY <2>2 DEF Log!Next
<1>2. CASE EnqueueRefused
  <2>2. Log!Issue
    BY <1>0, <1>2 DEF EnqueueRefused, Emit, Log!Issue
  <2>. QED
    BY <2>2 DEF Log!Next
<1>3. ASSUME NEW c \in Callers, FlushCall(c) PROVE Log!Next
  <2>1. c \in FlushCallers /\ Call(c) /\ caller[c] \in {"idle", "ok", "error"}
    BY <1>3 DEF FlushCall, FlushCallers
  <2>. QED
    BY <1>0, <2>1, AskStep
<1>4. CASE Dispose
  <2>1. Retirer \in FlushCallers /\ Call(Retirer) /\ caller[Retirer] = "idle"
    BY <1>4 DEF Dispose, FlushCallers, IndInv, SafeInv, RetireInv
  <2>. QED
    BY <1>0, <2>1, AskStep
<1>5. CASE TeardownFlush
  <2>1. Retirer \in FlushCallers /\ Call(Retirer) /\ caller[Retirer] = "error"
    BY <1>5 DEF TeardownFlush, FlushCallers
  <2>. QED
    BY <1>0, <2>1, AskStep
<1>6. CASE Release
  BY <1>6, Stutter DEF Release
<1>7. CASE InitSucceeds
  <2>1. UNCHANGED <<emitted, accepted, draft, mark, caller>>
    BY <1>7 DEF InitSucceeds
  <2>2. SeedSuffix \in Seq(Nat)
    BY <1>0, <1>7, Parts, RunType DEF InitSucceeds, SeedSuffix, IndInv, TypeOK, TypeQueue, DraftInv, SafeInv
  <2>3. Len(store) <= Len(store')
    BY <1>0, <1>7, <2>2, ApplyGrows DEF InitSucceeds
  <2>. QED
    BY <2>1, <2>3, PersistStep
<1>8. CASE InitFails
  <2>1. UNCHANGED <<emitted, accepted, draft, mark, caller>>
    BY <1>8 DEF InitFails
  <2>2. SeedSuffix \in Seq(Nat)
    BY <1>0, <1>8, Parts, RunType DEF InitFails, SeedSuffix, IndInv, TypeOK, TypeQueue, DraftInv, SafeInv
  <2>3. Len(store) <= Len(store')
    BY <1>0, <1>8, <2>2, ApplyGrows DEF InitFails
  <2>. QED
    BY <2>1, <2>3, PersistStep
<1>9. CASE BackendCommits
  <2>1. UNCHANGED <<emitted, accepted, draft, mark, caller>>
    BY <1>9 DEF BackendCommits
  <2>2. durableEvents \in Seq(Nat)
    BY <1>0, FreshType DEF durableEvents, TypeOK, TypeQueue
  <2>3. Len(store) <= Len(store')
    BY <1>0, <1>9, <2>2, ApplyGrows DEF BackendCommits
  <2>. QED
    BY <2>1, <2>3, PersistStep
<1>10. CASE BackendFails \/ BackendTimesOut \/ WriteBegins \/ WriteCaught
  BY <1>10, Stutter DEF BackendFails, BackendTimesOut, WriteBegins, WriteCaught
<1>11. CASE WriteSettles \/ ContinueAutomatic \/ OnDeadline
  BY <1>11, Stutter DEF WriteSettles, ContinueAutomatic, OnDeadline
<1>12. CASE BarrierResumes
  <2>1. CASE pending # <<>>
    BY <1>12, <2>1, Stutter DEF BarrierResumes
  <2>2. CASE pending = <<>>
    <3>. DEFINE cs == {c \in FlushCallers : caller[c] = "barrier"}
    <3>1. caller' = [c \in FlushCallers |-> IF c \in cs THEN Verdict ELSE caller[c]]
      BY <1>12, <2>2 DEF BarrierResumes, Joined
    <3>2. UNCHANGED <<emitted, accepted, draft, mark, store>>
      BY <1>12 DEF BarrierResumes
    <3>. QED
      BY <1>0, <1>v, <3>1, <3>2, AnswerStep
  <2>. QED
    BY <2>1, <2>2
<1>13. CASE BarrierFails
  <2>. DEFINE cs == {c \in FlushCallers : caller[c] = "barrier"}
  <2>1. caller' = [c \in FlushCallers |-> IF c \in cs THEN "error" ELSE caller[c]]
    BY <1>13 DEF BarrierFails, Joined
  <2>2. UNCHANGED <<emitted, accepted, draft, mark, store>>
    BY <1>13 DEF BarrierFails
  <2>. QED
    BY <1>0, <2>1, <2>2, AnswerStep
<1>14. ASSUME NEW c \in FlushCallers, FlushInitFailed(c) PROVE Log!Next
  <2>1. caller' = [d \in FlushCallers |-> IF d \in {c} THEN "error" ELSE caller[d]]
    BY <1>14, <1>c DEF FlushInitFailed
  <2>2. UNCHANGED <<emitted, accepted, draft, mark, store>> /\ caller[c] = "init"
    BY <1>14 DEF FlushInitFailed
  <2>. QED
    BY <1>0, <2>1, <2>2, AnswerStep
<1>15. ASSUME NEW c \in FlushCallers, Flush(c) PROVE [Log!Next]_(Log!vars)
  <2>1. UNCHANGED <<emitted, accepted, draft, mark, store>> /\ caller[c] = "init"
    BY <1>15 DEF Flush
  <2>2. \/ caller' = [caller EXCEPT ![c] = "barrier"]
        \/ caller' = [caller EXCEPT ![c] = Verdict]
    BY <1>15, Zenon DEF Flush
  <2>3. CASE caller' = [caller EXCEPT ![c] = "barrier"]
    <3>1. ASSUME NEW d \in FlushCallers PROVE Request(caller'[d]) = Request(caller[d])
      BY <1>c, <2>1, <2>3, RequestOf
    <3>. QED
      BY <2>1, <3>1 DEF Log!vars
  <2>4. CASE caller' = [caller EXCEPT ![c] = Verdict]
    <3>1. caller' = [d \in FlushCallers |-> IF d \in {c} THEN Verdict ELSE caller[d]]
      BY <1>c, <2>4
    <3>. QED
      BY <1>0, <1>v, <2>1, <3>1, AnswerStep
  <2>. QED
    BY <2>2, <2>3, <2>4
<1>16. ASSUME NEW events \in stray, StrayLands(events) PROVE Log!Next
  <2>1. UNCHANGED <<emitted, accepted, draft, mark, caller>> /\ events \in Seq(Nat)
    BY <1>0, <1>16 DEF StrayLands, TypeOK, TypeStore
  <2>2. Len(store) <= Len(store')
    BY <1>0, <1>16, <2>1, ApplyGrows DEF StrayLands
  <2>. QED
    BY <2>1, <2>2, PersistStep
<1>17. ASSUME NEW events \in stray, StrayLost(events) PROVE UNCHANGED Log!vars
  BY <1>17, Stutter DEF StrayLost
<1>18. CASE UNCHANGED vars
  BY <1>18, Stutter DEF vars
<1>. QED
  BY <1>1, <1>2, <1>3, <1>4, <1>5, <1>6, <1>7, <1>8, <1>9, <1>10, <1>11, <1>12,
     <1>13, <1>14, <1>15, <1>16, <1>17, <1>18, Zenon
  DEF Next, Settle, Backend, Microtask

\* The write-behind controller, the coordinator and the store implement the
\* durable log the callers of session/flush rely on, whatever the queue limit,
\* the number of callers and the requests that outlive their deadline
\* (write-behind.ts, coordinator.ts).
THEOREM Refinement == Spec => ImplementsDurableLog
<1>1. IndInv /\ IndInv' /\ [Next]_vars => [Log!Next]_(Log!vars)
  BY LogNext
<1>. QED
  BY <1>1, LogInit, Inductive, PTL DEF Spec, ImplementsDurableLog, Log!Spec

(***************************************************************************)
(* No queued event is stranded                                             *)
(***************************************************************************)

\* Someone will look at the queue, or a failure was reported.
Roused ==
  \/ timer \/ automaticPaused \/ init = "failed"
  \/ \E c \in FlushCallers : caller[c] = "init"

\* NoStranding is not inductive: it says nothing of what is left when a write
\* or a barrier ends.  A write without a barrier is the timer's, so that its
\* success continues the automatic path; a failed one pauses it; and while a
\* write runs, what is queued behind it has its own deadline.
StrandInv ==
  /\ NoStranding
  /\ active # "none" /\ barrier = "none" => background
  /\ barrier = "failed" => automaticPaused
  /\ barrier = "write" /\ active = "caught" => automaticPaused
  /\ active = "caught" => ~deadlineExpired
  /\ active \notin {"none", "rejected"} /\ barrier = "none" /\ pending # <<>> =>
       Roused \/ deadlineExpired

\* A step that leaves the queue's control alone.
LEMMA StrandFrame ==
  ASSUME StrandInv,
         UNCHANGED <<pending, active, background, timer, auto, deadlineExpired,
                     automaticPaused, barrier, init, caller>>
  PROVE  StrandInv'
BY Zenon DEF StrandInv, NoStranding, Roused

\* A write takes all that was queued.
LEMMA StrandStart ==
  ASSUME NEW b \in BOOLEAN, StartWrite(b), b \/ barrier' # "none", barrier' # "failed"
  PROVE  StrandInv'
<1>1. pending' = <<>> /\ active' = "queued" /\ background' = b /\ deadlineExpired' = FALSE
  BY DEF StartWrite, CancelWait
<1>. QED
  BY <1>1 DEF StrandInv, NoStranding

\* A call of flush takes over from the timer.
LEMMA StrandCall ==
  ASSUME TypeCallers, StrandInv, NEW c \in FlushCallers, Call(c)
  PROVE  StrandInv'
<1>1. caller'[c] = "init"
  BY DEF Call, TypeCallers
<1>2. Roused'
  BY <1>1 DEF Roused
<1>3. NoStranding'
  BY <1>1 DEF NoStranding
<1>4. deadlineExpired' = FALSE /\ UNCHANGED <<pending, active, background, automaticPaused, barrier>>
  BY DEF Call, CancelWait, queue
<1>. QED
  BY <1>2, <1>3, <1>4, Zenon DEF StrandInv

\* Every step keeps the strengthened invariant.
LEMMA StrandNext == IndInv /\ StrandInv /\ [Next]_vars => StrandInv'
<1>. SUFFICES ASSUME IndInv, StrandInv, [Next]_vars PROVE StrandInv'
  OBVIOUS
<1>. USE DEF control, queue, session, state, flushes, remote
<1>0. TypeCallers /\ TypeStages /\ TypeFlags /\ BarrierInv /\ WriteInv
  BY Parts DEF IndInv, TypeOK
<1>1. CASE Enqueue
  <2>1. UNCHANGED <<active, background, auto, barrier, init, caller>>
    BY <1>1 DEF Enqueue
  <2>2. CASE barrier # "none"
    <3>1. UNCHANGED <<timer, deadlineExpired, automaticPaused>>
      BY <1>1, <2>2 DEF Enqueue, ArmOnEnqueue
    <3>. QED
      BY <2>1, <2>2, <3>1, Zenon DEF StrandInv, NoStranding
  <2>3. CASE barrier = "none" /\ automaticPaused
    <3>1. timer' /\ ~deadlineExpired' 
      BY <1>1, <2>3 DEF Enqueue, ArmOnEnqueue
    <3>. QED
      BY <2>1, <2>3, <3>1 DEF StrandInv, NoStranding, Roused
  <2>4. CASE barrier = "none" /\ ~automaticPaused /\ pending = <<>>
    <3>1. timer' /\ UNCHANGED deadlineExpired
      BY <1>1, <2>4 DEF Enqueue, ArmOnEnqueue
    <3>. QED
      BY <2>1, <2>4, <3>1 DEF StrandInv, NoStranding, Roused
  <2>5. CASE barrier = "none" /\ ~automaticPaused /\ pending # <<>>
    <3>1. timer' = timer /\ UNCHANGED <<deadlineExpired, automaticPaused>>
      BY <1>0, <1>1, <2>5, Zenon DEF Enqueue, ArmOnEnqueue, TypeFlags
    <3>. QED
      BY <2>1, <2>5, <3>1, Zenon DEF StrandInv, NoStranding, Roused
  <2>. QED
    BY <2>2, <2>3, <2>4, <2>5
<1>2. CASE EnqueueRefused \/ Release
  BY <1>2, StrandFrame DEF EnqueueRefused, Release
<1>3. ASSUME NEW c \in Callers, FlushCall(c) PROVE StrandInv'
  BY <1>0, <1>3, StrandCall DEF FlushCall, FlushCallers
<1>4. CASE Dispose \/ TeardownFlush
  BY <1>0, <1>4, StrandCall DEF Dispose, TeardownFlush, FlushCallers
<1>5. CASE InitSucceeds \/ InitFails
  <2>1. /\ init = "pending"
        /\ UNCHANGED <<pending, active, background, timer, auto, deadlineExpired,
                       automaticPaused, barrier, caller>>
    BY <1>5 DEF InitSucceeds, InitFails
  <2>. QED
    BY <2>1, Zenon DEF StrandInv, NoStranding, Roused
<1>6. CASE BackendCommits
  <2>1. /\ active = "writing" /\ active' = "resolved"
        /\ UNCHANGED <<pending, background, timer, auto, deadlineExpired,
                       automaticPaused, barrier, init, caller>>
    BY <1>6 DEF BackendCommits
  <2>. QED
    BY <2>1, Zenon DEF StrandInv, NoStranding, Roused
<1>7. CASE BackendFails \/ BackendTimesOut
  <2>1. /\ active = "writing" /\ active' = "rejected"
        /\ UNCHANGED <<pending, background, timer, auto, deadlineExpired,
                       automaticPaused, barrier, init, caller>>
    BY <1>7 DEF BackendFails, BackendTimesOut
  <2>. QED
    BY <2>1, Zenon DEF StrandInv, NoStranding, Roused
<1>8. CASE WriteBegins
  <2>1. /\ active = "queued" /\ active' \in {"rejected", "resolved", "writing"}
        /\ UNCHANGED <<pending, background, timer, auto, deadlineExpired,
                       automaticPaused, barrier, init, caller>>
    BY <1>8, <1>0 DEF WriteBegins, TypeStages
  <2>2. active' # "none" /\ active' # "caught"
    BY <2>1
  <2>. QED
    BY <2>1, <2>2, Zenon DEF StrandInv, NoStranding, Roused
<1>9. CASE WriteCaught
  <2>1. /\ active' = "caught" /\ automaticPaused' /\ ~deadlineExpired'
        /\ active = "rejected" /\ UNCHANGED <<background, barrier>>
    BY <1>9 DEF WriteCaught, CancelWait
  <2>. QED
    BY <2>1 DEF StrandInv, NoStranding, Roused
<1>10. CASE WriteSettles
  <2>1. /\ active \in {"resolved", "caught"} /\ active' = "none"
        /\ UNCHANGED <<pending, background, timer, deadlineExpired,
                       automaticPaused, init, caller>>
    BY <1>10 DEF WriteSettles
  <2>2. background /\ active = "resolved" => auto'
    BY <1>10 DEF WriteSettles
  <2>3. /\ barrier = "none" <=> barrier' = "none"
        /\ barrier' = "failed" => barrier = "failed" \/ (barrier = "write" /\ active = "caught")
    <3>1. barrier \in BarrierStages
      BY <1>0 DEF TypeStages
    <3>2. barrier' = CASE barrier = "overlap" -> "overlapped"
                       [] barrier = "write" -> IF active = "resolved" THEN "wrote" ELSE "failed"
                       [] OTHER -> barrier
      BY <1>10 DEF WriteSettles
    <3>. QED
      BY <2>1, <3>1, <3>2 DEF BarrierStages
  <2>4. NoStranding'
    <3>. SUFFICES ASSUME pending # <<>>, barrier = "none" PROVE Roused \/ (auto' /\ deadlineExpired)
      BY <2>1, <2>3, Zenon DEF NoStranding, Roused
    <3>1. Roused \/ deadlineExpired
      BY <2>1, Zenon DEF StrandInv
    <3>2. background
      BY <2>1, Zenon DEF StrandInv
    <3>0. active = "caught" => ~deadlineExpired
      BY DEF StrandInv
    <3>3. CASE active = "caught"
      BY <3>0, <3>1, <3>3
    <3>4. CASE active = "resolved"
      BY <2>2, <3>1, <3>2, <3>4
    <3>. QED
      BY <2>1, <3>3, <3>4
  <2>. QED
    BY <2>1, <2>3, <2>4, Zenon DEF StrandInv
<1>11. CASE ContinueAutomatic
  <2>1. CASE barrier = "none" /\ pending # <<>> /\ deadlineExpired
    <3>1. StartWrite(TRUE) /\ barrier' = barrier
      BY <1>11, <2>1 DEF ContinueAutomatic
    <3>. QED
      BY <2>1, <3>1, StrandStart
  <2>2. CASE ~(barrier = "none" /\ pending # <<>> /\ deadlineExpired)
    <3>1. UNCHANGED <<pending, active, background, timer, deadlineExpired,
                       automaticPaused, barrier, init, caller>>
      BY <1>11, <2>2, Zenon DEF ContinueAutomatic
    <3>. QED
      BY <2>2, <3>1, Zenon DEF StrandInv, NoStranding, Roused
  <2>. QED
    BY <2>1, <2>2
<1>12. CASE BarrierResumes
  <2>1. CASE pending # <<>>
    <3>1. StartWrite(FALSE) /\ barrier' = "write"
      BY <1>12, <2>1 DEF BarrierResumes
    <3>. QED
      BY <3>1, StrandStart
  <2>2. CASE pending = <<>>
    <3>1. /\ pending' = <<>> /\ barrier' = "none" /\ active' = active
      BY <1>12, <2>2 DEF BarrierResumes
    <3>2. active = "none"
      BY <1>0, <1>12 DEF BarrierResumes, BarrierInv
    <3>. QED
      BY <3>1, <3>2 DEF StrandInv, NoStranding
  <2>. QED
    BY <2>1, <2>2
<1>13. CASE BarrierFails
  <2>1. /\ barrier = "failed" /\ barrier' = "none"
        /\ UNCHANGED <<pending, active, automaticPaused>>
    BY <1>13 DEF BarrierFails
  <2>2. active = "none" /\ automaticPaused
    BY <1>0, <2>1 DEF BarrierInv, StrandInv
  <2>. QED
    BY <2>1, <2>2 DEF StrandInv, NoStranding, Roused
<1>14. ASSUME NEW c \in FlushCallers, FlushInitFailed(c) PROVE StrandInv'
  <2>1. /\ init' = "failed" /\ ~deadlineExpired'
        /\ UNCHANGED <<pending, active, background, automaticPaused, barrier>>
    BY <1>14 DEF FlushInitFailed, CancelWait
  <2>. QED
    BY <2>1, Zenon DEF StrandInv, NoStranding, Roused
<1>15. ASSUME NEW c \in FlushCallers, Flush(c) PROVE StrandInv'
  <2>1. CASE barrier # "none"
    <3>1. UNCHANGED <<pending, active, background, timer, auto, deadlineExpired,
                       automaticPaused, barrier, init>>
      BY <1>15, <2>1 DEF Flush
    <3>. QED
      BY <2>1, <3>1, Zenon DEF StrandInv, NoStranding
  <2>2. CASE barrier = "none" /\ active # "none"
    <3>1. barrier' = "overlap" /\ ~deadlineExpired' /\ active' = active
      BY <1>15, <2>2 DEF Flush, CancelWait
    <3>. QED
      BY <3>1 DEF StrandInv, NoStranding
  <2>3. CASE barrier = "none" /\ active = "none" /\ pending # <<>>
    <3>1. StartWrite(FALSE) /\ barrier' = "write"
      BY <1>15, <2>3 DEF Flush
    <3>. QED
      BY <3>1, StrandStart
  <2>4. CASE barrier = "none" /\ active = "none" /\ pending = <<>>
    <3>1. barrier' = "none" /\ active' = "none" /\ pending' = <<>>
      BY <1>15, <2>4 DEF Flush
    <3>. QED
      BY <3>1 DEF StrandInv, NoStranding
  <2>. QED
    BY <2>1, <2>2, <2>3, <2>4
<1>16. CASE OnDeadline
  <2>1. CASE active # "none"
    <3>1. /\ deadlineExpired' /\ active # "caught"
          /\ UNCHANGED <<pending, active, background, automaticPaused, barrier>>
      BY <1>16, <2>1 DEF OnDeadline, Quiet
    <3>. QED
      BY <2>1, <3>1, Zenon DEF StrandInv, NoStranding
  <2>2. CASE active = "none"
    <3>1. StartWrite(TRUE) /\ barrier' = barrier /\ barrier # "failed"
      BY <1>16, <2>2 DEF OnDeadline, Quiet
    <3>. QED
      BY <3>1, StrandStart
  <2>. QED
    BY <2>1, <2>2
<1>17. ASSUME NEW events \in stray, StrayLands(events) \/ StrayLost(events) PROVE StrandInv'
  BY <1>17, StrandFrame DEF StrayLands, StrayLost
<1>18. CASE UNCHANGED vars
  BY <1>18, StrandFrame DEF vars
<1>. QED
  BY <1>1, <1>2, <1>3, <1>4, <1>5, <1>6, <1>7, <1>8, <1>9, <1>10, <1>11, <1>12,
     <1>13, <1>14, <1>15, <1>16, <1>17, <1>18, Zenon
  DEF Next, Settle, Backend, Microtask

\* An event that was accepted always has someone to write it: a timer, a write,
\* a barrier, a queued continuation or a waiting flush; or a failure was
\* reported (enqueue, onDeadline, startWrite, continueAutomatic, drainBarrier).
THEOREM NobodyStranded == Spec => []NoStranding
<1>1. Init => StrandInv
  BY DEF Init, StrandInv, NoStranding
<1>2. StrandInv => NoStranding
  BY DEF StrandInv
<1>. QED
  BY <1>1, <1>2, StrandNext, Inductive, PTL DEF Spec

=============================================================================
