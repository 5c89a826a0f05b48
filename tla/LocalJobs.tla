------------------------------ MODULE LocalJobs ------------------------------
(***************************************************************************)
(* The in-memory registry of background jobs                               *)
(* (packages/jobs/jobs-local/src/index.ts), its output ring (ring.ts) and  *)
(* its pump over pull sources (pump.ts).                                   *)
(*                                                                         *)
(* An action is the code between two awaits.  The producer of a job is     *)
(* external: it writes, cancels and settles as it likes.  Texts are counts *)
(* of bytes, one byte to a character; a ring is the sequence of the        *)
(* offsets at which its retained chunks start, up to total.  Event         *)
(* listeners are not modelled; the settled event's contents are.           *)
(***************************************************************************)
EXTENDS Naturals, Sequences, FiniteSets

CONSTANTS
  Jobs, Owners,
  Owner,             \* the owner of each job
  Pulled,            \* jobs whose output is a pull source; the others push
  Waits,             \* calls of wait
  MaxConcurrentJobsPerOwner, RetainBytes, SettledRetainBytes,
  Outcomes,          \* the outcomes a producer may report
  MaxBytes,          \* bound: bytes each job writes
  Sizes              \* the sizes of its writes

ASSUME JobsAssumption ==
  /\ IsFiniteSet(Jobs)
  /\ Owner \in [Jobs -> Owners] /\ Pulled \subseteq Jobs /\ "none" \notin Jobs
  /\ {MaxConcurrentJobsPerOwner, RetainBytes, SettledRetainBytes} \subseteq Nat \ {0}
  /\ Outcomes \subseteq {"completed", "killed", "failed"}
  /\ MaxBytes \in [Jobs -> Nat] /\ Sizes \subseteq Nat \ {0}

VARIABLES
  starters,   \* the jobs whose run call is on the stack, outermost first
  store,      \* jobs with a record
  closed,
  status,     \* new, starting, thrown, running, stopping, completed, killed, failed
  cause,      \* settleCause: none, kill, teardown; after settlement the cause announced
  ring, total, cursor, resultDelivered,
  producer,   \* the producer's done: pending, completed, killed, failed, rejected
  holds,      \* jobs whose releaseProducer has not run
  pump,       \* none, polling, done
  written, copied,   \* bytes the pull source has, and the pump's offset in it
  waiting,    \* the job whose waitResolvers hold a wait, or none
  teardown,   \* disposeOwned of an owner, or disposeAll: no, waiting, done
  captured,   \* the jobs that teardown took from the store
  given, missed      \* history: bytes handed to the model, bytes reported as lost

record == <<status, cause, ring, total, cursor, resultDelivered, pump, copied>>
history == <<given, missed>>
vars == <<starters, store, closed, record, producer, holds, written, waiting, teardown, captured, history>>

Teardowns == Owners \cup {"service"}
Terminal == {"completed", "killed", "failed"}
Active == {"running", "stopping"}
isTerminal(j) == status[j] \in Terminal

Init ==
  /\ starters = <<>> /\ store = {} /\ closed = FALSE
  /\ status = [j \in Jobs |-> "new"] /\ cause = [j \in Jobs |-> "none"]
  /\ ring = [j \in Jobs |-> <<>>] /\ total = [j \in Jobs |-> 0]
  /\ cursor = [j \in Jobs |-> 0] /\ resultDelivered = [j \in Jobs |-> FALSE]
  /\ pump = [j \in Jobs |-> "none"] /\ copied = [j \in Jobs |-> 0]
  /\ producer = [j \in Jobs |-> "pending"] /\ holds = {} /\ written = [j \in Jobs |-> 0]
  /\ waiting = [w \in Waits |-> "none"]
  /\ teardown = [t \in Teardowns |-> "no"] /\ captured = [t \in Teardowns |-> {}]
  /\ given = [j \in Jobs |-> 0] /\ missed = [j \in Jobs |-> 0]

\* Between calls: no run call is on the stack.
Idle == starters = <<>>

(***************************************************************************)
(* OutputRing                                                              *)
(***************************************************************************)
Earliest(chunks, end) == IF chunks = <<>> THEN end ELSE chunks[1]

\* trim: drop whole chunks from the head until the rest fits cap, and cut the
\* last one to its tail.
Trim(chunks, end, cap) ==
  LET fits == {k \in 1 .. Len(chunks) : end - chunks[k] <= cap \/ k = Len(chunks)}
      rest == SubSeq(chunks, CHOOSE k \in fits : \A n \in fits : k <= n, Len(chunks))
  IN IF chunks = <<>> THEN <<>>
     ELSE IF Len(rest) = 1 /\ end - rest[1] > cap THEN <<end - cap>>
     ELSE rest

\* append of n bytes: one chunk, then a trim to the live cap.
Appended(j, n) == Trim(Append(ring[j], total[j]), total[j] + n, RetainBytes)

\* Mutant of ReadFrom: the chunk that ends at the offset is read again.
ReadFromAgain(j, from) ==
  LET end(k) == IF k = Len(ring[j]) THEN total[j] ELSE ring[j][k + 1]
      kept == {k \in 1 .. Len(ring[j]) : end(k) >= from}
  IN [bytes |-> IF kept = {} THEN 0 ELSE total[j] - ring[j][CHOOSE k \in kept : \A n \in kept : k <= n],
      lossy |-> from < Earliest(ring[j], total[j])]

\* readFrom: the retained chunks that end after an offset, from the start of
\* the first of them.
ReadFrom(j, from) ==
  LET end(k) == IF k = Len(ring[j]) THEN total[j] ELSE ring[j][k + 1]
      kept == {k \in 1 .. Len(ring[j]) : end(k) > from}
  IN [bytes |-> IF kept = {} THEN 0 ELSE total[j] - ring[j][CHOOSE k \in kept : \A n \in kept : k <= n],
      lossy |-> from < Earliest(ring[j], total[j])]

(***************************************************************************)
(* start                                                                   *)
(***************************************************************************)
\* Mutant of activeJobCount: a start under way is not counted.
activeRecords(o) == Cardinality({j \in store : Owner[j] = o /\ status[j] \in Active})

\* Records, and the starts under way.
activeJobCount(o) ==
  Cardinality({j \in store : Owner[j] = o /\ status[j] \in Active})
    + Cardinality({i \in 1 .. Len(starters) : Owner[starters[i]] = o})

\* Mutant of MayOwn: a torn down owner still takes jobs.
MayOwnAlways(j) == TRUE

\* The registry is open, and the owner is not being removed: its cleanup can
\* be attached.
MayOwn(j) == ~closed /\ teardown[Owner[j]] = "no"

\* The preflight passes and run is called, possibly by the run of another job.
Start(j) ==
  /\ status[j] = "new" /\ MayOwn(j)
  /\ activeJobCount(Owner[j]) < MaxConcurrentJobsPerOwner
  /\ starters' = Append(starters, j) /\ holds' = holds \cup {j}
  /\ status' = [status EXCEPT ![j] = "starting"]
  /\ UNCHANGED <<store, closed, cause, ring, total, cursor, resultDelivered, pump, copied,
                 producer, written, waiting, teardown, captured, history>>

InStarter(j) == starters # <<>> /\ starters[Len(starters)] = j
Returns == starters' = SubSeq(starters, 1, Len(starters) - 1)

\* run throws: nothing is registered.
StarterThrows(j) ==
  /\ InStarter(j) /\ Returns /\ holds' = holds \ {j}
  /\ status' = [status EXCEPT ![j] = "thrown"]
  /\ UNCHANGED <<store, closed, cause, ring, total, cursor, resultDelivered, pump, copied,
                 producer, written, waiting, teardown, captured, history>>

\* drain: copy what the source has beyond the pump's offset; a settled job
\* drops it.
Drained(j) ==
  LET n == written[j] - copied[j]
      keep == n > 0 /\ ~isTerminal(j) IN
  /\ copied' = [copied EXCEPT ![j] = written[j]]
  /\ ring' = IF keep THEN [ring EXCEPT ![j] = Appended(j, n)] ELSE ring
  /\ total' = IF keep THEN [total EXCEPT ![j] = @ + n] ELSE total

\* run returns: the record is committed and the pump drains for the first time.
StarterReturns(j) ==
  /\ InStarter(j) /\ Returns /\ store' = store \cup {j}
  /\ status' = [status EXCEPT ![j] = "running"]
  /\ IF j \in Pulled
       THEN pump' = [pump EXCEPT ![j] = "polling"] /\ Drained(j)
       ELSE UNCHANGED <<pump, ring, total, copied>>
  /\ UNCHANGED <<closed, cause, cursor, resultDelivered, producer, holds, written, waiting,
                 teardown, captured, history>>

(***************************************************************************)
(* Output                                                                  *)
(***************************************************************************)

\* A producer writes, within its starter too: to its source, or by append.
\* What it writes after its job is settled is dropped.
Write(j, n) ==
  /\ InStarter(j) \/ (Idle /\ status[j] \in Active /\ producer[j] = "pending")
  /\ IF j \in Pulled
       THEN /\ written[j] + n <= MaxBytes[j] /\ written' = [written EXCEPT ![j] = @ + n]
            /\ UNCHANGED <<ring, total>>
       ELSE /\ total[j] + n <= MaxBytes[j]
            /\ ring' = [ring EXCEPT ![j] = Appended(j, n)] /\ total' = [total EXCEPT ![j] = @ + n]
            /\ UNCHANGED written
  /\ UNCHANGED <<starters, store, closed, status, cause, cursor, resultDelivered, pump, copied,
                 producer, holds, waiting, teardown, captured, history>>

\* Mutant of Until: only a forced settlement ends the pump.
UntilForced(j) == isTerminal(j)

\* until: the producer is done, or the job was settled without it.
Until(j) == producer[j] # "pending" \/ isTerminal(j)

\* The pump's timer, and its final drain.
PumpDrains(j) ==
  /\ Idle /\ pump[j] = "polling" /\ Drained(j)
  /\ pump' = [pump EXCEPT ![j] = IF Until(j) THEN "done" ELSE @]
  /\ UNCHANGED <<starters, store, closed, status, cause, cursor, resultDelivered, producer, holds,
                 written, waiting, teardown, captured, history>>

\* read: everything from the model's cursor; a terminal read hands out the
\* result once and trims to the settled cap.
Read(j) ==
  LET got == ReadFrom(j, cursor[j]) IN
  /\ Idle /\ j \in store
  /\ cursor' = [cursor EXCEPT ![j] = total[j]]
  /\ given' = [given EXCEPT ![j] = @ + got.bytes]
  /\ missed' = [missed EXCEPT ![j] = IF got.lossy THEN @ + Earliest(ring[j], total[j]) - cursor[j] ELSE @]
  /\ resultDelivered' = [resultDelivered EXCEPT ![j] = @ \/ isTerminal(j)]
  /\ ring' = IF isTerminal(j) THEN [ring EXCEPT ![j] = Trim(@, total[j], SettledRetainBytes)] ELSE ring
  /\ UNCHANGED <<starters, store, closed, status, cause, total, pump, copied, producer, holds, written,
                 waiting, teardown, captured>>

(***************************************************************************)
(* Settlement                                                              *)
(***************************************************************************)
Larger(m, n) == IF m > n THEN m ELSE n

\* Mutant of Ended: the ring is cut to the settled cap at once.
EndedToCap(first) ==
  /\ ring' = [j \in Jobs |-> IF j \in first THEN Trim(ring[j], total[j], SettledRetainBytes) ELSE ring[j]]
  /\ waiting' = [w \in Waits |-> IF waiting[w] \in first THEN "none" ELSE waiting[w]]

\* settle, for the jobs of first: the ring is trimmed but keeps what the model
\* has not read, and every registered wait is released.
Ended(first) ==
  /\ ring' = [j \in Jobs |-> IF j \in first
       THEN Trim(ring[j], total[j], Larger(SettledRetainBytes, total[j] - cursor[j])) ELSE ring[j]]
  /\ waiting' = [w \in Waits |-> IF waiting[w] \in first THEN "none" ELSE waiting[w]]

\* The producer's done promise settles; a rejection breaks its contract.
ProducerSettles(j, outcome) ==
  /\ Idle /\ producer[j] = "pending" /\ status[j] \notin {"new", "starting", "thrown"}
  /\ producer' = [producer EXCEPT ![j] = outcome]
  /\ UNCHANGED <<starters, store, closed, record, holds, written, waiting, teardown, captured, history>>

\* The continuation of producerDone has something left to do: to settle, or to
\* release the hold.
DoneIsHeard(j) ==
  /\ producer[j] # "pending" /\ pump[j] # "polling"
  /\ j \in holds /\ (~isTerminal(j) \/ producer[j] # "rejected")

\* The first outcome wins.
Counts(j) == ~isTerminal(j)

\* Only a producer that reported gives up its hold.
Released(j) == holds' = IF producer[j] = "rejected" THEN holds ELSE holds \ {j}

\* The record follows once the pump's final drain is over.
SettleByProducer(j) ==
  /\ Idle /\ DoneIsHeard(j) /\ Released(j)
  /\ IF ~Counts(j) THEN UNCHANGED <<status, cause, ring, waiting>>
     ELSE /\ status' = [status EXCEPT ![j] = IF producer[j] = "rejected" THEN "failed" ELSE producer[j]]
          /\ cause' = [cause EXCEPT ![j] = IF @ = "none" THEN "producer" ELSE @]
          /\ Ended({j})
  /\ UNCHANGED <<starters, store, closed, total, cursor, resultDelivered, pump, copied, producer,
                 written, teardown, captured, history>>

\* kill: cancel first; a cancel that throws changes nothing.
Kill(j) ==
  /\ Idle /\ j \in store /\ ~isTerminal(j)
  /\ status' = [status EXCEPT ![j] = "stopping"] /\ cause' = [cause EXCEPT ![j] = "kill"]
  /\ UNCHANGED <<starters, store, closed, ring, total, cursor, resultDelivered, pump, copied, producer,
                 holds, written, waiting, teardown, captured, history>>

(***************************************************************************)
(* wait                                                                    *)
(***************************************************************************)

\* A settled job answers at once; a live one registers the wait.
Wait(w, j) ==
  /\ Idle /\ waiting[w] = "none" /\ j \in store /\ ~isTerminal(j)
  /\ waiting' = [waiting EXCEPT ![w] = j]
  /\ UNCHANGED <<starters, store, closed, record, producer, holds, written, teardown, captured, history>>

\* The deadline or the caller's signal.
WaitEnds(w) ==
  /\ Idle /\ waiting[w] \in Jobs
  /\ waiting' = [waiting EXCEPT ![w] = "none"]
  /\ UNCHANGED <<starters, store, closed, record, producer, holds, written, teardown, captured, history>>

(***************************************************************************)
(* Removal and teardown                                                    *)
(***************************************************************************)
Remove(j) ==
  /\ Idle /\ j \in store /\ isTerminal(j) /\ store' = store \ {j}
  /\ UNCHANGED <<starters, closed, record, producer, holds, written, waiting, teardown, captured, history>>

\* Cancel live jobs; a cancel that throws force-fails the record.
cancelForTeardown(live, thrown) ==
  /\ cause' = [j \in Jobs |-> IF j \in live THEN "teardown" ELSE cause[j]]
  /\ status' = [j \in Jobs |-> CASE j \in thrown -> "failed" [] j \in live \ thrown -> "stopping"
                                [] OTHER -> status[j]]
  /\ Ended(thrown)

\* disposeOwned and disposeAll up to their await: cancel every live job taken
\* from the store.
Dispose(t) ==
  LET taken == {j \in store : t = "service" \/ Owner[j] = t}
      live == {j \in taken : ~isTerminal(j)} IN
  /\ Idle /\ teardown[t] = "no" /\ teardown' = [teardown EXCEPT ![t] = "waiting"]
  /\ captured' = [captured EXCEPT ![t] = taken]
  /\ closed' = (closed \/ t = "service")
  /\ \E thrown \in SUBSET live : cancelForTeardown(live, thrown)
  /\ UNCHANGED <<starters, store, total, cursor, resultDelivered, pump, copied, producer, holds,
                 written, history>>

\* Every job it took is settled: drop them.  disposeAll then runs the cleanups
\* of the owners, which find nothing left.
Disposed(t) ==
  /\ Idle /\ teardown[t] = "waiting" /\ \A j \in captured[t] : isTerminal(j)
  /\ store' = store \ captured[t]
  /\ teardown' = [teardown EXCEPT ![t] = "done"]
  /\ captured' = [captured EXCEPT ![t] = {}]
  /\ UNCHANGED <<starters, closed, record, producer, holds, written, waiting, history>>

Next ==
  \/ \E j \in Jobs :
       \/ Start(j) \/ StarterThrows(j) \/ StarterReturns(j)
       \/ \E n \in Sizes : Write(j, n)
       \/ PumpDrains(j) \/ Read(j) \/ Kill(j) \/ Remove(j) \/ SettleByProducer(j)
       \/ \E outcome \in Outcomes \cup {"rejected"} : ProducerSettles(j, outcome)
  \/ \E w \in Waits : WaitEnds(w) \/ \E j \in Jobs : Wait(w, j)
  \/ \E t \in Teardowns : Dispose(t) \/ Disposed(t)

Spec == Init /\ [][Next]_vars

\* A starter is synchronous; timers and promise continuations run; and a
\* producer that was cancelled reports in the end, as its contract demands
\* (the code waits for it without a deadline).
Fairness ==
  /\ \A j \in Jobs :
       /\ WF_vars(StarterThrows(j) \/ StarterReturns(j))
       /\ WF_vars(PumpDrains(j)) /\ WF_vars(SettleByProducer(j))
       /\ WF_vars(status[j] = "stopping" /\ \E outcome \in Outcomes \cup {"rejected"} : ProducerSettles(j, outcome))
  /\ \A t \in Teardowns : WF_vars(Disposed(t))

FairSpec == Spec /\ Fairness

(***************************************************************************)
(* Properties                                                              *)
(***************************************************************************)

\* The type of every variable; no job holds more output than it wrote.
TypeOK ==
  /\ starters \in Seq(Jobs) /\ store \subseteq Jobs /\ closed \in BOOLEAN
  /\ status \in [Jobs -> {"new", "starting", "thrown"} \cup Active \cup Terminal]
  /\ cause \in [Jobs -> {"none", "kill", "teardown", "producer"}]
  /\ ring \in [Jobs -> Seq(Nat)] /\ resultDelivered \in [Jobs -> BOOLEAN]
  /\ {total, cursor, written, copied, given, missed} \subseteq [Jobs -> Nat]
  /\ \A j \in Jobs : total[j] <= MaxBytes[j] /\ written[j] <= MaxBytes[j]
  /\ producer \in [Jobs -> {"pending", "rejected"} \cup Terminal] /\ holds \subseteq Jobs
  /\ pump \in [Jobs -> {"none", "polling", "done"}]
  /\ waiting \in [Waits -> Jobs \cup {"none"}]
  /\ teardown \in [Teardowns -> {"no", "waiting", "done"}] /\ captured \in [Teardowns -> SUBSET Jobs]

\* Successive reads hand the model every byte once, or say that it was lost: a
\* read neither repeats a chunk nor skips one in silence, whatever was trimmed
\* between two reads (readJob, OutputRing.readFrom).
OutputAccounted == \A j \in Jobs : given[j] + missed[j] = cursor[j] /\ cursor[j] <= total[j]

\* The ring stays within the live cap, and within the settled cap once the
\* model has read a settled job (appendRing, readJob).
RingBounded ==
  \A j \in Jobs : total[j] - Earliest(ring[j], total[j])
                    <= IF resultDelivered[j] THEN SettledRetainBytes ELSE RetainBytes

\* What the two rest on: chunks are in order and not empty, the model's cursor
\* is behind the ring or at the start of a chunk, and only settled jobs have
\* handed out their result.
RingInv ==
  \A j \in Jobs :
    /\ \A i, k \in 1 .. Len(ring[j]) : i < k => ring[j][i] < ring[j][k]
    /\ \A i \in 1 .. Len(ring[j]) : ring[j][i] < total[j]
    /\ \/ cursor[j] = total[j] \/ cursor[j] < Earliest(ring[j], total[j])
       \/ \E i \in 1 .. Len(ring[j]) : ring[j][i] = cursor[j]
    /\ resultDelivered[j] => isTerminal(j)

\* The pump copies only what its source holds, and only for pull sources; a
\* job that is settled may drop what it copies (pump.ts, appendRing).
PumpInv ==
  \A j \in Jobs :
    /\ copied[j] <= written[j]
    /\ pump[j] # "none" => j \in Pulled
    /\ j \in Pulled => total[j] <= copied[j]

\* What settlement rests on: a live pulled job has copied into its ring all that
\* the pump took, a pump that is done has taken everything and knows that no
\* more comes, and a producer reports only for a committed record (start, pump.ts).
SettleInv ==
  \A j \in Jobs :
    /\ j \in Pulled /\ ~isTerminal(j) => total[j] = copied[j]
    /\ j \in Pulled /\ status[j] \in Active => pump[j] # "none"
    /\ pump[j] = "done" => copied[j] = written[j] /\ Until(j)
    /\ producer[j] # "pending" => status[j] \in Active \cup Terminal

\* Settlement drops nothing that the model has not read yet (settle's trim
\* against modelCursor).
UnreadKept ==
  \A j \in Jobs : (~isTerminal(j) /\ isTerminal(j)') =>
    Earliest(ring[j], total[j])' <= Larger(Earliest(ring[j], total[j]), cursor[j])

\* A job is settled only after everything its source holds is in the ring
\* (producerDone waits for pump.done), unless a teardown forces it at once.
SettledWithAllOutput ==
  \A j \in Pulled : (~isTerminal(j) /\ isTerminal(j)' /\ teardown' = teardown) => total[j] = written[j]

\* The first outcome wins: neither a late producer nor a second teardown
\* changes a settled record (settle, killJob, cancelForTeardown).
OneOutcome == \A j \in Jobs : isTerminal(j) => status'[j] = status[j] /\ cause'[j] = cause[j]

\* An owner never has more live jobs than its limit, counting the starts under
\* way, which may start jobs themselves (start, activeJobCount).
LimitHolds ==
  \A o \in Owners : Cardinality({j \in Jobs : Owner[j] = o /\ status[j] \in Active \cup {"starting"}})
                       <= MaxConcurrentJobsPerOwner

\* What the limit rests on: the calls on the stack are the jobs that are
\* starting, and a live job has a record.
StarterInv ==
  /\ \A i \in 1 .. Len(starters) : status[starters[i]] = "starting"
  /\ \A i, k \in 1 .. Len(starters) : starters[i] = starters[k] => i = k
  /\ \A j \in Jobs : status[j] = "starting" => \E i \in 1 .. Len(starters) : starters[i] = j
  /\ \A j \in Jobs : status[j] \in Active => j \in store
  /\ \A j \in store : status[j] \in Active \cup Terminal

\* Idle release stays blocked until the producer itself reported: a forced
\* settlement or a rejected promise does not free its resources (holdProducer).
HoldUntilReported ==
  \A j \in Jobs : (status[j] \notin {"new", "thrown"} /\ producer[j] \in {"pending", "rejected"}) => j \in holds

\* No wait stays registered with a settled job (settle, waitJob).
NobodyStranded == \A w \in Waits : waiting[w] \in Jobs => ~isTerminal(waiting[w])

\* When a teardown has returned nothing of its owner, or of the registry, is
\* left in the store (disposeOwned, disposeAll, the checks of start).
TornDown ==
  \A t \in Teardowns : teardown[t] = "done" => {j \in store : t = "service" \/ Owner[j] = t} = {}

\* What TornDown rests on: a teardown that waits has taken all that its scope
\* has in the store, and nothing is being started there any more.
TeardownInv ==
  /\ closed <=> teardown["service"] # "no"
  /\ \A t \in Teardowns : teardown[t] = "waiting" =>
       {j \in store : t = "service" \/ Owner[j] = t} \subseteq captured[t]
  /\ \A i \in 1 .. Len(starters) : MayOwn(starters[i])

\* The registry's invariant: every step of every actor keeps output, starts,
\* holds, waits and teardowns consistent with the records.
JobsInv ==
  /\ TypeOK /\ PumpInv /\ SettleInv /\ RingInv /\ OutputAccounted /\ RingBounded
  /\ StarterInv /\ HoldUntilReported /\ NobodyStranded /\ TeardownInv /\ TornDown

\* Settlement is final and cuts nothing off: one outcome, after all output, and
\* with what the model has not read.
NothingCutOff == [][UnreadKept /\ SettledWithAllOutput /\ OneOutcome]_vars

\* A job whose producer is done gets settled (producerDone, the pump's until).
ProducerIsHeard == \A j \in Jobs : producer[j] # "pending" ~> isTerminal(j)

\* A teardown returns, also when a cancel throws or another teardown and
\* removals overtake it (disposeOwned, disposeAll).
TeardownReturns == \A t \in Teardowns : teardown[t] = "waiting" ~> teardown[t] = "done"

\* Every producer that reports is heard and every teardown returns.
JobsSettle == ProducerIsHeard /\ TeardownReturns
=============================================================================
