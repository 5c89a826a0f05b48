--------------------------- MODULE AgentDriverProofs ---------------------------
(***************************************************************************)
(* Proofs about AgentDriver, for every set of messages and, where a        *)
(* theorem does not say otherwise, whatever the observers do: the types,   *)
(* one activity with a balanced log and one prompt per turn, the quiet of  *)
(* a detached agent, parked input and owed wakes.  One inductive invariant *)
(* for each; the later ones rest on the earlier ones.                      *)
(***************************************************************************)
EXTENDS AgentDriver, FiniteSetTheorems, TLAPS

(***************************************************************************)
(* The inbox as sequences                                                  *)
(***************************************************************************)

\* What an append adds.
LEMMA Appended ==
  ASSUME NEW S, NEW s \in Seq(S), NEW m \in S
  PROVE  /\ Append(s, m) \in Seq(S)
         /\ Elems(Append(s, m)) = Elems(s) \cup {m}
         /\ Len(Append(s, m)) = Len(s) + 1
         /\ \A i \in 1..Len(s) : Append(s, m)[i] = s[i]
         /\ Append(s, m)[Len(s) + 1] = m
<1>1. Append(s, m) \in Seq(S) /\ Len(Append(s, m)) = Len(s) + 1 /\ Len(s) \in Nat
  OBVIOUS
<1>2. \A i \in 1..Len(s) : Append(s, m)[i] = s[i]
  OBVIOUS
<1>3. Append(s, m)[Len(s) + 1] = m
  OBVIOUS
<1>4. DOMAIN s = 1..Len(s) /\ DOMAIN Append(s, m) = 1..(Len(s) + 1)
  BY <1>1
<1>5. ASSUME NEW x \in Elems(Append(s, m)) PROVE x \in Elems(s) \cup {m}
  <2>1. PICK i \in 1..(Len(s) + 1) : x = Append(s, m)[i]
    BY <1>4 DEF Elems
  <2>2. CASE i = Len(s) + 1
    BY <1>3, <2>1, <2>2
  <2>3. CASE i \in 1..Len(s)
    BY <1>2, <1>4, <2>1, <2>3 DEF Elems
  <2>. QED
    BY <1>1, <2>2, <2>3
<1>6. ASSUME NEW x \in Elems(s) \cup {m} PROVE x \in Elems(Append(s, m))
  <2>1. CASE x = m
    BY <1>1, <1>3, <1>4, <2>1 DEF Elems
  <2>2. CASE x \in Elems(s)
    <3>1. PICK i \in 1..Len(s) : x = s[i]
      BY <1>4, <2>2 DEF Elems
    <3>2. i \in 1..(Len(s) + 1) /\ x = Append(s, m)[i]
      BY <1>1, <1>2, <3>1
    <3>. QED
      BY <1>4, <3>2 DEF Elems
  <2>. QED
    BY <2>1, <2>2
<1>. QED
  BY <1>1, <1>2, <1>3, <1>5, <1>6

\* The empty inbox.
LEMMA EmptyElems == Elems(<<>>) = {}
BY DEF Elems

\* A claimed prompt is the head, and the rest stays.
LEMMA Claimed ==
  ASSUME NEW S, NEW s \in Seq(S), s # <<>>
  PROVE  /\ Head(s) \in Elems(s) /\ Head(s) \in S /\ Tail(s) \in Seq(S)
         /\ Elems(s) = {Head(s)} \cup Elems(Tail(s))
         /\ Len(s) >= 1 /\ Len(Tail(s)) = Len(s) - 1 /\ Head(s) = s[1]
         /\ \A i \in 1..(Len(s) - 1) : Tail(s)[i] = s[i + 1]
<1>1. Len(s) \in Nat /\ Len(s) >= 1 /\ DOMAIN s = 1..Len(s)
  OBVIOUS
<1>2. Tail(s) \in Seq(S) /\ Len(Tail(s)) = Len(s) - 1 /\ Head(s) = s[1] /\ Head(s) \in S
  BY <1>1
<1>3. \A i \in 1..(Len(s) - 1) : Tail(s)[i] = s[i + 1]
  BY <1>1, <1>2
<1>4. DOMAIN Tail(s) = 1..(Len(s) - 1)
  BY <1>2
<1>5. Head(s) \in Elems(s)
  BY <1>1, <1>2 DEF Elems
<1>6. ASSUME NEW x \in Elems(s) PROVE x \in {Head(s)} \cup Elems(Tail(s))
  <2>1. PICK i \in 1..Len(s) : x = s[i]
    BY <1>1 DEF Elems
  <2>2. CASE i = 1
    BY <1>2, <2>1, <2>2
  <2>3. CASE i # 1
    <3>1. i - 1 \in 1..(Len(s) - 1) /\ (i - 1) + 1 = i
      BY <1>1, <2>3
    <3>2. x = Tail(s)[i - 1]
      BY <1>3, <2>1, <3>1
    <3>. QED
      BY <1>4, <3>1, <3>2 DEF Elems
  <2>. QED
    BY <2>2, <2>3
<1>7. ASSUME NEW x \in Elems(Tail(s)) PROVE x \in Elems(s)
  <2>1. PICK i \in 1..(Len(s) - 1) : x = Tail(s)[i]
    BY <1>4 DEF Elems
  <2>2. i + 1 \in 1..Len(s) /\ x = s[i + 1]
    BY <1>1, <1>3, <2>1
  <2>. QED
    BY <1>1, <2>2 DEF Elems
<1>. QED
  BY <1>1, <1>2, <1>3, <1>5, <1>6, <1>7

\* A removal takes out one position and keeps every other message.
LEMMA Removed ==
  ASSUME NEW S, NEW s \in Seq(S), NEW m
  PROVE  /\ Without(s, m) \in Seq(S)
         /\ Elems(s) \ {m} \subseteq Elems(Without(s, m))
         /\ Elems(Without(s, m)) \subseteq Elems(s)
         /\ (\A i, j \in DOMAIN s : s[i] = s[j] => i = j) =>
              LET w == Without(s, m)
              IN \A i, j \in DOMAIN w : w[i] = w[j] => i = j
<1>1. CASE m \notin Elems(s)
  BY <1>1 DEF Without
<1>2. CASE m \in Elems(s)
  <2>. DEFINE k == CHOOSE k \in DOMAIN s : s[k] = m
              w == Spliced(s, k)
  <2>1. Len(s) \in Nat /\ DOMAIN s = 1..Len(s) /\ \A i \in 1..Len(s) : s[i] \in S
    OBVIOUS
  <2>2. \E i \in DOMAIN s : s[i] = m
    BY <1>2 DEF Elems
  <2>3. k \in 1..Len(s) /\ s[k] = m
    BY <2>1, <2>2
  <2>4. Without(s, m) = w
    BY <1>2 DEF Without
  <2>. HIDE DEF k
  <2>5. DOMAIN w = 1..(Len(s) - 1)
    BY DEF Spliced
  <2>6. \A i \in 1..(Len(s) - 1) : w[i] = IF i < k THEN s[i] ELSE s[i + 1]
    BY DEF Spliced
  <2>7. w \in Seq(S)
    <3>1. \A i \in 1..(Len(s) - 1) : w[i] \in S
      BY <2>1, <2>3, <2>6
    <3>2. w = [i \in 1..(Len(s) - 1) |-> IF i < k THEN s[i] ELSE s[i + 1]] /\ Len(s) - 1 \in Nat
      BY <2>1, <2>3 DEF Spliced
    <3>. HIDE DEF w
    <3>. QED
      BY <2>5, <3>1, <3>2
  <2>. HIDE DEF w
  <2>8. ASSUME NEW x \in Elems(s) \ {m} PROVE x \in Elems(w)
    <3>1. PICK i \in 1..Len(s) : x = s[i]
      BY <2>1, <2>8 DEF Elems
    <3>2. i # k
      BY <2>3, <2>8, <3>1
    <3>3. CASE i < k
      <4>1. i \in 1..(Len(s) - 1) /\ w[i] = s[i]
        BY <2>1, <2>3, <2>6, <3>3
      <4>. QED
        BY <2>5, <3>1, <4>1 DEF Elems
    <3>4. CASE i > k
      <4>1. i - 1 \in 1..(Len(s) - 1) /\ ~(i - 1 < k) /\ (i - 1) + 1 = i
        BY <2>1, <2>3, <3>4
      <4>2. w[i - 1] = s[i]
        BY <2>6, <4>1
      <4>. QED
        BY <2>5, <3>1, <4>1, <4>2 DEF Elems
    <3>. QED
      BY <2>1, <2>3, <3>2, <3>3, <3>4
  <2>9. ASSUME NEW x \in Elems(w) PROVE x \in Elems(s)
    <3>1. PICK i \in 1..(Len(s) - 1) : x = w[i]
      BY <2>5 DEF Elems
    <3>2. i \in 1..Len(s) /\ i + 1 \in 1..Len(s) /\ (x = s[i] \/ x = s[i + 1])
      BY <2>1, <2>6, <3>1
    <3>. QED
      BY <2>1, <3>2 DEF Elems
  <2>10. ASSUME \A i, j \in DOMAIN s : s[i] = s[j] => i = j,
                NEW i \in 1..(Len(s) - 1), NEW j \in 1..(Len(s) - 1), w[i] = w[j]
         PROVE  i = j
    BY <2>1, <2>3, <2>6, <2>10
  <2>. QED
    BY <2>4, <2>5, <2>7, <2>8, <2>9, <2>10
<1>. QED
  BY <1>1, <1>2

(***************************************************************************)
(* Types                                                                   *)
(***************************************************************************)

\* What a claim takes.
LEMMA ClaimType ==
  ASSUME TypeInbox
  PROVE  /\ Steps = Elems(nextStep) /\ Steps \subseteq Messages
         /\ Prompt \subseteq Elems(nextTurn) /\ Prompt \subseteq Messages
         /\ Prompt # {} => first /\ nextTurn # <<>> /\ Prompt = {Head(nextTurn)}
         /\ first /\ nextTurn # <<>> => Prompt = {Head(nextTurn)}
<1>1. nextTurn \in Seq(Messages) /\ nextStep \in Seq(Messages)
  BY DEF TypeInbox
<1>2. Elems(nextStep) \subseteq Messages /\ Elems(nextTurn) \subseteq Messages
  BY <1>1 DEF Elems
<1>3. nextTurn # <<>> => Head(nextTurn) \in Elems(nextTurn)
  BY <1>1, Claimed
<1>. QED
  BY <1>2, <1>3 DEF Steps, Prompt

\* What the second splice of a claim leaves of the queued prompts.
LEMMA PromptTaken ==
  ASSUME TypeInbox, \E steps : ClaimPrompt(steps)
  PROVE  /\ nextTurn' \in Seq(Messages)
         /\ Elems(nextTurn) = Prompt \cup Elems(nextTurn')
         /\ (\A i, j \in DOMAIN nextTurn : nextTurn[i] = nextTurn[j] => i = j) =>
              /\ Prompt \cap Elems(nextTurn') = {}
              /\ \A i, j \in DOMAIN nextTurn' : nextTurn'[i] = nextTurn'[j] => i = j
<1>1. nextTurn \in Seq(Messages)
  BY DEF TypeInbox
<1>2. nextTurn' = IF Prompt = {} THEN nextTurn ELSE Tail(nextTurn)
  BY DEF ClaimPrompt
<1>3. CASE Prompt = {}
  BY <1>1, <1>2, <1>3
<1>4. CASE Prompt # {}
  <2>1. nextTurn # <<>> /\ Prompt = {Head(nextTurn)}
    BY <1>4, ClaimType
  <2>2. nextTurn' = Tail(nextTurn)
    BY <1>2, <1>4
  <2>3. /\ Len(nextTurn) >= 1 /\ Len(nextTurn) \in Nat /\ DOMAIN nextTurn = 1..Len(nextTurn)
        /\ DOMAIN nextTurn' = 1..(Len(nextTurn) - 1) /\ nextTurn' \in Seq(Messages)
    BY <1>1, <2>1, <2>2, Claimed
  <2>4. \A i \in 1..(Len(nextTurn) - 1) : nextTurn'[i] = nextTurn[i + 1]
    BY <1>1, <2>1, <2>2, Claimed
  <2>5. Head(nextTurn) = nextTurn[1] /\ Elems(nextTurn) = {Head(nextTurn)} \cup Elems(nextTurn')
    BY <1>1, <2>1, <2>2, Claimed
  <2>6. ASSUME \A i, j \in DOMAIN nextTurn : nextTurn[i] = nextTurn[j] => i = j
        PROVE  /\ Prompt \cap Elems(nextTurn') = {}
               /\ \A i, j \in DOMAIN nextTurn' : nextTurn'[i] = nextTurn'[j] => i = j
    <3>1. \A i \in 1..(Len(nextTurn) - 1) : nextTurn[i + 1] # nextTurn[1]
      BY <2>3, <2>6
    <3>2. Head(nextTurn) \notin Elems(nextTurn')
      BY <2>3, <2>4, <2>5, <3>1 DEF Elems
    <3>3. ASSUME NEW i \in 1..(Len(nextTurn) - 1), NEW j \in 1..(Len(nextTurn) - 1),
                 nextTurn'[i] = nextTurn'[j]
          PROVE  i = j
      <4>1. /\ i + 1 \in DOMAIN nextTurn /\ j + 1 \in DOMAIN nextTurn
            /\ nextTurn[i + 1] = nextTurn[j + 1]
        BY <2>3, <2>4, <3>3
      <4>2. i + 1 = j + 1
        BY <2>6, <4>1
      <4>. QED
        BY <4>2
    <3>. QED
      BY <2>1, <2>3, <3>2, <3>3
  <2>. QED
    BY <2>1, <2>3, <2>5, <2>6
<1>. QED
  BY <1>3, <1>4

\* Every step keeps the stages.
LEMMA TypeStagesNext ==
  ASSUME TypeStages, [Next]_vars
  PROVE  TypeStages'
<1>. USE DEF inbox, waiting, turnState, history, ends
<1>1. ASSUME NEW m \in Messages, NEW target \in {"next-turn", "next-step"}, Send(m, target)
       PROVE  TypeStages'
  BY <1>1 DEF Send, TypeStages
<1>2. ASSUME NEW keepInbox \in BOOLEAN, Cancel(keepInbox)
       PROVE  TypeStages'
  BY <1>2 DEF Cancel, CancelAgent, CancelPhase, TypeStages
<1>3. ASSUME NEW idleOnly \in BOOLEAN, Dispose(idleOnly)
       PROVE  TypeStages'
  BY <1>3 DEF Dispose, CancelAgent, CancelPhase, TypeStages
<1>4. CASE SendWakes
  BY <1>4 DEF SendWakes, WakeDriver, StartDriver, Latches, TypeStages
<1>5. CASE MaintenanceEnds
  BY <1>5 DEF MaintenanceEnds, StartDriver, TypeStages
<1>6. CASE TurnStarts
  BY <1>6 DEF TurnStarts, TypeStages
<1>7. CASE StepProposed \/ ClaimEnds
  BY <1>7 DEF StepProposed, ClaimEnds, ClaimSteps, ClaimPrompt, Leave, TypeStages
<1>8. ASSUME NEW empty \in BOOLEAN, PreStepEnters(empty)
       PROVE  TypeStages'
  BY <1>8 DEF PreStepEnters, Leave, TypeStages
<1>9. ASSUME NEW stepEnd \in {"none", "completed", "max-tokens"}, StepEnds(stepEnd)
       PROVE  TypeStages'
  BY <1>9 DEF StepEnds, Sticky, TypeStages
<1>10. CASE StepCloses
  BY <1>10 DEF StepCloses, Leave, TypeStages
<1>11. CASE StoppingSettles
  BY <1>11 DEF StoppingSettles, Leave, TypeStages
<1>12. CASE TurnReturns
  BY <1>12 DEF TurnReturns, TypeStages
<1>13. CASE DriverIdle
  BY <1>13 DEF DriverIdle, TypeStages
<1>14. CASE DriverExits
  BY <1>14 DEF DriverExits, WakeDriver, StartDriver, Latches, TypeStages
<1>15. CASE WaiterResumes
  BY <1>15 DEF WaiterResumes, TypeStages
<1>16. CASE
       \/ MaintenanceStarts \/ WhenIdle \/ HostCloses \/ PreStepThrows
       \/ PreStepRejects \/ StepThrows \/ TurnFailed \/ Detach
       \/ \E m \in Messages : Inject(m)
       \/ \E m \in Messages : Remove(m)
  BY <1>16 DEF Inject, Remove, MaintenanceStarts, WhenIdle, HostCloses,
    PreStepThrows, PreStepRejects, StepThrows, TurnFailed, Detach, Leave,
    TypeStages
<1>17. CASE UNCHANGED vars
  BY <1>17 DEF vars, TypeStages
<1>. QED
  BY <1>1, <1>2, <1>3, <1>4, <1>5, <1>6, <1>7, <1>8, <1>9, <1>10, <1>11,
     <1>12, <1>13, <1>14, <1>15, <1>16, <1>17, Zenon
  DEF Next, Operations, Driver, StepRuns, PreStepSettles

\* Every step keeps the flags.
LEMMA TypeFlagsNext ==
  ASSUME TypeFlags, [Next]_vars
  PROVE  TypeFlags'
<1>. USE DEF inbox, waiting, turnState, history, ends
<1>1. ASSUME NEW m \in Messages, NEW target \in {"next-turn", "next-step"}, Send(m, target)
       PROVE  TypeFlags'
  BY <1>1, Zenon DEF Send, TypeFlags
<1>2. ASSUME NEW m \in Messages, Inject(m)
       PROVE  TypeFlags'
  BY <1>2, Zenon DEF Inject, TypeFlags
<1>3. ASSUME NEW m \in Messages, Remove(m)
       PROVE  TypeFlags'
  BY <1>3, Zenon DEF Remove, TypeFlags
<1>4. ASSUME NEW keepInbox \in BOOLEAN, Cancel(keepInbox)
       PROVE  TypeFlags'
  BY <1>4, Zenon DEF Cancel, CancelAgent, CancelPhase, TypeFlags
<1>5. CASE MaintenanceStarts
  BY <1>5, Zenon DEF MaintenanceStarts, TypeFlags
<1>6. CASE WhenIdle
  BY <1>6, Zenon DEF WhenIdle, TypeFlags
<1>7. CASE HostCloses
  BY <1>7, Zenon DEF HostCloses, TypeFlags
<1>8. ASSUME NEW idleOnly \in BOOLEAN, Dispose(idleOnly)
       PROVE  TypeFlags'
  BY <1>8, Zenon DEF Dispose, CancelAgent, CancelPhase, TypeFlags
<1>9. CASE SendWakes
  BY <1>9, Zenon DEF SendWakes, WakeDriver, StartDriver, Latches, TypeFlags
<1>10. CASE MaintenanceEnds
  BY <1>10, Zenon DEF MaintenanceEnds, StartDriver, TypeFlags
<1>11. CASE TurnStarts
  BY <1>11, Zenon DEF TurnStarts, TypeFlags
<1>12. CASE StepProposed \/ ClaimEnds
  BY <1>12, Zenon DEF StepProposed, ClaimEnds, TypeFlags
<1>13. ASSUME NEW empty \in BOOLEAN, PreStepEnters(empty)
        PROVE  TypeFlags'
  BY <1>13, Zenon DEF PreStepEnters, Leave, TypeFlags
<1>14. ASSUME NEW stepEnd \in {"none", "completed", "max-tokens"}, StepEnds(stepEnd)
        PROVE  TypeFlags'
  BY <1>14, Zenon DEF StepEnds, Sticky, TypeFlags
<1>15. CASE StepCloses
  BY <1>15, Zenon DEF StepCloses, Leave, TypeFlags
<1>16. CASE StoppingSettles
  BY <1>16, Zenon DEF StoppingSettles, Leave, TypeFlags
<1>17. CASE TurnReturns
  BY <1>17, Zenon DEF TurnReturns, TypeFlags
<1>18. CASE TurnFailed
  BY <1>18, Zenon DEF TurnFailed, TypeFlags
<1>19. CASE DriverIdle
  BY <1>19, Zenon DEF DriverIdle, TypeFlags
<1>20. CASE DriverExits
  BY <1>20, Zenon DEF DriverExits, WakeDriver, StartDriver, Latches, TypeFlags
<1>21. CASE WaiterResumes
  BY <1>21, Zenon DEF WaiterResumes, TypeFlags
<1>22. CASE
       \/ PreStepThrows \/ PreStepRejects \/ StepThrows \/ Detach
  BY <1>22, Zenon DEF PreStepThrows, PreStepRejects, StepThrows, Detach,
    Leave, TypeFlags
<1>23. CASE UNCHANGED vars
  BY <1>23, Zenon DEF vars, TypeFlags
<1>. QED
  BY <1>1, <1>2, <1>3, <1>4, <1>5, <1>6, <1>7, <1>8, <1>9, <1>10, <1>11,
     <1>12, <1>13, <1>14, <1>15, <1>16, <1>17, <1>18, <1>19, <1>20, <1>21,
     <1>22, <1>23, Zenon
  DEF Next, Operations, Driver, StepRuns, PreStepSettles

\* Every step keeps the types of the inbox and of the history.
LEMMA TypeInboxNext ==
  ASSUME TypeInbox, [Next]_vars
  PROVE  TypeInbox'
<1>. USE DEF inbox, waiting, turnState, history, ends
<1>1. ASSUME NEW m \in Messages, NEW target \in {"next-turn", "next-step"}, Send(m, target)
       PROVE  TypeInbox'
  <2>1. Append(nextTurn, m) \in Seq(Messages) /\ Append(nextStep, m) \in Seq(Messages)
    BY Appended DEF TypeInbox
  <2>2. nextTurn' \in Seq(Messages) /\ nextStep' \in Seq(Messages)
    BY <1>1, <2>1 DEF Send, TypeInbox
  <2>. QED
    BY <1>1, <2>2 DEF Send, TypeInbox
<1>2. ASSUME NEW m \in Messages, Inject(m)
       PROVE  TypeInbox'
  BY <1>2, Appended DEF Inject, TypeInbox
<1>3. ASSUME NEW m \in Messages, Remove(m)
       PROVE  TypeInbox'
  BY <1>3, Removed DEF Remove, TypeInbox
<1>4. ASSUME NEW keepInbox \in BOOLEAN, Cancel(keepInbox)
       PROVE  TypeInbox'
  <2>1. Pending \subseteq Messages
    BY DEF Pending, Elems, TypeInbox
  <2>0. nextTurn' \in {nextTurn, <<>>} /\ nextStep' \in {nextStep, <<>>}
    BY <1>4 DEF Cancel, CancelAgent
  <2>2. nextTurn' \in Seq(Messages) /\ nextStep' \in Seq(Messages)
    <3>1. nextTurn \in Seq(Messages) /\ nextStep \in Seq(Messages)
      BY DEF TypeInbox
    <3>2. <<>> \in Seq(Messages)
      OBVIOUS
    <3>. QED
      BY <2>0, <3>1, <3>2, Zenon
  <2>3. parked' = Pending \/ parked' = {}
    BY <1>4 DEF Cancel, CancelAgent
  <2>. QED
    BY <1>4, <2>1, <2>2, <2>3 DEF Cancel, CancelAgent, TypeInbox
<1>5. ASSUME NEW idleOnly \in BOOLEAN, Dispose(idleOnly)
       PROVE  TypeInbox'
  <2>1. Pending \subseteq Messages
    BY DEF Pending, Elems, TypeInbox
  <2>0. nextTurn' \in {nextTurn, <<>>} /\ nextStep' \in {nextStep, <<>>}
    BY <1>5 DEF Dispose, CancelAgent
  <2>2. nextTurn' \in Seq(Messages) /\ nextStep' \in Seq(Messages)
    <3>1. nextTurn \in Seq(Messages) /\ nextStep \in Seq(Messages)
      BY DEF TypeInbox
    <3>2. <<>> \in Seq(Messages)
      OBVIOUS
    <3>. QED
      BY <2>0, <3>1, <3>2, Zenon
  <2>3. parked' = Pending \/ parked' = {}
    BY <1>5 DEF Dispose, CancelAgent
  <2>. QED
    BY <1>5, <2>1, <2>2, <2>3 DEF Dispose, CancelAgent, TypeInbox
<1>6. CASE SendWakes
  BY <1>6 DEF SendWakes, WakeDriver, StartDriver, Latches, TypeInbox
<1>7. CASE MaintenanceEnds
  BY <1>7 DEF MaintenanceEnds, StartDriver, TypeInbox
<1>8. ASSUME NEW steps, steps \subseteq Messages, ClaimPrompt(steps), UNCHANGED <<nextStep, sent, parked>>
      PROVE  TypeInbox'
  <2>1. Prompt \subseteq Messages /\ nextTurn' \in Seq(Messages)
    BY <1>8, ClaimType, PromptTaken
  <2>2. /\ pendingWakes' = pendingWakes \ (steps \cup Prompt) /\ owed' = owed \ Prompt
        /\ claimed' = claimed \cup Prompt /\ prompts' = prompts \cup Prompt
        /\ batch' = steps \cup Prompt
    BY <1>8 DEF ClaimPrompt
  <2>. QED
    BY <1>8, <2>1, <2>2 DEF TypeInbox
<1>12. CASE ClaimEnds
  <2>1. batch \subseteq Messages
    BY DEF TypeInbox
  <2>2. ClaimPrompt(batch) /\ UNCHANGED <<nextStep, sent, parked>>
    BY <1>12 DEF ClaimEnds
  <2>. QED
    BY <1>8, <2>1, <2>2, Zenon
<1>13. CASE StepProposed
  <2>1. CASE abort # "live"
    BY <1>13, <2>1 DEF StepProposed, Leave, TypeInbox
  <2>2. CASE abort = "live" /\ Steps # {}
    <3>1. /\ nextStep' = <<>> /\ owed' = owed \ Steps /\ claimed' = claimed \cup Steps
          /\ batch' = Steps /\ UNCHANGED <<nextTurn, pendingWakes, prompts, sent, parked>>
      BY <1>13, <2>2 DEF StepProposed, ClaimSteps
    <3>2. Steps \subseteq Messages /\ <<>> \in Seq(Messages)
      BY ClaimType
    <3>. QED
      BY <3>1, <3>2 DEF TypeInbox
  <2>3. CASE abort = "live" /\ Steps = {}
    <3>1. ClaimPrompt({}) /\ UNCHANGED <<nextStep, sent, parked>>
      BY <1>13, <2>3 DEF StepProposed
    <3>. QED
      BY <1>8, <3>1
  <2>. QED
    BY <2>1, <2>2, <2>3
<1>9. CASE DriverExits
  BY <1>9 DEF DriverExits, WakeDriver, StartDriver, Latches, TypeInbox
<1>10. CASE
       \/ MaintenanceStarts \/ WhenIdle \/ HostCloses \/ TurnStarts
       \/ PreStepThrows \/ PreStepRejects \/ StepThrows \/ StepCloses
       \/ StoppingSettles \/ TurnReturns \/ TurnFailed \/ DriverIdle
       \/ WaiterResumes \/ Detach
       \/ \E empty \in BOOLEAN : PreStepEnters(empty)
       \/ \E stepEnd \in {"none", "completed", "max-tokens"} : StepEnds(stepEnd)
  BY <1>10 DEF MaintenanceStarts, WhenIdle, HostCloses, TurnStarts,
    PreStepThrows, PreStepRejects, PreStepEnters, StepThrows, StepEnds,
    StepCloses, StoppingSettles, TurnReturns, TurnFailed, DriverIdle,
    WaiterResumes, Detach, Leave, TypeInbox
<1>11. CASE UNCHANGED vars
  BY <1>11 DEF vars, TypeInbox
<1>. QED
  BY <1>1, <1>2, <1>3, <1>4, <1>5, <1>6, <1>7, <1>9, <1>10, <1>11, <1>12,
     <1>13, Zenon
  DEF Next, Operations, Driver, StepRuns, PreStepSettles

\* Types are inductive.
LEMMA TypeNext == ASSUME TypeOK, [Next]_vars PROVE TypeOK'
BY TypeStagesNext, TypeFlagsNext, TypeInboxNext DEF TypeOK

(***************************************************************************)
(* One activity at a time                                                  *)
(***************************************************************************)

\* A driver runs exactly while the phase is running, with a balanced log.
LEMMA OneActivityNext ==
  ASSUME TypeOK, OneActivity, [Next]_vars
  PROVE  OneActivity'
<1>. USE DEF inbox, waiting, turnState, history, ends
<1>0. TypeStages
  BY DEF TypeOK
<1>1. CASE MaintenanceStarts
  BY <1>0, <1>1 DEF MaintenanceStarts, OneActivity
<1>2. CASE SendWakes
  BY <1>0, <1>2 DEF SendWakes, WakeDriver, StartDriver, Latches, OneActivity
<1>3. CASE MaintenanceEnds
  BY <1>0, <1>3 DEF MaintenanceEnds, StartDriver, OneActivity
<1>4. CASE TurnStarts
  BY <1>0, <1>4 DEF TurnStarts, OneActivity
<1>5. CASE StepProposed \/ ClaimEnds
  BY <1>0, <1>5 DEF StepProposed, ClaimEnds, ClaimSteps, ClaimPrompt, Leave, OneActivity
<1>6. ASSUME NEW empty \in BOOLEAN, PreStepEnters(empty)
       PROVE  OneActivity'
  BY <1>0, <1>6 DEF PreStepEnters, Leave, OneActivity
<1>7. ASSUME NEW stepEnd \in {"none", "completed", "max-tokens"}, StepEnds(stepEnd)
       PROVE  OneActivity'
  BY <1>0, <1>7 DEF StepEnds, Sticky, OneActivity
<1>8. CASE StepCloses
  BY <1>0, <1>8 DEF StepCloses, Leave, OneActivity
<1>9. CASE StoppingSettles
  BY <1>0, <1>9 DEF StoppingSettles, Leave, OneActivity
<1>10. CASE TurnReturns
  BY <1>0, <1>10 DEF TurnReturns, OneActivity
<1>11. CASE TurnFailed
  BY <1>0, <1>11 DEF TurnFailed, OneActivity
<1>12. CASE DriverIdle
  BY <1>0, <1>12 DEF DriverIdle, OneActivity
<1>13. CASE DriverExits
  BY <1>0, <1>13 DEF DriverExits, WakeDriver, StartDriver, Latches,
    OneActivity
<1>14. CASE
       \/ WhenIdle \/ HostCloses \/ PreStepThrows \/ PreStepRejects
       \/ StepThrows \/ WaiterResumes \/ Detach
       \/ \E m \in Messages, target \in {"next-turn", "next-step"} : Send(m, target)
       \/ \E m \in Messages : Inject(m)
       \/ \E m \in Messages : Remove(m)
       \/ \E keepInbox \in BOOLEAN : Cancel(keepInbox)
       \/ \E idleOnly \in BOOLEAN : Dispose(idleOnly)
  BY <1>0, <1>14 DEF Send, Inject, Remove, Cancel, WhenIdle, HostCloses,
    Dispose, PreStepThrows, PreStepRejects, StepThrows, WaiterResumes, Detach,
    CancelAgent, CancelPhase, Leave, OneActivity
<1>15. CASE UNCHANGED vars
  BY <1>0, <1>15 DEF vars, OneActivity
<1>. QED
  BY <1>1, <1>2, <1>3, <1>4, <1>5, <1>6, <1>7, <1>8, <1>9, <1>10, <1>11,
     <1>12, <1>13, <1>14, <1>15, Zenon
  DEF Next, Operations, Driver, StepRuns, PreStepSettles

\* The first step of a turn takes the only prompt: once the turn has one, no
\* later step is the first.
PromptInv ==
  /\ \A x, y \in prompts : x = y
  /\ pc \in {"start", "opened", "claiming"} /\ first => prompts = {}
  /\ pc \in {"step", "stepped", "stopping"} => ~first

\* Every step keeps it.
LEMMA PromptNext ==
  ASSUME TypeOK, PromptInv, [Next]_vars
  PROVE  PromptInv'
<1>. USE DEF inbox, waiting, turnState, history, ends
<1>0. TypeStages /\ TypeFlags /\ TypeInbox
  BY DEF TypeOK
<1>1. CASE SendWakes
  BY <1>0, <1>1 DEF SendWakes, WakeDriver, StartDriver, Latches, PromptInv
<1>2. CASE MaintenanceEnds
  BY <1>0, <1>2 DEF MaintenanceEnds, StartDriver, PromptInv
<1>3. CASE TurnStarts
  BY <1>0, <1>3 DEF TurnStarts, PromptInv
<1>4. ASSUME NEW steps, ClaimPrompt(steps), pc \in {"opened", "claiming"}, UNCHANGED first
      PROVE  PromptInv'
  <2>1. prompts' = prompts \cup Prompt /\ pc' = "prestep"
    BY <1>4 DEF ClaimPrompt
  <2>2. CASE Prompt = {}
    BY <2>1, <2>2 DEF PromptInv
  <2>3. CASE Prompt # {}
    <3>1. first /\ Prompt = {Head(nextTurn)}
      BY <1>0, <2>3, ClaimType
    <3>2. prompts = {}
      BY <1>4, <3>1 DEF PromptInv
    <3>. QED
      BY <2>1, <3>1, <3>2 DEF PromptInv
  <2>. QED
    BY <2>2, <2>3
<1>13. CASE ClaimEnds
  BY <1>4, <1>13 DEF ClaimEnds
<1>14. CASE StepProposed
  <2>1. CASE abort # "live"
    BY <1>14, <2>1 DEF StepProposed, Leave, PromptInv
  <2>2. CASE abort = "live" /\ Steps # {}
    BY <1>14, <2>2 DEF StepProposed, ClaimSteps, PromptInv
  <2>3. CASE abort = "live" /\ Steps = {}
    BY <1>4, <1>14, <2>3 DEF StepProposed
  <2>. QED
    BY <2>1, <2>2, <2>3
<1>5. ASSUME NEW empty \in BOOLEAN, PreStepEnters(empty)
       PROVE  PromptInv'
  BY <1>0, <1>5 DEF PreStepEnters, Leave, PromptInv
<1>6. ASSUME NEW stepEnd \in {"none", "completed", "max-tokens"}, StepEnds(stepEnd)
       PROVE  PromptInv'
  BY <1>0, <1>6 DEF StepEnds, Sticky, PromptInv
<1>7. CASE StepCloses
  BY <1>0, <1>7 DEF StepCloses, Leave, PromptInv
<1>8. CASE StoppingSettles
  BY <1>0, <1>8 DEF StoppingSettles, Leave, PromptInv
<1>9. CASE TurnReturns
  BY <1>0, <1>9 DEF TurnReturns, PromptInv
<1>10. CASE DriverExits
  BY <1>0, <1>10 DEF DriverExits, WakeDriver, StartDriver, Latches, PromptInv
<1>11. CASE
       \/ MaintenanceStarts \/ WhenIdle \/ HostCloses \/ PreStepThrows
       \/ PreStepRejects \/ StepThrows \/ TurnFailed \/ DriverIdle
       \/ WaiterResumes \/ Detach
       \/ \E m \in Messages, target \in {"next-turn", "next-step"} : Send(m, target)
       \/ \E m \in Messages : Inject(m)
       \/ \E m \in Messages : Remove(m)
       \/ \E keepInbox \in BOOLEAN : Cancel(keepInbox)
       \/ \E idleOnly \in BOOLEAN : Dispose(idleOnly)
  BY <1>0, <1>11 DEF Send, Inject, Remove, Cancel, MaintenanceStarts,
    WhenIdle, HostCloses, Dispose, PreStepThrows, PreStepRejects, StepThrows,
    TurnFailed, DriverIdle, WaiterResumes, Detach, CancelAgent, CancelPhase,
    Leave, PromptInv
<1>12. CASE UNCHANGED vars
  BY <1>0, <1>12 DEF vars, PromptInv
<1>. QED
  BY <1>1, <1>2, <1>3, <1>5, <1>6, <1>7, <1>8, <1>9, <1>10, <1>11,
     <1>12, <1>13, <1>14, Zenon
  DEF Next, Operations, Driver, StepRuns, PreStepSettles

\* At most one prompt, as a count.
LEMMA PromptCount == PromptInv => OnePromptPerTurn
<1>. SUFFICES ASSUME PromptInv PROVE Cardinality(prompts) <= 1
  BY DEF OnePromptPerTurn
<1>1. CASE prompts = {}
  BY <1>1, FS_EmptySet
<1>2. CASE prompts # {}
  <2>1. PICK x : x \in prompts
    BY <1>2
  <2>2. \A y \in prompts : y = x
    BY <2>1 DEF PromptInv
  <2>3. prompts = {x}
    BY <2>1, <2>2
  <2>. QED
    BY <2>3, FS_Singleton
<1>. QED
  BY <1>1, <1>2

(***************************************************************************)
(* Whom nothing wakes                                                      *)
(***************************************************************************)

\* A settled activity is over, and once a teardown has its answer nothing is
\* under way that could start another.
QuietInv ==
  /\ done => phase = "idle"
  /\ life = "detached" \/ (life = "disposing" /\ waiter = "returned") =>
       phase = "idle" /\ sending = "none" /\ epilogue = "none"

\* Every step keeps it.
LEMMA QuietNext ==
  ASSUME TypeOK, OneActivity, QuietInv, [Next]_vars
  PROVE  QuietInv'
<1>. USE DEF inbox, waiting, turnState, history, ends
<1>0. TypeStages /\ TypeFlags /\ (phase = "idle" => pc = "none")
  BY DEF TypeOK, OneActivity
<1>1. ASSUME NEW m \in Messages, NEW target \in {"next-turn", "next-step"}, Send(m, target)
       PROVE  QuietInv'
  BY <1>0, <1>1 DEF Send, QuietInv, JobBoundary, Converged
<1>2. CASE MaintenanceStarts
  BY <1>0, <1>2 DEF MaintenanceStarts, QuietInv, JobBoundary, Converged
<1>3. CASE WhenIdle
  BY <1>0, <1>3 DEF WhenIdle, QuietInv, JobBoundary, Converged
<1>4. ASSUME NEW idleOnly \in BOOLEAN, Dispose(idleOnly)
       PROVE  QuietInv'
  BY <1>0, <1>4 DEF Dispose, CancelAgent, CancelPhase, QuietInv, JobBoundary,
    Converged
<1>5. CASE SendWakes
  BY <1>0, <1>5 DEF SendWakes, WakeDriver, StartDriver, Latches, QuietInv,
    JobBoundary, Converged
<1>6. CASE MaintenanceEnds
  BY <1>0, <1>6 DEF MaintenanceEnds, StartDriver, QuietInv, JobBoundary,
    Converged
<1>7. CASE DriverIdle
  BY <1>0, <1>7 DEF DriverIdle, QuietInv, JobBoundary, Converged
<1>8. CASE DriverExits
  BY <1>0, <1>8 DEF DriverExits, WakeDriver, StartDriver, Latches, QuietInv,
    JobBoundary, Converged
<1>9. CASE WaiterResumes
  BY <1>0, <1>9 DEF WaiterResumes, QuietInv, JobBoundary, Converged
<1>10. CASE Detach
  BY <1>0, <1>10 DEF Detach, QuietInv, JobBoundary, Converged
<1>11. CASE
       \/ HostCloses \/ TurnStarts \/ StepProposed \/ ClaimEnds \/ PreStepThrows
       \/ PreStepRejects \/ StepThrows \/ StepCloses \/ StoppingSettles
       \/ TurnReturns \/ TurnFailed
       \/ \E m \in Messages : Inject(m)
       \/ \E m \in Messages : Remove(m)
       \/ \E keepInbox \in BOOLEAN : Cancel(keepInbox)
       \/ \E empty \in BOOLEAN : PreStepEnters(empty)
       \/ \E stepEnd \in {"none", "completed", "max-tokens"} : StepEnds(stepEnd)
  BY <1>0, <1>11 DEF Inject, Remove, Cancel, HostCloses, TurnStarts,
    StepProposed, ClaimEnds, PreStepThrows, PreStepRejects, PreStepEnters,
    StepThrows, StepEnds, StepCloses, StoppingSettles, TurnReturns, TurnFailed,
    CancelAgent, CancelPhase, QuietInv, JobBoundary, Converged
<1>12. CASE UNCHANGED vars
  BY <1>0, <1>12 DEF vars, QuietInv, JobBoundary, Converged
<1>. QED
  BY <1>1, <1>2, <1>3, <1>4, <1>5, <1>6, <1>7, <1>8, <1>9, <1>10, <1>11,
     <1>12, Zenon
  DEF Next, Operations, Driver, StepRuns, PreStepSettles

(***************************************************************************)
(* The inbox                                                               *)
(***************************************************************************)

\* A message is queued in one place, and one that was claimed is queued no more.
InboxInv ==
  /\ Pending \subseteq sent /\ claimed \subseteq sent
  /\ Pending \cap claimed = {}
  /\ Elems(nextTurn) \cap Elems(nextStep) = {}
  /\ \A i, j \in DOMAIN nextTurn : nextTurn[i] = nextTurn[j] => i = j

\* Every step keeps it.
LEMMA InboxNext ==
  ASSUME TypeOK, InboxInv, [Next]_vars
  PROVE  InboxInv'
<1>. USE DEF inbox, waiting, turnState, history, ends
<1>0. TypeInbox
  BY DEF TypeOK
<1>1. ASSUME NEW m \in Messages, NEW target \in {"next-turn", "next-step"}, Send(m, target)
       PROVE  InboxInv'
  <2>0. nextTurn \in Seq(Messages) /\ nextStep \in Seq(Messages)
    BY <1>0 DEF TypeInbox
  <2>1. m \notin sent /\ sent' = sent \cup {m} /\ claimed' = claimed
    BY <1>1 DEF Send
  <2>2. m \notin Elems(nextTurn) /\ m \notin Elems(nextStep) /\ m \notin claimed
    BY <2>1 DEF InboxInv, Pending
  <2>3. CASE nextTurn' = Append(nextTurn, m) /\ nextStep' = nextStep
    <3>1. Elems(nextTurn') = Elems(nextTurn) \cup {m} /\ Elems(nextStep') = Elems(nextStep)
      BY <2>0, <2>3, Appended
    <3>2. /\ DOMAIN nextTurn' = 1..(Len(nextTurn) + 1) /\ DOMAIN nextTurn = 1..Len(nextTurn)
          /\ Len(nextTurn) \in Nat
      BY <2>0, <2>3
    <3>3. \A i \in 1..Len(nextTurn) : nextTurn'[i] = nextTurn[i] /\ nextTurn'[i] # m
      BY <2>0, <2>2, <2>3, <3>2, Appended DEF Elems
    <3>4. nextTurn'[Len(nextTurn) + 1] = m
      BY <2>0, <2>3, Appended
    <3>5. \A i, j \in DOMAIN nextTurn' : nextTurn'[i] = nextTurn'[j] => i = j
      BY <3>2, <3>3, <3>4 DEF InboxInv
    <3>. QED
      BY <2>1, <2>2, <3>1, <3>5 DEF InboxInv, Pending
  <2>4. CASE nextStep' = Append(nextStep, m) /\ nextTurn' = nextTurn
    <3>1. Elems(nextStep') = Elems(nextStep) \cup {m} /\ Elems(nextTurn') = Elems(nextTurn)
      BY <2>0, <2>4, Appended
    <3>. QED
      BY <2>1, <2>2, <2>4, <3>1 DEF InboxInv, Pending
  <2>. QED
    BY <1>1, <2>3, <2>4 DEF Send
<1>2. ASSUME NEW m \in Messages, Inject(m)
       PROVE  InboxInv'
  <2>0. nextStep \in Seq(Messages)
    BY <1>0 DEF TypeInbox
  <2>1. m \notin sent /\ sent' = sent \cup {m} /\ UNCHANGED <<claimed, nextTurn>>
    BY <1>2 DEF Inject
  <2>2. m \notin Elems(nextTurn) /\ m \notin Elems(nextStep) /\ m \notin claimed
    BY <2>1 DEF InboxInv, Pending
  <2>3. Elems(nextStep') = Elems(nextStep) \cup {m} /\ Elems(nextTurn') = Elems(nextTurn)
    BY <1>2, <2>0, <2>1, Appended DEF Inject
  <2>. QED
    BY <2>1, <2>2, <2>3 DEF InboxInv, Pending
<1>3. ASSUME NEW m \in Messages, Remove(m)
       PROVE  InboxInv'
  <2>1. nextTurn \in Seq(Messages) /\ nextStep \in Seq(Messages)
    BY <1>0 DEF TypeInbox
  <2>2. /\ nextTurn' = Without(nextTurn, m) /\ nextStep' = Without(nextStep, m)
        /\ UNCHANGED <<sent, claimed>>
    BY <1>3 DEF Remove
  <2>3. Elems(nextTurn') \subseteq Elems(nextTurn) /\ Elems(nextStep') \subseteq Elems(nextStep)
    BY <2>1, <2>2, Removed
  <2>4. \A i, j \in DOMAIN nextTurn' : nextTurn'[i] = nextTurn'[j] => i = j
    BY <2>1, <2>2, Removed DEF InboxInv
  <2>. QED
    BY <2>2, <2>3, <2>4 DEF InboxInv, Pending
<1>4. ASSUME NEW keepInbox \in BOOLEAN, Cancel(keepInbox)
       PROVE  InboxInv'
  <2>1. \/ nextTurn' = nextTurn /\ nextStep' = nextStep
        \/ nextTurn' = <<>> /\ nextStep' = <<>>
    BY <1>4 DEF Cancel, CancelAgent
  <2>2. UNCHANGED <<sent, claimed>>
    BY <1>4 DEF Cancel
  <2>3. CASE nextTurn' = nextTurn /\ nextStep' = nextStep
    BY <2>2, <2>3 DEF InboxInv, Pending
  <2>4. CASE nextTurn' = <<>> /\ nextStep' = <<>>
    <3>1. Elems(nextTurn') = {} /\ Elems(nextStep') = {} /\ DOMAIN nextTurn' = {}
      BY <2>4, EmptyElems
    <3>. QED
      BY <2>2, <3>1 DEF InboxInv, Pending
  <2>. QED
    BY <2>1, <2>3, <2>4
<1>5. ASSUME NEW idleOnly \in BOOLEAN, Dispose(idleOnly)
       PROVE  InboxInv'
  <2>1. \/ nextTurn' = nextTurn /\ nextStep' = nextStep
        \/ nextTurn' = <<>> /\ nextStep' = <<>>
    BY <1>5 DEF Dispose, CancelAgent
  <2>2. UNCHANGED <<sent, claimed>>
    BY <1>5 DEF Dispose
  <2>3. CASE nextTurn' = nextTurn /\ nextStep' = nextStep
    BY <2>2, <2>3 DEF InboxInv, Pending
  <2>4. CASE nextTurn' = <<>> /\ nextStep' = <<>>
    <3>1. Elems(nextTurn') = {} /\ Elems(nextStep') = {} /\ DOMAIN nextTurn' = {}
      BY <2>4, EmptyElems
    <3>. QED
      BY <2>2, <3>1 DEF InboxInv, Pending
  <2>. QED
    BY <2>1, <2>3, <2>4
<1>6. CASE SendWakes
  BY <1>0, <1>6 DEF SendWakes, WakeDriver, StartDriver, Latches, InboxInv,
    Pending
<1>7. CASE MaintenanceEnds
  BY <1>0, <1>7 DEF MaintenanceEnds, StartDriver, InboxInv, Pending
<1>8. ASSUME NEW steps, ClaimPrompt(steps), UNCHANGED <<nextStep, sent>>
      PROVE  InboxInv'
  <2>1. /\ Elems(nextTurn) = Prompt \cup Elems(nextTurn')
        /\ Prompt \cap Elems(nextTurn') = {}
        /\ \A i, j \in DOMAIN nextTurn' : nextTurn'[i] = nextTurn'[j] => i = j
    BY <1>0, <1>8, PromptTaken DEF InboxInv
  <2>2. claimed' = claimed \cup Prompt /\ UNCHANGED <<nextStep, sent>>
    BY <1>8 DEF ClaimPrompt
  <2>. QED
    BY <2>1, <2>2 DEF InboxInv, Pending
<1>12. CASE ClaimEnds
  BY <1>8, <1>12 DEF ClaimEnds
<1>13. CASE StepProposed
  <2>1. CASE abort # "live"
    BY <1>13, <2>1 DEF StepProposed, Leave, InboxInv, Pending
  <2>2. CASE abort = "live" /\ Steps # {}
    <3>1. nextStep' = <<>> /\ claimed' = claimed \cup Steps /\ UNCHANGED <<nextTurn, sent>>
      BY <1>13, <2>2 DEF StepProposed, ClaimSteps
    <3>2. Elems(nextStep') = {} /\ Steps = Elems(nextStep)
      BY <1>0, <3>1, EmptyElems, ClaimType
    <3>. QED
      BY <3>1, <3>2 DEF InboxInv, Pending
  <2>3. CASE abort = "live" /\ Steps = {}
    BY <1>8, <1>13, <2>3 DEF StepProposed
  <2>. QED
    BY <2>1, <2>2, <2>3
<1>9. CASE DriverExits
  BY <1>0, <1>9 DEF DriverExits, WakeDriver, StartDriver, Latches, InboxInv,
    Pending
<1>10. CASE
       \/ MaintenanceStarts \/ WhenIdle \/ HostCloses \/ TurnStarts
       \/ PreStepThrows \/ PreStepRejects \/ StepThrows \/ StepCloses
       \/ StoppingSettles \/ TurnReturns \/ TurnFailed \/ DriverIdle
       \/ WaiterResumes \/ Detach
       \/ \E empty \in BOOLEAN : PreStepEnters(empty)
       \/ \E stepEnd \in {"none", "completed", "max-tokens"} : StepEnds(stepEnd)
  BY <1>0, <1>10 DEF MaintenanceStarts, WhenIdle, HostCloses, TurnStarts,
    PreStepThrows, PreStepRejects, PreStepEnters, StepThrows, StepEnds,
    StepCloses, StoppingSettles, TurnReturns, TurnFailed, DriverIdle,
    WaiterResumes, Detach, Leave, InboxInv, Pending
<1>11. CASE UNCHANGED vars
  BY <1>0, <1>11 DEF vars, InboxInv, Pending
<1>. QED
  BY <1>1, <1>2, <1>3, <1>4, <1>5, <1>6, <1>7, <1>9, <1>10, <1>11, <1>12,
     <1>13, Zenon
  DEF Next, Operations, Driver, StepRuns, PreStepSettles

(***************************************************************************)
(* Owed wakes                                                              *)
(***************************************************************************)

\* A wake is owed to queued input of a live agent.
OwedInv ==
  /\ owed \subseteq Pending
  /\ life # "live" => owed = {}
  /\ abort = "disposed" => life # "live"

\* Every step keeps it.
LEMMA OwedNext ==
  ASSUME TypeOK, OwedInv, [Next]_vars
  PROVE  OwedInv'
<1>. USE DEF inbox, waiting, turnState, history, ends
<1>0. TypeInbox
  BY DEF TypeOK
<1>1. ASSUME NEW m \in Messages, NEW target \in {"next-turn", "next-step"}, Send(m, target)
       PROVE  OwedInv'
  <2>0. nextTurn \in Seq(Messages) /\ nextStep \in Seq(Messages)
    BY <1>0 DEF TypeInbox
  <2>a. /\ Elems(Append(nextTurn, m)) = Elems(nextTurn) \cup {m}
        /\ Elems(Append(nextStep, m)) = Elems(nextStep) \cup {m}
    BY <2>0, Appended
  <2>b. \/ nextTurn' = Append(nextTurn, m) /\ nextStep' = nextStep
        \/ nextStep' = Append(nextStep, m) /\ nextTurn' = nextTurn
    BY <1>1 DEF Send
  <2>1. Pending' = Pending \cup {m}
    BY <2>a, <2>b, Zenon DEF Pending
  <2>2. owed' = owed \cup {m} /\ life = "live" /\ UNCHANGED <<life, abort>>
    BY <1>1 DEF Send
  <2>. QED
    BY <2>1, <2>2 DEF OwedInv
<1>2. ASSUME NEW m \in Messages, Inject(m)
       PROVE  OwedInv'
  <2>0. nextTurn \in Seq(Messages) /\ nextStep \in Seq(Messages)
    BY <1>0 DEF TypeInbox
  <2>1. Pending' = Pending \cup {m}
    BY <1>2, <2>0, Appended DEF Inject, Pending
  <2>2. UNCHANGED <<owed, life, abort>>
    BY <1>2 DEF Inject
  <2>. QED
    BY <2>1, <2>2 DEF OwedInv
<1>3. ASSUME NEW m \in Messages, Remove(m)
       PROVE  OwedInv'
  <2>0. nextTurn \in Seq(Messages) /\ nextStep \in Seq(Messages)
    BY <1>0 DEF TypeInbox
  <2>1. Pending \ {m} \subseteq Pending'
    BY <1>3, <2>0, Removed DEF Remove, Pending
  <2>2. owed' = owed \ {m} /\ UNCHANGED <<life, abort>>
    BY <1>3 DEF Remove
  <2>. QED
    BY <2>1, <2>2 DEF OwedInv
<1>4. ASSUME NEW keepInbox \in BOOLEAN, Cancel(keepInbox)
       PROVE  OwedInv'
  <2>1. owed' = {} /\ life' = life /\ (abort' = abort \/ abort' = "user")
    BY <1>4 DEF Cancel, CancelAgent, CancelPhase
  <2>. QED
    BY <2>1 DEF OwedInv
<1>5. CASE MaintenanceStarts
  BY <1>0, <1>5 DEF MaintenanceStarts, OwedInv, Pending
<1>6. ASSUME NEW idleOnly \in BOOLEAN, Dispose(idleOnly)
       PROVE  OwedInv'
  <2>1. owed' = {} /\ life' = "disposing"
    BY <1>6 DEF Dispose, CancelAgent
  <2>. QED
    BY <2>1 DEF OwedInv
<1>7. CASE SendWakes
  BY <1>0, <1>7 DEF SendWakes, WakeDriver, StartDriver, Latches, OwedInv,
    Pending
<1>8. CASE MaintenanceEnds
  BY <1>0, <1>8 DEF MaintenanceEnds, StartDriver, OwedInv, Pending
<1>9. ASSUME NEW steps, ClaimPrompt(steps), UNCHANGED <<nextStep, life, abort>>
      PROVE  OwedInv'
  <2>1. Elems(nextTurn) = Prompt \cup Elems(nextTurn')
    BY <1>0, <1>9, PromptTaken
  <2>2. owed' = owed \ Prompt /\ UNCHANGED <<nextStep, life, abort>>
    BY <1>9 DEF ClaimPrompt
  <2>. QED
    BY <2>1, <2>2 DEF OwedInv, Pending
<1>18. CASE ClaimEnds
  BY <1>9, <1>18 DEF ClaimEnds
<1>19. CASE StepProposed
  <2>1. CASE abort # "live"
    BY <1>19, <2>1 DEF StepProposed, Leave, OwedInv, Pending
  <2>2. CASE abort = "live" /\ Steps # {}
    <3>1. owed' = owed \ Steps /\ UNCHANGED <<nextTurn, life, abort>>
      BY <1>19, <2>2 DEF StepProposed, ClaimSteps
    <3>2. Steps = Elems(nextStep)
      BY <1>0, ClaimType
    <3>. QED
      BY <3>1, <3>2 DEF OwedInv, Pending
  <2>3. CASE abort = "live" /\ Steps = {}
    BY <1>9, <1>19, <2>3 DEF StepProposed
  <2>. QED
    BY <2>1, <2>2, <2>3
<1>10. CASE PreStepRejects
  BY <1>0, <1>10 DEF PreStepRejects, Leave, OwedInv, Pending
<1>11. CASE TurnReturns
  BY <1>0, <1>11 DEF TurnReturns, OwedInv, Pending
<1>12. CASE TurnFailed
  BY <1>0, <1>12 DEF TurnFailed, OwedInv, Pending
<1>13. CASE DriverIdle
  BY <1>0, <1>13 DEF DriverIdle, OwedInv, Pending
<1>14. CASE DriverExits
  BY <1>0, <1>14 DEF DriverExits, WakeDriver, StartDriver, Latches, OwedInv,
    Pending
<1>15. CASE Detach
  BY <1>0, <1>15 DEF Detach, OwedInv, Pending
<1>16. CASE
       \/ WhenIdle \/ HostCloses \/ TurnStarts \/ PreStepThrows \/ StepThrows
       \/ StepCloses \/ StoppingSettles \/ WaiterResumes
       \/ \E empty \in BOOLEAN : PreStepEnters(empty)
       \/ \E stepEnd \in {"none", "completed", "max-tokens"} : StepEnds(stepEnd)
  BY <1>0, <1>16 DEF WhenIdle, HostCloses, TurnStarts, PreStepThrows,
    PreStepEnters, StepThrows, StepEnds, StepCloses, StoppingSettles,
    WaiterResumes, Leave, OwedInv, Pending
<1>17. CASE UNCHANGED vars
  BY <1>0, <1>17 DEF vars, OwedInv, Pending
<1>. QED
  BY <1>1, <1>2, <1>3, <1>4, <1>5, <1>6, <1>7, <1>8, <1>10, <1>11,
     <1>12, <1>13, <1>14, <1>15, <1>16, <1>17, <1>18,
     <1>19, Zenon
  DEF Next, Operations, Driver, StepRuns, PreStepSettles

(***************************************************************************)
(* Parked input                                                            *)
(***************************************************************************)

\* Input is parked only while no wake is latched or in hand and no driver could
\* claim it, and a turn that went through was not aborted.
ParkInv ==
  /\ parked \cap claimed = {}
  /\ parked # {} => ~wakeRequested
  /\ parked # {} => phase # "running" \/ abort # "live"
  /\ parked # {} => epilogue # "latched" /\ pc # "claiming"
  /\ Closing => abort = "live"

\* A wake that is still pending beside parked input is that of the send under
\* way, and it will not be dropped.
PendingInv ==
  parked # {} /\ pendingWakes # {} =>
    /\ sending # "none"
    /\ phase = "idle" \/ abort = "live" \/ (sending = "afterAbort" /\ abort # "disposed")

\* Unless observers cancel inside one of the three windows, every step keeps it.
LEMMA ParkNext ==
  ASSUME Reentrant \cap {"turn/end", "idle", "claim"} = {}, TypeOK, OneActivity,
         InboxInv, ParkInv, PendingInv, [Next]_vars
  PROVE  ParkInv'
<1>. USE DEF inbox, waiting, turnState, history, ends
<1>0. TypeStages /\ TypeFlags /\ OneActivity
  BY DEF TypeOK
<1>1. ASSUME NEW keepInbox \in BOOLEAN, Cancel(keepInbox)
       PROVE  ParkInv'
  <2>1. ~Closing /\ UNCHANGED <<phase, pc, exit, claimed, epilogue>>
    BY <1>1 DEF Cancel
  <2>2. ~wakeRequested' /\ abort' = IF phase # "idle" /\ abort = "live" THEN "user" ELSE abort
    BY <1>1 DEF Cancel, CancelAgent, CancelPhase
  <2>3. parked' = Pending \/ parked' = {}
    BY <1>1 DEF Cancel, CancelAgent
  <2>4. phase' # "running" \/ abort' # "live"
    BY <2>1, <2>2
  <2>5. parked' \cap claimed' = {}
    BY <2>1, <2>3 DEF InboxInv
  <2>6. ~Closing'
    BY <2>1 DEF Closing
  <2>7. parked' # {} => epilogue # "latched" /\ pc # "claiming"
    <3>1. parked' # {} => keepInbox
      BY <1>1 DEF Cancel, CancelAgent
    <3>. QED
      BY <1>1, <3>1 DEF Cancel
  <2>. QED
    BY <2>1, <2>2, <2>4, <2>5, <2>6, <2>7, Zenon DEF ParkInv
<1>2. CASE MaintenanceStarts
  BY <1>0, <1>2 DEF MaintenanceStarts, ParkInv, Closing
<1>3. ASSUME NEW idleOnly \in BOOLEAN, Dispose(idleOnly)
       PROVE  ParkInv'
  <2>1. ~Closing /\ UNCHANGED <<pc, exit>> /\ parked' = {}
    BY <1>3 DEF Dispose, CancelAgent
  <2>. QED
    BY <2>1 DEF ParkInv, Closing
<1>4. CASE SendWakes
  BY <1>0, <1>4 DEF SendWakes, WakeDriver, StartDriver, Latches, ParkInv,
    Closing
<1>5. CASE MaintenanceEnds
  BY <1>0, <1>5 DEF MaintenanceEnds, StartDriver, ParkInv, Closing
<1>6. CASE TurnStarts
  BY <1>0, <1>6 DEF TurnStarts, ParkInv, Closing
<1>7. CASE StepProposed
  <2>0. phase = "running"
    BY <1>0, <1>7 DEF StepProposed, OneActivity
  <2>1. CASE abort # "live"
    BY <1>0, <1>7, <2>1 DEF StepProposed, Leave, ParkInv, Closing
  <2>2. CASE abort = "live"
    <3>1. parked = {} /\ parked' = {} /\ pc' \in {"claiming", "prestep"}
      BY <1>7, <2>0, <2>2 DEF StepProposed, ClaimSteps, ClaimPrompt, ParkInv
    <3>. QED
      BY <3>1 DEF ParkInv, Closing
  <2>. QED
    BY <2>1, <2>2
<1>16. CASE ClaimEnds
  <2>1. parked = {} /\ parked' = {} /\ pc' = "prestep"
    BY <1>16 DEF ClaimEnds, ClaimPrompt, ParkInv
  <2>. QED
    BY <2>1 DEF ParkInv, Closing
<1>8. ASSUME NEW empty \in BOOLEAN, PreStepEnters(empty)
       PROVE  ParkInv'
  BY <1>0, <1>8 DEF PreStepEnters, Leave, ParkInv, Closing
<1>9. CASE StepCloses
  BY <1>0, <1>9 DEF StepCloses, Leave, ParkInv, Closing
<1>10. CASE StoppingSettles
  BY <1>0, <1>10 DEF StoppingSettles, Leave, ParkInv, Closing
<1>11. CASE TurnReturns
  BY <1>0, <1>11 DEF TurnReturns, ParkInv, Closing
<1>12. CASE DriverIdle
  BY <1>0, <1>12 DEF DriverIdle, ParkInv, Closing
<1>13. CASE DriverExits
  <2>1. Reopens => parked = {}
    BY <1>13 DEF DriverExits, Reopens, ParkInv, PendingInv
  <2>2. /\ epilogue' = "none" /\ UNCHANGED <<exit, claimed, parked>>
        /\ ~Reopens => UNCHANGED <<phase, abort, wakeRequested, pc>>
    BY <1>13 DEF DriverExits
  <2>3. CASE ~Reopens
    BY <2>2, <2>3 DEF ParkInv, Closing
  <2>4. CASE Reopens
    <3>1. Closing' => Closing /\ abort' = abort
      BY <1>0, <1>13, <2>2, <2>4 DEF DriverExits, WakeDriver, StartDriver, Closing,
         OneActivity
    <3>. QED
      BY <2>1, <2>2, <2>4, <3>1 DEF ParkInv
  <2>. QED
    BY <2>3, <2>4
<1>14. CASE
       \/ WhenIdle \/ HostCloses \/ PreStepThrows \/ PreStepRejects
       \/ StepThrows \/ TurnFailed \/ WaiterResumes \/ Detach
       \/ \E m \in Messages, target \in {"next-turn", "next-step"} : Send(m, target)
       \/ \E m \in Messages : Inject(m)
       \/ \E m \in Messages : Remove(m)
       \/ \E stepEnd \in {"none", "completed", "max-tokens"} : StepEnds(stepEnd)
  BY <1>0, <1>14 DEF Send, Inject, Remove, WhenIdle, HostCloses,
    PreStepThrows, PreStepRejects, StepThrows, StepEnds, TurnFailed,
    WaiterResumes, Detach, Leave, ParkInv, Closing
<1>15. CASE UNCHANGED vars
  BY <1>0, <1>15 DEF vars, ParkInv, Closing
<1>. QED
  BY <1>1, <1>2, <1>3, <1>4, <1>5, <1>6, <1>7, <1>8, <1>9, <1>10, <1>11,
     <1>12, <1>13, <1>14, <1>15, <1>16, Zenon
  DEF Next, Operations, Driver, StepRuns, PreStepSettles

\* Every step keeps the account of pending wakes.
LEMMA PendingNext ==
  ASSUME TypeOK, OneActivity, OwedInv, ParkInv, PendingInv, [Next]_vars
  PROVE  PendingInv'
<1>. USE DEF inbox, waiting, turnState, history, ends
<1>0. TypeStages /\ TypeFlags /\ OneActivity
  BY DEF TypeOK
<1>1. ASSUME NEW m \in Messages, NEW target \in {"next-turn", "next-step"}, Send(m, target)
       PROVE  PendingInv'
  <2>1. abort # "disposed" /\ UNCHANGED <<phase, abort, parked>>
    BY <1>1 DEF Send, OwedInv
  <2>2. sending' = IF phase # "idle" /\ abort # "live" THEN "afterAbort" ELSE "plain"
    BY <1>1 DEF Send
  <2>. QED
    BY <2>1, <2>2 DEF PendingInv
<1>2. CASE SendWakes
  <2>1. /\ sending # "none" /\ UNCHANGED pendingWakes
        /\ parked' = IF phase # "idle" /\ abort # "live" /\ ~Latches(sending = "afterAbort")
                     THEN parked ELSE {}
    BY <1>2 DEF SendWakes
  <2>2. parked' # {} /\ pendingWakes' # {} => FALSE
    BY <2>1 DEF PendingInv, Latches
  <2>. QED
    BY <2>2 DEF PendingInv
<1>3. CASE
       \/ \E keepInbox \in BOOLEAN : Cancel(keepInbox)
       \/ \E idleOnly \in BOOLEAN : Dispose(idleOnly)
  BY <1>3 DEF Cancel, Dispose, CancelAgent, PendingInv
<1>4. CASE MaintenanceStarts
  BY <1>4 DEF MaintenanceStarts, PendingInv
<1>5. CASE
       \/ MaintenanceEnds \/ TurnStarts \/ StepProposed \/ ClaimEnds \/ PreStepThrows
       \/ PreStepRejects \/ StepThrows \/ StepCloses \/ StoppingSettles \/ TurnReturns
       \/ TurnFailed \/ DriverIdle \/ DriverExits
       \/ \E empty \in BOOLEAN : PreStepEnters(empty)
       \/ \E stepEnd \in {"none", "completed", "max-tokens"} : StepEnds(stepEnd)
  <2>1. /\ sending = "none" /\ UNCHANGED <<sending, parked>>
        /\ pendingWakes' \subseteq pendingWakes
    BY <1>5 DEF MaintenanceEnds, TurnStarts, StepProposed, ClaimEnds, ClaimSteps,
      ClaimPrompt, PreStepThrows, PreStepRejects, StepThrows, StepCloses, StoppingSettles,
      TurnReturns, TurnFailed, DriverIdle, DriverExits, PreStepEnters, StepEnds, JobBoundary
  <2>. QED
    BY <2>1 DEF PendingInv
<1>6. CASE
       \/ WhenIdle \/ HostCloses \/ WaiterResumes \/ Detach
       \/ \E m \in Messages : Inject(m)
       \/ \E m \in Messages : Remove(m)
  BY <1>6 DEF WhenIdle, HostCloses, WaiterResumes, Detach, Inject, Remove, PendingInv
<1>7. CASE UNCHANGED vars
  BY <1>7 DEF vars, PendingInv
<1>. QED
  BY <1>1, <1>2, <1>3, <1>4, <1>5, <1>6, <1>7, Zenon
  DEF Next, Operations, Driver, StepRuns, PreStepSettles

(***************************************************************************)
(* Who notices an owed wake                                                *)
(***************************************************************************)

\* Whoever still has to notice an owed wake, unless the host is closing: an
\* aborted activity and a maintenance have it latched, a driver about to go has
\* it in pendingWakes or latched, and so has the epilogue until another driver
\* runs.
RestInv ==
  phase = "idle" /\ sending = "none" /\ epilogue = "none" => owed = {}
AbortInv ==
  abort = "user" /\ phase # "idle" => owed = {} \/ wakeRequested \/ sending = "afterAbort"
MaintenanceInv ==
  phase = "maintenance" /\ sending = "none" /\ epilogue = "none" => owed = {} \/ wakeRequested
FinishInv ==
  /\ pc = "finish" => owed \subseteq pendingWakes \/ wakeRequested
  /\ pc = "ended" /\ exit = "return" => owed \subseteq pendingWakes
  /\ pc = "prestep" /\ first /\ batch = {} => owed \subseteq pendingWakes
  /\ pc = "claiming" => batch # {}
EpilogueInv ==
  epilogue # "none" /\ phase # "running" => owed \subseteq pendingWakes \/ epilogue = "latched"
WakeInv ==
  ~hostClosing => RestInv /\ AbortInv /\ MaintenanceInv /\ FinishInv /\ EpilogueInv

\* Pending input is what HasPending tests.
LEMMA OwedPending == OwedInv /\ owed # {} => HasPending /\ life = "live" /\ abort # "disposed"
BY DEF OwedInv, HasPending

\* Unless a claimed batch is rewritten to empty, every step keeps it.
LEMMA WakeNext ==
  ASSUME ~Rewrites, TypeOK, OneActivity, OwedInv, WakeInv, [Next]_vars
  PROVE  WakeInv'
<1>. USE DEF inbox, waiting, turnState, history, ends
<1>0. TypeStages /\ TypeFlags /\ OneActivity
  BY DEF TypeOK
<1>1. ASSUME NEW m \in Messages, NEW target \in {"next-turn", "next-step"}, Send(m, target)
       PROVE  WakeInv'
  BY <1>0, <1>1 DEF Send, WakeInv, RestInv, AbortInv, MaintenanceInv,
    FinishInv, EpilogueInv
<1>2. ASSUME NEW m \in Messages, Inject(m)
       PROVE  WakeInv'
  BY <1>0, <1>2 DEF Inject, WakeInv, RestInv, AbortInv, MaintenanceInv,
    FinishInv, EpilogueInv
<1>3. ASSUME NEW m \in Messages, Remove(m)
       PROVE  WakeInv'
  BY <1>0, <1>3 DEF Remove, WakeInv, RestInv, AbortInv, MaintenanceInv,
    FinishInv, EpilogueInv
<1>4. ASSUME NEW keepInbox \in BOOLEAN, Cancel(keepInbox)
       PROVE  WakeInv'
  BY <1>0, <1>4 DEF Cancel, CancelAgent, CancelPhase, WakeInv, RestInv,
    AbortInv, MaintenanceInv, FinishInv, EpilogueInv
<1>5. CASE MaintenanceStarts
  <2>1. /\ phase = "idle" /\ phase' = "maintenance" /\ abort' = "live"
        /\ UNCHANGED <<pendingWakes, pc, exit, first, batch, epilogue, sending, hostClosing, owed>>
    BY <1>5 DEF MaintenanceStarts
  <2>2. pc = "none"
    BY <1>0, <2>1 DEF OneActivity
  <2>. QED
    BY <1>0, <2>1, <2>2 DEF WakeInv, RestInv, AbortInv, MaintenanceInv,
           FinishInv, EpilogueInv
<1>6. ASSUME NEW idleOnly \in BOOLEAN, Dispose(idleOnly)
       PROVE  WakeInv'
  BY <1>0, <1>6 DEF Dispose, CancelAgent, CancelPhase, WakeInv, RestInv,
    AbortInv, MaintenanceInv, FinishInv, EpilogueInv
<1>7. CASE SendWakes
  <2>. SUFFICES ASSUME ~hostClosing PROVE WakeInv'
    BY <1>7 DEF SendWakes, WakeInv
  <2>1. /\ sending # "none" /\ sending' = "none"
        /\ UNCHANGED <<pendingWakes, exit, batch, epilogue, hostClosing, owed>>
    BY <1>7 DEF SendWakes
  <2>2. CASE phase = "idle"
    <3>1. phase' = "running" /\ abort' = "live" /\ pc' = "start"
      BY <1>7, <2>2 DEF SendWakes, WakeDriver, StartDriver
    <3>. QED
      BY <2>1, <3>1 DEF WakeInv, RestInv, AbortInv, MaintenanceInv,
           FinishInv, EpilogueInv
  <2>3. CASE phase # "idle"
    <3>1. UNCHANGED <<phase, abort, pc, first>>
      BY <1>7, <2>3 DEF SendWakes, WakeDriver
    <3>2. wakeRequested => wakeRequested'
      BY <1>7, <2>3, <1>0, Zenon DEF SendWakes, WakeDriver
    <3>3. abort # "disposed" /\ (phase = "maintenance" \/ sending = "afterAbort") => wakeRequested'
      BY <1>7, <2>3, Zenon DEF SendWakes, WakeDriver, Latches
    <3>4. owed # {} => abort # "disposed"
      BY OwedPending
    <3>. QED
      BY <1>0, <2>1, <2>3, <3>1, <3>2, <3>3, <3>4 DEF WakeInv, RestInv, AbortInv,
         MaintenanceInv,
           FinishInv, EpilogueInv
  <2>. QED
    BY <2>2, <2>3
<1>8. CASE MaintenanceEnds
  <2>. SUFFICES ASSUME ~hostClosing PROVE WakeInv'
    BY <1>8 DEF MaintenanceEnds, WakeInv
  <2>1. /\ phase = "maintenance" /\ sending = "none" /\ epilogue = "none"
        /\ UNCHANGED <<pendingWakes, exit, batch, epilogue, sending, hostClosing, owed>>
    BY <1>8 DEF MaintenanceEnds, JobBoundary
  <2>2. CASE abort # "disposed" /\ wakeRequested /\ HasPending
    <3>1. phase' = "running" /\ abort' = "live" /\ pc' = "start"
      BY <1>8, <2>2 DEF MaintenanceEnds, StartDriver
    <3>. QED
      BY <2>1, <3>1 DEF WakeInv, RestInv, AbortInv, MaintenanceInv,
           FinishInv, EpilogueInv
  <2>3. CASE ~(abort # "disposed" /\ wakeRequested /\ HasPending)
    <3>1. phase' = "idle" /\ abort' = "live" /\ pc' = pc
      BY <1>8, <2>3 DEF MaintenanceEnds
    <3>2. pc = "none"
      BY <1>0, <2>1 DEF OneActivity
    <3>3. owed = {}
      BY <2>1, <2>3, OwedPending DEF WakeInv, MaintenanceInv
    <3>. QED
      BY <2>1, <3>1, <3>2, <3>3 DEF WakeInv, RestInv, AbortInv, MaintenanceInv,
           FinishInv, EpilogueInv
  <2>. QED
    BY <2>2, <2>3
<1>9. CASE TurnStarts
  BY <1>0, <1>9 DEF TurnStarts, WakeInv, RestInv, AbortInv, MaintenanceInv,
    FinishInv, EpilogueInv
<1>10. CASE StepProposed
  <2>0. phase = "running" /\ UNCHANGED <<phase, abort, wakeRequested, first, epilogue, sending, hostClosing>>
    BY <1>0, <1>10 DEF StepProposed, OneActivity
  <2>1. CASE abort # "live"
    BY <1>0, <1>10, <2>1 DEF StepProposed, Leave, WakeInv, RestInv, AbortInv,
       MaintenanceInv,
         FinishInv, EpilogueInv
  <2>2. CASE abort = "live" /\ Steps # {}
    <3>1. owed' = owed \ Steps /\ batch' = Steps /\ pc' = "claiming"
      BY <1>10, <2>2 DEF StepProposed, ClaimSteps
    <3>. QED
      BY <1>0, <2>0, <2>2, <3>1 DEF WakeInv, RestInv, AbortInv, MaintenanceInv,
         FinishInv, EpilogueInv
  <2>3. CASE abort = "live" /\ Steps = {}
    <3>1. owed' = owed \ Prompt /\ batch' = Prompt /\ pc' = "prestep"
      BY <1>10, <2>3 DEF StepProposed, ClaimPrompt
    <3>2. first /\ Prompt = {} => owed = {}
      <4>1. TypeInbox
        BY DEF TypeOK
      <4>. SUFFICES ASSUME first, Prompt = {} PROVE Elems(nextTurn) = {} /\ Elems(nextStep) = {}
        BY DEF OwedInv, Pending
      <4>2. Elems(nextStep) = {} /\ nextTurn = <<>>
        BY <2>3, <4>1, ClaimType
      <4>. QED
        BY <4>2, EmptyElems
    <3>. QED
      BY <1>0, <2>0, <2>3, <3>1, <3>2 DEF WakeInv, RestInv, AbortInv, MaintenanceInv,
         FinishInv, EpilogueInv
  <2>. QED
    BY <2>1, <2>2, <2>3
<1>22. CASE ClaimEnds
  <2>1. /\ pc = "claiming" /\ pc' = "prestep" /\ owed' = owed \ Prompt
        /\ batch' = batch \cup Prompt
        /\ UNCHANGED <<phase, abort, wakeRequested, first, epilogue, sending, hostClosing>>
    BY <1>22 DEF ClaimEnds, ClaimPrompt
  <2>2. phase = "running"
    BY <1>0, <2>1 DEF OneActivity
  <2>3. ~hostClosing => batch' # {}
    BY <2>1 DEF WakeInv, FinishInv
  <2>. QED
    BY <1>0, <2>1, <2>2, <2>3 DEF WakeInv, RestInv, AbortInv, MaintenanceInv,
       FinishInv, EpilogueInv
<1>11. CASE PreStepRejects
  BY <1>0, <1>11 DEF PreStepRejects, Leave, WakeInv, RestInv, AbortInv,
    MaintenanceInv, FinishInv, EpilogueInv
<1>12. ASSUME NEW empty \in BOOLEAN, PreStepEnters(empty)
        PROVE  WakeInv'
  BY <1>0, <1>12 DEF PreStepEnters, Leave, WakeInv, RestInv, AbortInv,
    MaintenanceInv, FinishInv, EpilogueInv
<1>13. ASSUME NEW stepEnd \in {"none", "completed", "max-tokens"}, StepEnds(stepEnd)
        PROVE  WakeInv'
  BY <1>0, <1>13 DEF StepEnds, Sticky, WakeInv, RestInv, AbortInv,
    MaintenanceInv, FinishInv, EpilogueInv
<1>14. CASE StepCloses
  BY <1>0, <1>14 DEF StepCloses, Leave, WakeInv, RestInv, AbortInv,
    MaintenanceInv, FinishInv, EpilogueInv
<1>15. CASE StoppingSettles
  BY <1>0, <1>15 DEF StoppingSettles, Leave, WakeInv, RestInv, AbortInv,
    MaintenanceInv, FinishInv, EpilogueInv
<1>16. CASE TurnReturns
  <2>1. /\ pc = "ended" /\ sending = "none" /\ exit # "throw"
        /\ UNCHANGED <<phase, pendingWakes, exit, batch, epilogue, sending, hostClosing, owed>>
    BY <1>16 DEF TurnReturns
  <2>2. phase = "running"
    BY <1>0, <2>1 DEF OneActivity
  <2>3. CASE exit = "break" /\ HasPending
    <3>1. pc' = "start" /\ abort' = "live"
      BY <1>16, <2>3 DEF TurnReturns
    <3>. QED
      BY <2>1, <2>2, <3>1 DEF WakeInv, RestInv, AbortInv, MaintenanceInv,
           FinishInv, EpilogueInv
  <2>4. CASE ~(exit = "break" /\ HasPending)
    <3>1. pc' = "finish" /\ UNCHANGED <<abort, wakeRequested>>
      BY <1>16, <2>4 DEF TurnReturns
    <3>2. ~hostClosing => owed \subseteq pendingWakes
      <4>1. CASE exit = "break"
        BY <2>4, <4>1, OwedPending
      <4>2. CASE exit = "return"
        BY <2>1, <4>2 DEF WakeInv, FinishInv
      <4>. QED
        BY <1>0, <2>1, <4>1, <4>2 DEF TypeStages
    <3>. QED
      BY <2>1, <2>2, <3>1, <3>2 DEF WakeInv, RestInv, AbortInv, MaintenanceInv,
           FinishInv, EpilogueInv
  <2>. QED
    BY <2>3, <2>4
<1>17. CASE TurnFailed
  <2>1. /\ pc = "ended" /\ sending = "none" /\ epilogue = "none" /\ pc' = "finish"
        /\ UNCHANGED <<phase, abort, wakeRequested, exit, batch, epilogue, sending, hostClosing>>
    BY <1>17 DEF TurnFailed, JobBoundary
  <2>2. phase = "running"
    BY <1>0, <2>1 DEF OneActivity
  <2>3. CASE abort = "user"
    <3>1. owed' = owed
      BY <1>17, <2>3 DEF TurnFailed
    <3>2. ~hostClosing => owed = {} \/ wakeRequested
      BY <2>1, <2>2, <2>3 DEF WakeInv, AbortInv
    <3>. QED
      BY <1>0, <2>1, <2>2, <3>1, <3>2 DEF WakeInv, RestInv, AbortInv, MaintenanceInv,
           FinishInv, EpilogueInv
  <2>4. CASE abort # "user"
    <3>1. owed' = {}
      BY <1>17, <2>4 DEF TurnFailed
    <3>. QED
      BY <2>1, <2>2, <3>1 DEF WakeInv, RestInv, AbortInv, MaintenanceInv,
           FinishInv, EpilogueInv
  <2>. QED
    BY <2>3, <2>4
<1>18. CASE DriverIdle
  BY <1>0, <1>18 DEF DriverIdle, WakeInv, RestInv, AbortInv, MaintenanceInv,
    FinishInv, EpilogueInv
<1>19. CASE DriverExits
  <2>. SUFFICES ASSUME ~hostClosing PROVE WakeInv'
    BY <1>19 DEF DriverExits, WakeInv
  <2>1. /\ epilogue # "none" /\ epilogue' = "none" /\ sending = "none"
        /\ UNCHANGED <<pendingWakes, exit, batch, sending, hostClosing, owed>>
    BY <1>19 DEF DriverExits
  <2>2. CASE Reopens /\ phase = "idle"
    <3>1. phase' = "running" /\ abort' = "live" /\ pc' = "start"
      BY <1>19, <2>2 DEF DriverExits, WakeDriver, StartDriver
    <3>. QED
      BY <2>1, <3>1 DEF WakeInv, RestInv, AbortInv, MaintenanceInv,
           FinishInv, EpilogueInv
  <2>3. CASE Reopens /\ phase # "idle"
    <3>1. UNCHANGED <<phase, abort, pc, first>>
      BY <1>19, <2>3 DEF DriverExits, WakeDriver
    <3>2. wakeRequested => wakeRequested'
      BY <1>19, <2>3, <1>0, Zenon DEF DriverExits, WakeDriver
    <3>3. abort # "disposed" /\ phase = "maintenance" => wakeRequested'
      BY <1>19, <2>3, Zenon DEF DriverExits, WakeDriver, Latches
    <3>4. owed # {} => abort # "disposed"
      BY OwedPending
    <3>. QED
      BY <1>0, <2>1, <2>3, <3>1, <3>2, <3>3, <3>4 DEF WakeInv, RestInv, AbortInv,
         MaintenanceInv,
           FinishInv, EpilogueInv
  <2>4. CASE ~Reopens
    <3>1. UNCHANGED <<phase, abort, wakeRequested, pc, first>>
      BY <1>19, <2>4 DEF DriverExits
    <3>2. phase # "running" => owed = {}
      <4>. SUFFICES ASSUME phase # "running", owed # {} PROVE Reopens
        BY <2>4
      <4>1. HasPending
        BY OwedPending
      <4>2. owed \subseteq pendingWakes \/ epilogue = "latched"
        BY <2>1 DEF WakeInv, EpilogueInv
      <4>. QED
        BY <4>1, <4>2 DEF Reopens
    <3>. QED
      BY <1>0, <2>1, <3>1, <3>2 DEF WakeInv, RestInv, AbortInv, MaintenanceInv,
           FinishInv, EpilogueInv
  <2>. QED
    BY <2>2, <2>3, <2>4
<1>20. CASE
       \/ WhenIdle \/ HostCloses \/ PreStepThrows \/ StepThrows
       \/ WaiterResumes \/ Detach
  BY <1>0, <1>20 DEF WhenIdle, HostCloses, PreStepThrows, StepThrows,
    WaiterResumes, Detach, Leave, WakeInv, RestInv, AbortInv, MaintenanceInv,
    FinishInv, EpilogueInv
<1>21. CASE UNCHANGED vars
  BY <1>0, <1>21 DEF vars, WakeInv, RestInv, AbortInv, MaintenanceInv, FinishInv,
     EpilogueInv
<1>. QED
  BY <1>1, <1>2, <1>3, <1>4, <1>5, <1>6, <1>7, <1>8, <1>9, <1>10, <1>11,
     <1>12, <1>13, <1>14, <1>15, <1>16, <1>17, <1>18, <1>19, <1>20, <1>21,
     <1>22, Zenon
  DEF Next, Operations, Driver, StepRuns, PreStepSettles

(***************************************************************************)
(* The theorems                                                            *)
(***************************************************************************)

\* The part that holds whatever the observers and the listeners do.
IInv == TypeOK /\ OneActivity /\ PromptInv /\ QuietInv /\ InboxInv /\ OwedInv

\* It holds from the start.
LEMMA InitInv == Init => IInv /\ ParkInv /\ PendingInv /\ WakeInv
<1>. SUFFICES ASSUME Init PROVE IInv /\ ParkInv /\ PendingInv /\ WakeInv
  OBVIOUS
<1>. USE DEF Init
<1>1. TypeOK
  <2>1. TypeStages
    BY DEF TypeStages
  <2>2. TypeFlags
    BY Zenon DEF TypeFlags
  <2>3. TypeInbox
    BY DEF TypeInbox
  <2>. QED
    BY <2>1, <2>2, <2>3 DEF TypeOK
<1>2. OneActivity /\ PromptInv /\ QuietInv
  BY DEF OneActivity, PromptInv, QuietInv
<1>3. Pending = {} /\ Elems(nextTurn) = {} /\ DOMAIN nextTurn = {}
  BY EmptyElems DEF Pending
<1>4. InboxInv /\ OwedInv /\ ParkInv /\ PendingInv /\ WakeInv
  BY <1>3 DEF InboxInv, OwedInv, ParkInv, PendingInv, Closing, WakeInv, RestInv, AbortInv,
    MaintenanceInv, FinishInv, EpilogueInv
<1>. QED
  BY <1>1, <1>2, <1>4 DEF IInv

\* And every step keeps it.
LEMMA NextInv == ASSUME IInv, [Next]_vars PROVE IInv'
BY TypeNext, OneActivityNext, PromptNext, QuietNext, InboxNext, OwedNext DEF IInv

\* It is invariant.
LEMMA Invariance == Spec => []IInv
BY InitInv, NextInv, PTL DEF Spec

\* The bookkeeping of phase, driver, log and inbox stays consistent: types, a
\* driver exactly in the running phase with a balanced log, and one queued
\* prompt per turn (wakeDriver, runMaintenance, kick, turn, inbox.claim).
THEOREM Consistency == Spec => []Consistent
<1>1. IInv => Consistent
  BY PromptCount DEF IInv, Consistent
<1>. QED
  BY <1>1, Invariance, PTL

\* An agent that left the registries never runs again, whichever observer
\* disposed it and whatever activity replaced the one its teardown awaited
\* (teardown, whenIdle, tryDisposeIdle).
THEOREM Detached == Spec => []DetachedIsQuiet
<1>1. IInv => DetachedIsQuiet
  BY DEF IInv, QuietInv, OneActivity, DetachedIsQuiet, TypeOK, TypeStages
<1>. QED
  BY <1>1, Invariance, PTL

\* Input that a cancel kept is not claimed before something wakes the agent
\* again, also when the cancel came from an observer of anything but turn/end,
\* the idle status behind a latched wake or a claim's first splice (cancel,
\* send, wakeDriver, claim, kick).
THEOREM Parking ==
  ASSUME Reentrant \cap {"turn/end", "idle", "claim"} = {} PROVE Spec => []CancelParks
<1>1. IInv /\ ParkInv /\ PendingInv /\ [Next]_vars => ParkInv' /\ PendingInv'
  BY ParkNext, PendingNext DEF IInv
<1>2. ParkInv => CancelParks
  BY DEF ParkInv, CancelParks
<1>. QED
  BY <1>1, <1>2, InitInv, Invariance, PTL DEF Spec

\* If no listener rewrites a claimed batch to empty, no wake is lost: an agent
\* at rest owes nobody a turn, whatever abort, maintenance, closing turn or
\* disposal the send raced (send, wakeDriver, kick, runMaintenance).
THEOREM WakesKept == ASSUME ~Rewrites PROVE Spec => []NoLostWake
<1>1. IInv /\ WakeInv /\ [Next]_vars => WakeInv'
  BY WakeNext DEF IInv
<1>2. WakeInv => NoLostWake
  BY DEF WakeInv, RestInv, NoLostWake, JobBoundary
<1>. QED
  BY <1>1, <1>2, InitInv, Invariance, PTL DEF Spec

=============================================================================
