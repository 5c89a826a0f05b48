----------------------------- MODULE DurableLog -----------------------------
(***************************************************************************)
(* What the persistence of one live session promises, without batches,     *)
(* timers, retries or backends: the session emits numbered events, the     *)
(* durable log is always a prefix of them, and a flush may answer "ok"     *)
(* only when every event emitted before it was asked for is in the log.    *)
(* An event that was refused (a gap) is never followed by another one in   *)
(* the log, so no flush asked for afterwards can succeed.                  *)
(***************************************************************************)
EXTENDS Integers

CONSTANTS Callers, Materializing

VARIABLES
  issued,    \* events the session has emitted
  intact,    \* events emitted before the first refused one
  durable,   \* length of the durable log
  draft,     \* the session is a draft: it may stay in memory while trivial
  request,   \* per caller: none, wait, ok or error
  mark       \* per caller: issued when it asked

vars == <<issued, intact, durable, draft, request, mark>>

Init ==
  /\ issued \in Nat /\ intact = issued
  /\ durable \in 0..issued
  /\ draft \in BOOLEAN
  /\ request = [c \in Callers |-> "none"]
  /\ mark = [c \in Callers |-> 0]

Covered(n) == n <= durable \/ (draft /\ \A e \in Materializing : e >= n)

Issue ==
  /\ issued' = issued + 1
  /\ intact' \in {intact} \cup (IF intact = issued THEN {issued + 1} ELSE {})
  /\ UNCHANGED <<durable, draft, request, mark>>

Persist ==
  /\ durable' \in durable..intact
  /\ UNCHANGED <<issued, intact, draft, request, mark>>

Ask(c) ==
  /\ request[c] # "wait"
  /\ request' = [request EXCEPT ![c] = "wait"]
  /\ mark' = [mark EXCEPT ![c] = issued]
  /\ UNCHANGED <<issued, intact, durable, draft>>

\* One barrier answers everyone who joined it.
Answer(cs, result) ==
  /\ \A c \in cs : request[c] = "wait"
  /\ result = "ok" => \A c \in cs : Covered(mark[c])
  /\ request' = [c \in Callers |-> IF c \in cs THEN result ELSE request[c]]
  /\ UNCHANGED <<issued, intact, durable, draft, mark>>

Next ==
  \/ Issue \/ Persist
  \/ \E c \in Callers : Ask(c)
  \/ \E cs \in SUBSET Callers, result \in {"ok", "error"} : Answer(cs, result)

Spec == Init /\ [][Next]_vars

=============================================================================
