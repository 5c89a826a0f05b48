------------------------------ MODULE TurnRepair ------------------------------
(***************************************************************************)
(* Repair of an open tail turn (core/session/src/repair.ts): the fold that *)
(* tracks unanswered tool requests, the error results it supplies and the  *)
(* closing boundaries.  A live failed step uses the same fold.             *)
(*                                                                         *)
(* An event is a record [type, id, note].  A call is <<step, k>>, the k-th *)
(* request of that step's assistant/message, whose id is <<step, n>> for n *)
(* requests; boundaries carry <<step, 0>>.  A result's note is its kind.   *)
(***************************************************************************)
EXTENDS Integers, Sequences

Event(type, id, note) == [type |-> type, id |-> id, note |-> note]

\* Results of the calls: outcome of the tool, or why there is none.
Ok == "ok"
Skipped == "ABORTED_BEFORE_DISPATCH"
Unknown == "TOOL_OUTCOME_UNKNOWN"
NotStarted == "TOOL_NOT_STARTED"

\* ToolCallRecovery.pendingCalls in insertion order, which of them have a
\* tool/call, and openTurnClosers' cursor.
Fresh == [pending |-> <<>>, started |-> {}, turn |-> FALSE, step |-> 0]

\* pendingCalls.delete.
Delete(calls, id) ==
  IF \E k \in DOMAIN calls : calls[k] = id
  THEN LET k == CHOOSE k \in DOMAIN calls : calls[k] = id
       IN [i \in 1..(Len(calls) - 1) |-> IF i < k THEN calls[i] ELSE calls[i + 1]]
  ELSE calls

Observe(s, e) ==
  CASE e.type = "turn/start" -> [Fresh EXCEPT !.turn = TRUE]
    [] e.type = "turn/end" -> Fresh
    [] e.type = "step/start" -> [s EXCEPT !.step = e.id[1]]
    [] e.type = "step/end" -> [s EXCEPT !.step = 0, !.pending = <<>>, !.started = {}]
    [] e.type = "assistant/message" ->
         [s EXCEPT !.pending = @ \o [k \in 1..e.id[2] |-> <<e.id[1], k>>]]
    [] e.type = "tool/call" -> [s EXCEPT !.started = @ \cup {e.id}]
    [] e.type = "tool/result" -> [s EXCEPT !.pending = Delete(@, e.id)]
    [] OTHER -> s

Scan(events) ==
  LET scan[i \in 0..Len(events)] ==
        IF i = 0 THEN Fresh ELSE Observe(scan[i - 1], events[i])
  IN scan[Len(events)]

Results(s) ==
  [i \in DOMAIN s.pending |->
     Event("tool/result", s.pending[i],
           IF s.pending[i] \in s.started THEN Unknown ELSE NotStarted)]

\* Mutant of Closers: the turn is closed over an open step.
ClosersM(events) ==
  LET s == Scan(events)
  IN IF ~s.turn THEN <<>>
     ELSE Results(s) \o <<Event("turn/end", <<0, 0>>, "interrupted")>>

\* openTurnClosers: results, then step/end if a step is open, then turn/end.
Closers(events) ==
  LET s == Scan(events)
      stepEnd == IF s.step # 0 THEN <<Event("step/end", <<s.step, 0>>, "")>> ELSE <<>>
  IN IF ~s.turn THEN <<>>
     ELSE Results(s) \o stepEnd \o <<Event("turn/end", <<0, 0>>, "interrupted")>>

=============================================================================
