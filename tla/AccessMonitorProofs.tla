-------------------------- MODULE AccessMonitorProofs --------------------------
(***************************************************************************)
(* Proofs about AccessMonitor, for any sockets, any number of revisions,   *)
(* lost connections, failing listeners and renewals: a revision the        *)
(* process has applied leaves no stream open that it names, streams are    *)
(* admitted with current authority only, and none is open without its      *)
(* guards.  The argument follows one authority read: the first revision    *)
(* since that names the socket lies beyond the cursor, and any read of the *)
(* log that takes it in destroys the socket before the cursor passes it.   *)
(***************************************************************************)
EXTENDS AccessMonitor, TLAPS

(***************************************************************************)
(* The steps, by what they do to a stream                                  *)
(***************************************************************************)

\* The reads of the log that go on.
Goes ==
  /\ flight = "awaiting" /\ ~cancelling /\ ~cancelFailed
  /\ flight' = IF client THEN "reading" ELSE "connecting"
  /\ RestOfMonitor /\ UNCHANGED <<db, sync, stage, proxy>>
Connects ==
  /\ flight = "connecting" /\ client' = TRUE /\ flight' = "reading"
  /\ UNCHANGED <<db, cursor, caughtUp, unavailable, cancelling, cancelFailed, from, target, sync, stage, proxy>>
NothingNew ==
  /\ flight = "reading" /\ client /\ Initial = Len(log) /\ Advance(Len(log))
  /\ UNCHANGED <<db, client, cancelling, cancelFailed, stage, proxy>>
Reads ==
  /\ flight = "reading" /\ client /\ from' = Initial /\ target' = Len(log) /\ flight' = "fetching"
  /\ UNCHANGED <<db, client, cursor, caughtUp, unavailable, cancelling, cancelFailed, sync, stage, proxy>>
Settles ==
  /\ flight = "notifying" /\ client /\ flight' = "acking"
  /\ RestOfMonitor /\ UNCHANGED <<db, sync, stage, proxy>>

\* One stream is closed.
Closes(s) ==
  /\ Destroy({s}) /\ (UNCHANGED sync \/ Proceeds(s))
  /\ UNCHANGED <<db, monitor>>

\* The outcomes of a renewal that leave the stream open.
Denied(s) ==
  /\ Synced(s, "renew2") /\ Proceeds(s) /\ lease[s] = "due" /\ Stage(s, "open")
  /\ UNCHANGED <<db, monitor, proxy>>
Extends(s) ==
  /\ Synced(s, "renew2") /\ Proceeds(s) /\ lease[s] = "armed" /\ read[s] # Refusal
  /\ Stage(s, "open") /\ Holds(s)
  /\ UNCHANGED <<db, monitor, ref, lease>>

\* Every step is one of these.
LEMMA Steps ==
  ASSUME [Next]_vars
  PROVE  \/ FlightFails \/ Goes \/ Connects \/ Reads \/ NothingNew \/ Fetch \/ Settles
         \/ Acknowledge \/ CancellationSettles \/ ConnectionLost \/ Wake \/ PeerAcknowledges
         \/ \E s \in Sockets : \/ Upgrade(s) \/ Closes(s) \/ ReferencedLate(s) \/ Referenced(s)
                               \/ AuthorityRead(s) \/ Revalidate(s) \/ Qualify(s) \/ Requalify(s)
                               \/ Revalidated(s) \/ Register(s) \/ Denied(s) \/ Extends(s)
                               \/ Expire(s) \/ Renew(s) \/ Commit(s)
         \/ UNCHANGED vars
<1>1. AwaitCancellations => FlightFails \/ Goes
  BY Zenon DEF AwaitCancellations, Goes
<1>2. Connect => FlightFails \/ Connects
  BY DEF Connect, Connects, db, monitor, proxy
<1>3. QueryFails => FlightFails
  BY DEF QueryFails
<1>4. ReadRevision => NothingNew \/ Reads
  BY DEF ReadRevision, NothingNew, Reads, db, proxy
<1>5. NotifySettles => FlightFails \/ Settles
  BY DEF NotifySettles, Settles, db, proxy
<1>6. ASSUME NEW s \in Sockets
      PROVE  SyncFailed(s) \/ Refused(s) \/ ClientCloses(s) \/ ExpiryTimer(s) => Closes(s)
  BY DEF SyncFailed, Refused, ClientCloses, ExpiryTimer, Closes, db, monitor
<1>7. ASSUME NEW s \in Sockets
      PROVE  Renewed(s) => Denied(s) \/ Closes(s) \/ Extends(s)
  BY DEF Renewed, Denied, Closes, Extends, db, monitor, proxy
<1>. QED
  BY <1>1, <1>2, <1>3, <1>4, <1>5, <1>6, <1>7, Zenon DEF Next, Drain, Admission, Renewal

\* What a destroy does to one socket: everything that depends on it, or nothing.
Hit(s) ==
  /\ stage[s] \notin {"new", "doomed", "gone"}
  /\ stage'[s] \in {"doomed", "gone"} /\ (stage'[s] = "doomed" => Referencing(s))
  /\ ref'[s] = FALSE /\ lease'[s] = "none" /\ read'[s] = Unchanged /\ held'[s] = Fresh
  /\ late'[s] = FALSE
Kept(s) ==
  stage'[s] = stage[s] /\ read'[s] = read[s] /\ held'[s] = held[s] /\ late'[s] = late[s]
Missed(s) == Kept(s) /\ ref'[s] = ref[s] /\ lease'[s] = lease[s]

\* The sockets in dead that are known to the proxy are hit, all others missed.
LEMMA DestroyEach ==
  ASSUME TypeProxy, NEW dead, Destroy(dead), NEW s \in Sockets
  PROVE  /\ Hit(s) \/ Missed(s)
         /\ s \in dead /\ stage[s] \notin {"new", "doomed", "gone"} => Hit(s)
         /\ s \notin dead => Missed(s)
<1>. DEFINE hit == {t \in dead : stage[t] \notin {"new", "doomed", "gone"}}
<1>1. /\ stage'[s] = IF s \notin hit THEN stage[s] ELSE IF Referencing(s) THEN "doomed" ELSE "gone"
      /\ lease'[s] = IF s \in hit THEN "none" ELSE lease[s]
      /\ read'[s] = IF s \in hit THEN Unchanged ELSE read[s]
      /\ held'[s] = IF s \in hit THEN Fresh ELSE held[s]
  BY Zenon DEF Destroy
<1>2. ref'[s] = (ref[s] /\ s \notin hit) /\ late'[s] = (late[s] /\ s \notin hit)
  BY Zenon DEF Destroy
<1>3. ref[s] \in BOOLEAN /\ late[s] \in BOOLEAN
  BY DEF TypeProxy
<1>4. CASE s \in hit
  <2>1. ref'[s] = FALSE /\ late'[s] = FALSE
    BY <1>2, <1>4, Zenon
  <2>. QED
    BY <1>1, <1>4, <2>1 DEF Hit
<1>5. CASE s \notin hit
  <2>1. ref'[s] = ref[s] /\ late'[s] = late[s]
    BY <1>2, <1>3, <1>5, Zenon
  <2>. QED
    BY <1>1, <1>5, <2>1 DEF Missed, Kept
<1>. QED
  BY <1>4, <1>5

\* The types of what a destroy assigns.
LEMMA DestroyType ==
  ASSUME TypeProxy, MaxRevisions \in Nat, NEW dead, Destroy(dead)
  PROVE  TypeProxy'
<1>1. \A s \in Sockets : Hit(s) \/ Missed(s)
  BY DestroyEach
<1>2. Unchanged \in 0 .. Unchanged /\ Fresh \in [at : 0 .. Unchanged, late : BOOLEAN]
  BY DEF Unchanged, Fresh
<1>3. \A s \in Sockets :
        /\ stage'[s] \in {"new", "sync1", "sync2", "sync3", "sync4", "open", "renew1", "renew2", "doomed", "gone"}
        /\ ref'[s] \in BOOLEAN /\ lease'[s] \in {"none", "armed", "due"}
        /\ read'[s] \in 0 .. Unchanged /\ late'[s] \in BOOLEAN
        /\ held'[s] \in [at : 0 .. Unchanged, late : BOOLEAN]
  <2>. TAKE s \in Sockets
  <2>1. CASE Hit(s)
    BY <1>2, <2>1 DEF Hit
  <2>2. CASE Missed(s)
    BY <2>2 DEF Missed, Kept, TypeProxy
  <2>. QED
    BY <1>1, <2>1, <2>2
<1>4. /\ stage' = [s \in Sockets |-> stage'[s]] /\ ref' = [s \in Sockets |-> ref'[s]]
      /\ lease' = [s \in Sockets |-> lease'[s]] /\ read' = [s \in Sockets |-> read'[s]]
      /\ late' = [s \in Sockets |-> late'[s]] /\ held' = [s \in Sockets |-> held'[s]]
  BY DEF Destroy
<1>. QED
  BY <1>3, <1>4, Zenon DEF TypeProxy, Unchanged

\* A disconnect closes every stream, or comes while nobody is connected.
LEMMA DisconnectEach ==
  ASSUME TypeProxy, Disconnect, NEW s \in Sockets
  PROVE  /\ Hit(s) \/ Missed(s)
         /\ stage[s] \notin {"new", "doomed", "gone"} /\ client => Hit(s)
         /\ ~client' /\ cancelling'
<1>1. ~client' /\ cancelling'
  BY DEF Disconnect
<1>2. CASE DisconnectWaits
  BY <1>1, <1>2 DEF Disconnect, DisconnectWaits, NobodyDies, proxy, Missed, Kept
<1>3. CASE ~DisconnectWaits
  BY <1>1, <1>3, DestroyEach DEF Disconnect
<1>. QED
  BY <1>2, <1>3

(***************************************************************************)
(* Types                                                                   *)
(***************************************************************************)

\* The bounds are natural numbers, and the timer is no socket.
LEMMA Bounds == MaxRevisions \in Nat /\ Poll \in Callers /\ Sockets \subseteq Callers
BY AccessAssumption DEF Callers

\* The cursor and the read under way stay within the log.
CursorInv ==
  /\ Len(log) <= MaxRevisions
  /\ cursor = NoCursor \/ cursor <= Len(log)
  /\ flight \in {"fetching", "notifying", "acking"} =>
       target <= Len(log) /\ (cursor = NoCursor \/ from = cursor)

\* Every step keeps the types of the monitor.
LEMMA TypeMonitorNext ==
  ASSUME TypeMonitor, CursorInv, [Next]_vars
  PROVE  TypeMonitor'
<1>. USE DEF db, monitor, proxy
<1>0. MaxRevisions \in Nat /\ Poll \in Callers /\ Sockets \subseteq Callers
  BY Bounds
<1>1. CASE FlightFails
  <2>1. Told(Poll, "failed") = "no" /\ \A c \in Callers : Told(c, "failed") \in {"no", "failed"}
    BY DEF Told
  <2>2. sync' \in [Callers -> {"no", "this", "next", "ok", "failed", "checked"}]
    BY <1>1, <2>1 DEF FlightFails, TypeMonitor
  <2>. QED
    BY <1>0, <1>1, <2>2 DEF FlightFails, TypeMonitor
<1>2. CASE Goes
  BY <1>0, <1>2 DEF Goes, RestOfMonitor, TypeMonitor
<1>3. CASE Connects
  BY <1>0, <1>3 DEF Connects, TypeMonitor
<1>4. CASE Reads
  BY <1>0, <1>4 DEF Reads, Initial, NoCursor, CursorInv, TypeMonitor
<1>5. CASE NothingNew
  <2>1. \A c \in Callers : Told(c, "ok") \in {"no", "ok"}
    BY DEF Told
  <2>2. sync' \in [Callers -> {"no", "this", "next", "ok", "failed", "checked"}]
    BY <1>5, <2>1 DEF NothingNew, Advance, FlightSucceeds, TypeMonitor
  <2>3. flight' \in {"none", "awaiting"}
    BY <1>5 DEF NothingNew, Advance, FlightSucceeds
  <2>. QED
    BY <1>0, <1>5, <2>2, <2>3 DEF NothingNew, Advance, TypeMonitor, CursorInv, NoCursor
<1>6. CASE Fetch
  BY <1>0, <1>6 DEF Fetch, RestOfMonitor, TypeMonitor
<1>7. CASE Settles
  BY <1>0, <1>7 DEF Settles, RestOfMonitor, TypeMonitor
<1>8. CASE Acknowledge
  <2>1. \A c \in Callers : Told(c, "ok") \in {"no", "ok"}
    BY DEF Told
  <2>2. sync' \in [Callers -> {"no", "this", "next", "ok", "failed", "checked"}]
    BY <1>8, <2>1 DEF Acknowledge, Advance, FlightSucceeds, TypeMonitor
  <2>3. flight' \in {"none", "awaiting"}
    BY <1>8 DEF Acknowledge, Advance, FlightSucceeds
  <2>. QED
    BY <1>0, <1>8, <2>2, <2>3 DEF Acknowledge, Advance, TypeMonitor, CursorInv, NoCursor
<1>9. CASE CancellationSettles
  BY <1>0, <1>9 DEF CancellationSettles, TypeMonitor
<1>10. CASE ConnectionLost
  BY <1>0, <1>10 DEF ConnectionLost, TypeMonitor
<1>11. CASE Wake
  BY <1>0, <1>11 DEF Wake, Synchronize, RestOfMonitor, TypeMonitor
<1>12. CASE PeerAcknowledges
  BY <1>0, <1>12 DEF PeerAcknowledges, TypeMonitor
<1>13. ASSUME NEW s \in Sockets, Upgrade(s)
       PROVE  TypeMonitor'
  BY <1>0, <1>13 DEF Upgrade, Synchronize, RestOfMonitor, Stage, TypeMonitor
<1>14. ASSUME NEW s \in Sockets, Closes(s)
       PROVE  TypeMonitor'
  BY <1>0, <1>14 DEF Closes, Proceeds, TypeMonitor
<1>15. ASSUME NEW s \in Sockets, ReferencedLate(s)
       PROVE  TypeMonitor'
  BY <1>0, <1>15 DEF ReferencedLate, Stage, TypeMonitor
<1>16. ASSUME NEW s \in Sockets, Referenced(s)
       PROVE  TypeMonitor'
  BY <1>0, <1>16 DEF Referenced, Synced, Synchronize, RestOfMonitor, Stage, TypeMonitor
<1>17. ASSUME NEW s \in Sockets, AuthorityRead(s)
       PROVE  TypeMonitor'
  BY <1>0, <1>17 DEF AuthorityRead, TypeMonitor
<1>18. ASSUME NEW s \in Sockets, Revalidate(s)
       PROVE  TypeMonitor'
  BY <1>0, <1>18 DEF Revalidate, Confirm, Asks, Synchronize, RestOfMonitor, Stage,
    TypeMonitor
<1>19. ASSUME NEW s \in Sockets, Qualify(s)
       PROVE  TypeMonitor'
  BY <1>0, <1>19 DEF Qualify, Confirm, Asks, Synchronize, RestOfMonitor, Stage,
    TypeMonitor
<1>20. ASSUME NEW s \in Sockets, Requalify(s)
       PROVE  TypeMonitor'
  BY <1>0, <1>20 DEF Requalify, Confirm, Asks, Synchronize, RestOfMonitor, Stage,
    TypeMonitor
<1>21. ASSUME NEW s \in Sockets, Revalidated(s)
       PROVE  TypeMonitor'
  BY <1>0, <1>21 DEF Revalidated, Holds, Synced, Proceeds, Stage, TypeMonitor
<1>22. ASSUME NEW s \in Sockets, Register(s)
       PROVE  TypeMonitor'
  BY <1>0, <1>22 DEF Register, Holds, Synced, Proceeds, Stage, TypeMonitor
<1>23. ASSUME NEW s \in Sockets, Denied(s)
       PROVE  TypeMonitor'
  BY <1>0, <1>23 DEF Denied, Synced, Proceeds, Stage, TypeMonitor
<1>24. ASSUME NEW s \in Sockets, Extends(s)
       PROVE  TypeMonitor'
  BY <1>0, <1>24 DEF Extends, Holds, Synced, Proceeds, Stage, TypeMonitor
<1>25. ASSUME NEW s \in Sockets, Expire(s)
       PROVE  TypeMonitor'
  BY <1>0, <1>25 DEF Expire, TypeMonitor
<1>26. ASSUME NEW s \in Sockets, Renew(s)
       PROVE  TypeMonitor'
  BY <1>0, <1>26 DEF Renew, Synchronize, RestOfMonitor, Stage, TypeMonitor
<1>27. ASSUME NEW s \in Sockets, Commit(s)
       PROVE  TypeMonitor'
  <2>1. log' \in Seq(Sockets) /\ Len(log') = Len(log) + 1 /\ Len(log) \in Nat
    BY <1>27 DEF Commit, TypeMonitor
  <2>. QED
    BY <1>0, <1>27, <2>1 DEF Commit, TypeMonitor, CursorInv
<1>28. CASE UNCHANGED vars
  BY <1>0, <1>28 DEF vars, TypeMonitor
<1>. QED
  BY Steps, <1>1, <1>2, <1>3, <1>4, <1>5, <1>6, <1>7, <1>8, <1>9, <1>10, <1>11, <1>12,
     <1>13, <1>14, <1>15, <1>16, <1>17, <1>18, <1>19, <1>20, <1>21, <1>22, <1>23, <1>24,
     <1>25, <1>26, <1>27, <1>28, Zenon

\* Every step keeps it.
LEMMA CursorNext ==
  ASSUME TypeMonitor, CursorInv, [Next]_vars
  PROVE  CursorInv'
<1>. USE DEF db, monitor, proxy
<1>0. MaxRevisions \in Nat
  BY Bounds
<1>1. CASE FlightFails
  BY <1>0, <1>1 DEF FlightFails, CursorInv
<1>2. CASE Goes
  BY <1>0, <1>2 DEF Goes, RestOfMonitor, CursorInv
<1>3. CASE Connects
  BY <1>0, <1>3 DEF Connects, CursorInv
<1>4. CASE Reads
  <2>1. Len(log) \in Nat /\ applied \in 0 .. Len(log) /\ cursor \in 0 .. NoCursor
    BY DEF TypeMonitor
  <2>. QED
    BY <1>0, <1>4, <2>1 DEF Reads, Initial, CursorInv, NoCursor
<1>5. CASE NothingNew
  <2>1. Len(log) \in Nat /\ {from, target} \subseteq 0 .. MaxRevisions
    BY DEF TypeMonitor
  <2>2. flight' \in {"none", "awaiting"} /\ log' = log
    BY <1>5 DEF NothingNew, Advance, FlightSucceeds
  <2>. QED
    BY <1>0, <1>5, <2>1, <2>2 DEF NothingNew, Advance, CursorInv, NoCursor
<1>6. CASE Fetch
  BY <1>0, <1>6 DEF Fetch, RestOfMonitor, CursorInv
<1>7. CASE Settles
  BY <1>0, <1>7 DEF Settles, RestOfMonitor, CursorInv
<1>8. CASE Acknowledge
  <2>1. Len(log) \in Nat /\ {from, target} \subseteq 0 .. MaxRevisions
    BY DEF TypeMonitor
  <2>2. flight' \in {"none", "awaiting"} /\ log' = log
    BY <1>8 DEF Acknowledge, Advance, FlightSucceeds
  <2>. QED
    BY <1>0, <1>8, <2>1, <2>2 DEF Acknowledge, Advance, CursorInv, NoCursor
<1>9. CASE CancellationSettles
  BY <1>0, <1>9 DEF CancellationSettles, CursorInv
<1>10. CASE ConnectionLost
  BY <1>0, <1>10 DEF ConnectionLost, CursorInv
<1>11. CASE Wake
  BY <1>0, <1>11 DEF Wake, Synchronize, RestOfMonitor, CursorInv
<1>12. CASE PeerAcknowledges
  BY <1>0, <1>12 DEF PeerAcknowledges, CursorInv
<1>13. ASSUME NEW s \in Sockets, Upgrade(s)
       PROVE  CursorInv'
  BY <1>0, <1>13 DEF Upgrade, Synchronize, RestOfMonitor, Stage, CursorInv
<1>14. ASSUME NEW s \in Sockets, Closes(s)
       PROVE  CursorInv'
  BY <1>0, <1>14 DEF Closes, Proceeds, CursorInv
<1>15. ASSUME NEW s \in Sockets, ReferencedLate(s)
       PROVE  CursorInv'
  BY <1>0, <1>15 DEF ReferencedLate, Stage, CursorInv
<1>16. ASSUME NEW s \in Sockets, Referenced(s)
       PROVE  CursorInv'
  BY <1>0, <1>16 DEF Referenced, Synced, Synchronize, RestOfMonitor, Stage, CursorInv
<1>17. ASSUME NEW s \in Sockets, AuthorityRead(s)
       PROVE  CursorInv'
  BY <1>0, <1>17 DEF AuthorityRead, CursorInv
<1>18. ASSUME NEW s \in Sockets, Revalidate(s)
       PROVE  CursorInv'
  BY <1>0, <1>18 DEF Revalidate, Confirm, Asks, Synchronize, RestOfMonitor, Stage,
    CursorInv
<1>19. ASSUME NEW s \in Sockets, Qualify(s)
       PROVE  CursorInv'
  BY <1>0, <1>19 DEF Qualify, Confirm, Asks, Synchronize, RestOfMonitor, Stage, CursorInv
<1>20. ASSUME NEW s \in Sockets, Requalify(s)
       PROVE  CursorInv'
  BY <1>0, <1>20 DEF Requalify, Confirm, Asks, Synchronize, RestOfMonitor, Stage,
    CursorInv
<1>21. ASSUME NEW s \in Sockets, Revalidated(s)
       PROVE  CursorInv'
  BY <1>0, <1>21 DEF Revalidated, Holds, Synced, Proceeds, Stage, CursorInv
<1>22. ASSUME NEW s \in Sockets, Register(s)
       PROVE  CursorInv'
  BY <1>0, <1>22 DEF Register, Holds, Synced, Proceeds, Stage, CursorInv
<1>23. ASSUME NEW s \in Sockets, Denied(s)
       PROVE  CursorInv'
  BY <1>0, <1>23 DEF Denied, Synced, Proceeds, Stage, CursorInv
<1>24. ASSUME NEW s \in Sockets, Extends(s)
       PROVE  CursorInv'
  BY <1>0, <1>24 DEF Extends, Holds, Synced, Proceeds, Stage, CursorInv
<1>25. ASSUME NEW s \in Sockets, Expire(s)
       PROVE  CursorInv'
  BY <1>0, <1>25 DEF Expire, CursorInv
<1>26. ASSUME NEW s \in Sockets, Renew(s)
       PROVE  CursorInv'
  BY <1>0, <1>26 DEF Renew, Synchronize, RestOfMonitor, Stage, CursorInv
<1>27. ASSUME NEW s \in Sockets, Commit(s)
       PROVE  CursorInv'
  <2>1. log' \in Seq(Sockets) /\ Len(log') = Len(log) + 1 /\ Len(log) \in Nat /\ Len(log) < MaxRevisions
    BY <1>27 DEF Commit, TypeMonitor
  <2>. QED
    BY <1>0, <1>27, <2>1 DEF Commit, CursorInv, NoCursor, TypeMonitor
<1>28. CASE UNCHANGED vars
  BY <1>0, <1>28 DEF vars, CursorInv
<1>. QED
  BY Steps, <1>1, <1>2, <1>3, <1>4, <1>5, <1>6, <1>7, <1>8, <1>9, <1>10, <1>11, <1>12,
     <1>13, <1>14, <1>15, <1>16, <1>17, <1>18, <1>19, <1>20, <1>21, <1>22, <1>23, <1>24,
     <1>25, <1>26, <1>27, <1>28, Zenon

\* Every step keeps the flags.
LEMMA TypeFlagsNext ==
  ASSUME TypeFlags, [Next]_vars
  PROVE  TypeFlags'
<1>. USE DEF db, monitor, proxy
<1>1. CASE FlightFails
  BY <1>1, Zenon DEF FlightFails, Disconnect, TypeFlags
<1>2. CASE Goes
  BY <1>2, Zenon DEF Goes, RestOfMonitor, TypeFlags
<1>3. CASE Connects
  BY <1>3, Zenon DEF Connects, TypeFlags
<1>4. CASE Reads
  BY <1>4, Zenon DEF Reads, TypeFlags
<1>5. CASE NothingNew
  BY <1>5, Zenon DEF NothingNew, Advance, FlightSucceeds, TypeFlags
<1>6. CASE Fetch
  BY <1>6, Zenon DEF Fetch, RestOfMonitor, TypeFlags
<1>7. CASE Settles
  BY <1>7, Zenon DEF Settles, RestOfMonitor, TypeFlags
<1>8. CASE Acknowledge
  BY <1>8, Zenon DEF Acknowledge, Advance, FlightSucceeds, TypeFlags
<1>9. CASE CancellationSettles
  BY <1>9, Zenon DEF CancellationSettles, TypeFlags
<1>10. CASE ConnectionLost
  BY <1>10, Zenon DEF ConnectionLost, Disconnect, TypeFlags
<1>11. CASE Wake
  BY <1>11, Zenon DEF Wake, Synchronize, RestOfMonitor, TypeFlags
<1>12. CASE PeerAcknowledges
  BY <1>12, Zenon DEF PeerAcknowledges, TypeFlags
<1>13. ASSUME NEW s \in Sockets, Upgrade(s)
       PROVE  TypeFlags'
  BY <1>13, Zenon DEF Upgrade, Synchronize, RestOfMonitor, Stage, TypeFlags
<1>14. ASSUME NEW s \in Sockets, Closes(s)
       PROVE  TypeFlags'
  BY <1>14, Zenon DEF Closes, Proceeds, TypeFlags
<1>15. ASSUME NEW s \in Sockets, ReferencedLate(s)
       PROVE  TypeFlags'
  BY <1>15, Zenon DEF ReferencedLate, Stage, TypeFlags
<1>16. ASSUME NEW s \in Sockets, Referenced(s)
       PROVE  TypeFlags'
  BY <1>16, Zenon DEF Referenced, Synced, Synchronize, RestOfMonitor, Stage, TypeFlags
<1>17. ASSUME NEW s \in Sockets, AuthorityRead(s)
       PROVE  TypeFlags'
  BY <1>17, Zenon DEF AuthorityRead, TypeFlags
<1>18. ASSUME NEW s \in Sockets, Revalidate(s)
       PROVE  TypeFlags'
  BY <1>18, Zenon DEF Revalidate, Confirm, Asks, Synchronize, RestOfMonitor, Stage,
     TypeFlags
<1>19. ASSUME NEW s \in Sockets, Qualify(s)
       PROVE  TypeFlags'
  BY <1>19, Zenon DEF Qualify, Confirm, Asks, Synchronize, RestOfMonitor, Stage, TypeFlags
<1>20. ASSUME NEW s \in Sockets, Requalify(s)
       PROVE  TypeFlags'
  BY <1>20, Zenon DEF Requalify, Confirm, Asks, Synchronize, RestOfMonitor, Stage, TypeFlags
<1>21. ASSUME NEW s \in Sockets, Revalidated(s)
       PROVE  TypeFlags'
  BY <1>21, Zenon DEF Revalidated, Holds, Synced, Proceeds, Stage, TypeFlags
<1>22. ASSUME NEW s \in Sockets, Register(s)
       PROVE  TypeFlags'
  BY <1>22, Zenon DEF Register, Holds, Synced, Proceeds, Stage, TypeFlags
<1>23. ASSUME NEW s \in Sockets, Denied(s)
       PROVE  TypeFlags'
  BY <1>23, Zenon DEF Denied, Synced, Proceeds, Stage, TypeFlags
<1>24. ASSUME NEW s \in Sockets, Extends(s)
       PROVE  TypeFlags'
  BY <1>24, Zenon DEF Extends, Holds, Synced, Proceeds, Stage, TypeFlags
<1>25. ASSUME NEW s \in Sockets, Expire(s)
       PROVE  TypeFlags'
  BY <1>25, Zenon DEF Expire, TypeFlags
<1>26. ASSUME NEW s \in Sockets, Renew(s)
       PROVE  TypeFlags'
  BY <1>26, Zenon DEF Renew, Synchronize, RestOfMonitor, Stage, TypeFlags
<1>27. ASSUME NEW s \in Sockets, Commit(s)
       PROVE  TypeFlags'
  BY <1>27, Zenon DEF Commit, TypeFlags
<1>28. CASE UNCHANGED vars
  BY <1>28 DEF vars, TypeFlags
<1>. QED
  BY Steps, <1>1, <1>2, <1>3, <1>4, <1>5, <1>6, <1>7, <1>8, <1>9, <1>10, <1>11, <1>12,
     <1>13, <1>14, <1>15, <1>16, <1>17, <1>18, <1>19, <1>20, <1>21, <1>22, <1>23, <1>24,
     <1>25, <1>26, <1>27, <1>28, Zenon

\* Every step keeps the types of the proxy.
LEMMA TypeProxyNext ==
  ASSUME TypeMonitor, TypeProxy, [Next]_vars
  PROVE  TypeProxy'
<1>. USE DEF db, monitor, proxy
<1>0. MaxRevisions \in Nat /\ Len(log) \in Nat
  BY Bounds DEF TypeMonitor
<1>1. CASE FlightFails
  <2>1. CASE DisconnectWaits
    BY <1>1, <2>1 DEF FlightFails, Disconnect, NobodyDies, TypeProxy
  <2>2. CASE ~DisconnectWaits
    BY <1>0, <1>1, <2>2, DestroyType DEF FlightFails, Disconnect
  <2>. QED
    BY <2>1, <2>2
<1>2. CASE Goes
  BY <1>0, <1>2 DEF Goes, RestOfMonitor, TypeProxy
<1>3. CASE Connects
  BY <1>0, <1>3 DEF Connects, TypeProxy
<1>4. CASE Reads
  BY <1>0, <1>4 DEF Reads, TypeProxy
<1>5. CASE NothingNew
  BY <1>0, <1>5 DEF NothingNew, Advance, FlightSucceeds, TypeProxy
<1>6. CASE Fetch
  BY <1>0, <1>6, DestroyType DEF Fetch
<1>7. CASE Settles
  BY <1>0, <1>7 DEF Settles, RestOfMonitor, TypeProxy
<1>8. CASE Acknowledge
  BY <1>0, <1>8 DEF Acknowledge, Advance, FlightSucceeds, TypeProxy
<1>9. CASE CancellationSettles
  BY <1>0, <1>9 DEF CancellationSettles, TypeProxy
<1>10. CASE ConnectionLost
  <2>1. CASE DisconnectWaits
    BY <1>10, <2>1 DEF ConnectionLost, Disconnect, NobodyDies, TypeProxy
  <2>2. CASE ~DisconnectWaits
    BY <1>0, <1>10, <2>2, DestroyType DEF ConnectionLost, Disconnect
  <2>. QED
    BY <2>1, <2>2
<1>11. CASE Wake
  BY <1>0, <1>11 DEF Wake, Synchronize, RestOfMonitor, TypeProxy
<1>12. CASE PeerAcknowledges
  BY <1>0, <1>12 DEF PeerAcknowledges, TypeProxy
<1>13. ASSUME NEW s \in Sockets, Upgrade(s)
       PROVE  TypeProxy'
  BY <1>0, <1>13 DEF Upgrade, Synchronize, RestOfMonitor, Stage, TypeProxy
<1>14. ASSUME NEW s \in Sockets, Closes(s)
       PROVE  TypeProxy'
  BY <1>0, <1>14, DestroyType DEF Closes
<1>15. ASSUME NEW s \in Sockets, ReferencedLate(s)
       PROVE  TypeProxy'
  BY <1>0, <1>15 DEF ReferencedLate, Stage, TypeProxy
<1>16. ASSUME NEW s \in Sockets, Referenced(s)
       PROVE  TypeProxy'
  BY <1>0, <1>16 DEF Referenced, Synced, Synchronize, RestOfMonitor, Stage, TypeProxy
<1>17. ASSUME NEW s \in Sockets, AuthorityRead(s)
       PROVE  TypeProxy'
  <2>1. Refusal \in 0 .. Unchanged /\ Unchanged \in 0 .. Unchanged
    BY <1>0 DEF Refusal, Unchanged
  <2>. QED
    BY <1>0, <1>17, <2>1 DEF AuthorityRead, TypeProxy
<1>18. ASSUME NEW s \in Sockets, Revalidate(s)
       PROVE  TypeProxy'
  <2>1. late' \in [Sockets -> BOOLEAN]
    BY <1>18 DEF Revalidate, Confirm, Asks, TypeProxy
  <2>. QED
    BY <1>18, <2>1 DEF Revalidate, Confirm, Stage, TypeProxy
<1>19. ASSUME NEW s \in Sockets, Qualify(s)
       PROVE  TypeProxy'
  <2>1. late' \in [Sockets -> BOOLEAN]
    BY <1>19 DEF Qualify, Confirm, Asks, TypeProxy
  <2>. QED
    BY <1>19, <2>1 DEF Qualify, Confirm, Stage, TypeProxy
<1>20. ASSUME NEW s \in Sockets, Requalify(s)
       PROVE  TypeProxy'
  <2>1. late' \in [Sockets -> BOOLEAN]
    BY <1>20 DEF Requalify, Confirm, Asks, TypeProxy
  <2>. QED
    BY <1>20, <2>1 DEF Requalify, Confirm, Stage, TypeProxy
<1>21. ASSUME NEW s \in Sockets, Revalidated(s)
       PROVE  TypeProxy'
  <2>1. Unchanged \in 0 .. Unchanged
    BY <1>0 DEF Unchanged
  <2>2. held' \in [Sockets -> [at : 0 .. Unchanged, late : BOOLEAN]]
    BY <1>21 DEF Revalidated, Holds, TypeProxy
  <2>3. read' \in [Sockets -> 0 .. Unchanged] /\ late' \in [Sockets -> BOOLEAN]
    BY <1>21, <2>1 DEF Revalidated, Holds, TypeProxy
  <2>. QED
    BY <1>21, <2>2, <2>3 DEF Revalidated, Stage, TypeProxy
<1>22. ASSUME NEW s \in Sockets, Register(s)
       PROVE  TypeProxy'
  <2>1. Unchanged \in 0 .. Unchanged
    BY <1>0 DEF Unchanged
  <2>2. held' \in [Sockets -> [at : 0 .. Unchanged, late : BOOLEAN]]
    BY <1>22 DEF Register, Holds, TypeProxy
  <2>3. read' \in [Sockets -> 0 .. Unchanged] /\ late' \in [Sockets -> BOOLEAN]
    BY <1>22, <2>1 DEF Register, Holds, TypeProxy
  <2>. QED
    BY <1>22, <2>2, <2>3 DEF Register, Stage, TypeProxy
<1>23. ASSUME NEW s \in Sockets, Denied(s)
       PROVE  TypeProxy'
  BY <1>0, <1>23 DEF Denied, Synced, Proceeds, Stage, TypeProxy
<1>24. ASSUME NEW s \in Sockets, Extends(s)
       PROVE  TypeProxy'
  <2>1. Unchanged \in 0 .. Unchanged
    BY <1>0 DEF Unchanged
  <2>2. held' \in [Sockets -> [at : 0 .. Unchanged, late : BOOLEAN]]
    BY <1>24 DEF Extends, Holds, TypeProxy
  <2>3. read' \in [Sockets -> 0 .. Unchanged] /\ late' \in [Sockets -> BOOLEAN]
    BY <1>24, <2>1 DEF Extends, Holds, TypeProxy
  <2>. QED
    BY <1>24, <2>2, <2>3 DEF Extends, Stage, TypeProxy
<1>25. ASSUME NEW s \in Sockets, Expire(s)
       PROVE  TypeProxy'
  BY <1>0, <1>25 DEF Expire, TypeProxy
<1>26. ASSUME NEW s \in Sockets, Renew(s)
       PROVE  TypeProxy'
  BY <1>0, <1>26 DEF Renew, Synchronize, RestOfMonitor, Stage, TypeProxy
<1>27. ASSUME NEW s \in Sockets, Commit(s)
       PROVE  TypeProxy'
  <2>1. Len(log) + 1 \in 0 .. Unchanged
    BY <1>0, <1>27 DEF Commit, Unchanged
  <2>2. read' \in [Sockets -> 0 .. Unchanged]
    BY <1>27, <2>1 DEF Commit, TypeProxy
  <2>3. held' \in [Sockets -> [at : 0 .. Unchanged, late : BOOLEAN]]
    BY <1>27, <2>1 DEF Commit, TypeProxy
  <2>. QED
    BY <1>27, <2>2, <2>3 DEF Commit, TypeProxy
<1>28. CASE UNCHANGED vars
  BY <1>0, <1>28 DEF vars, TypeProxy
<1>. QED
  BY Steps, <1>1, <1>2, <1>3, <1>4, <1>5, <1>6, <1>7, <1>8, <1>9, <1>10, <1>11, <1>12,
     <1>13, <1>14, <1>15, <1>16, <1>17, <1>18, <1>19, <1>20, <1>21, <1>22, <1>23, <1>24,
     <1>25, <1>26, <1>27, <1>28, Zenon

(***************************************************************************)
(* The connection                                                          *)
(***************************************************************************)

\* Past its first read, a stream that is not gone.
Past(s) ==
  \/ stage[s] \in {"sync2", "sync3", "sync4", "open", "renew1", "renew2"}
  \/ stage[s] = "sync1" /\ sync[s] = "ok"

\* While a lost connection's traffic is cancelled, or after that failed, there is
\* no connection, and no stream is past its first read without one.
ConnInv ==
  /\ cancelling => ~client
  /\ cancelFailed => ~client
  /\ flight = "connecting" => ~client /\ ~cancelling /\ ~cancelFailed
  /\ \A s \in Sockets : Past(s) => client

\* Every step keeps it.
LEMMA ConnNext ==
  ASSUME TypeOK, ConnInv, [Next]_vars
  PROVE  ConnInv'
<1>. USE DEF db, monitor, proxy
<1>0. TypeProxy /\ TypeMonitor /\ Sockets \subseteq Callers /\ Poll \in Callers /\ Poll \notin Sockets
  BY Bounds, AccessAssumption DEF TypeOK
<1>1. CASE FlightFails
  <2>1. ASSUME NEW t \in Sockets, Past(t)' PROVE FALSE
    <3>0. Disconnect
      BY <1>1 DEF FlightFails
    <3>1. sync'[t] = IF sync[t] \in {"this", "next"} THEN Told(t, "failed") ELSE sync[t]
      BY <1>0, <1>1 DEF FlightFails
    <3>2. sync'[t] = "ok" => sync[t] = "ok"
      BY <3>1 DEF Told
    <3>3. Missed(t)
      BY <1>0, <2>1, <3>0, DisconnectEach DEF Past, Hit
    <3>4. Past(t)
      BY <2>1, <3>2, <3>3 DEF Past, Missed, Kept
    <3>5. client
      BY <3>4 DEF ConnInv
    <3>6. Hit(t)
      BY <1>0, <3>0, <3>4, <3>5, DisconnectEach DEF Past
    <3>. QED
      BY <2>1, <3>6 DEF Hit, Past
  <2>2. ~client' /\ flight' = "none"
    BY <1>1 DEF FlightFails, Disconnect
  <2>. QED
    BY <2>1, <2>2 DEF ConnInv
<1>2. CASE Goes
  BY <1>0, <1>2 DEF Goes, RestOfMonitor, ConnInv, Past, TypeMonitor, TypeProxy
<1>3. CASE Connects
  BY <1>0, <1>3 DEF Connects, ConnInv, Past, TypeMonitor, TypeProxy
<1>4. CASE Reads
  BY <1>0, <1>4 DEF Reads, ConnInv, Past, TypeMonitor, TypeProxy
<1>5. CASE NothingNew
  <2>1. client /\ flight' \in {"none", "awaiting"} /\ UNCHANGED <<client, cancelling, cancelFailed>>
    BY <1>5 DEF NothingNew, Advance, FlightSucceeds
  <2>. QED
    BY <2>1 DEF ConnInv
<1>6. CASE Fetch
  <2>1. client /\ flight' = "notifying" /\ UNCHANGED <<client, cancelling, cancelFailed>>
    BY <1>6 DEF Fetch, RestOfMonitor
  <2>. QED
    BY <2>1 DEF ConnInv
<1>7. CASE Settles
  BY <1>0, <1>7 DEF Settles, RestOfMonitor, ConnInv, Past, TypeMonitor, TypeProxy
<1>8. CASE Acknowledge
  <2>1. client /\ flight' \in {"none", "awaiting"} /\ UNCHANGED <<client, cancelling, cancelFailed>>
    BY <1>8 DEF Acknowledge, Advance, FlightSucceeds
  <2>. QED
    BY <2>1 DEF ConnInv
<1>9. CASE CancellationSettles
  BY <1>0, <1>9 DEF CancellationSettles, ConnInv, Past, TypeMonitor, TypeProxy
<1>10. CASE ConnectionLost
  <2>1. ASSUME NEW t \in Sockets, Past(t)' PROVE FALSE
    <3>0. Disconnect /\ client /\ sync' = sync
      BY <1>10 DEF ConnectionLost
    <3>1. Missed(t)
      BY <1>0, <2>1, <3>0, DisconnectEach DEF Past, Hit
    <3>2. Past(t)
      BY <2>1, <3>0, <3>1 DEF Past, Missed, Kept
    <3>3. Hit(t)
      BY <1>0, <3>0, <3>2, DisconnectEach DEF Past
    <3>. QED
      BY <2>1, <3>3 DEF Hit, Past
  <2>2. ~client' /\ client /\ UNCHANGED flight
    BY <1>10 DEF ConnectionLost, Disconnect
  <2>. QED
    BY <2>1, <2>2 DEF ConnInv
<1>11. CASE Wake
  BY <1>0, <1>11 DEF Wake, Synchronize, RestOfMonitor, ConnInv, Past, TypeMonitor,
    TypeProxy
<1>12. CASE PeerAcknowledges
  BY <1>0, <1>12 DEF PeerAcknowledges, ConnInv, Past, TypeMonitor, TypeProxy
<1>13. ASSUME NEW s \in Sockets, Upgrade(s)
       PROVE  ConnInv'
  BY <1>0, <1>13 DEF Upgrade, Synchronize, RestOfMonitor, Stage, ConnInv, Past,
    TypeMonitor, TypeProxy
<1>14. ASSUME NEW s \in Sockets, Closes(s)
       PROVE  ConnInv'
  <2>1. ASSUME NEW t \in Sockets, Past(t)' PROVE Past(t)
    <3>1. sync'[t] = "ok" => sync[t] = "ok"
      BY <1>0, <1>14 DEF Closes, Proceeds, TypeMonitor
    <3>2. Missed(t)
      BY <1>0, <1>14, <2>1, DestroyEach DEF Closes, Hit, Past
    <3>. QED
      BY <2>1, <3>1, <3>2 DEF Missed, Kept, Past
  <2>2. UNCHANGED <<client, cancelling, cancelFailed, flight>>
    BY <1>14 DEF Closes
  <2>. QED
    BY <2>1, <2>2 DEF ConnInv
<1>15. ASSUME NEW s \in Sockets, ReferencedLate(s)
       PROVE  ConnInv'
  BY <1>0, <1>15 DEF ReferencedLate, Stage, ConnInv, Past, TypeMonitor, TypeProxy
<1>16. ASSUME NEW s \in Sockets, Referenced(s)
       PROVE  ConnInv'
  BY <1>0, <1>16 DEF Referenced, Synced, Synchronize, RestOfMonitor, Stage, ConnInv, Past,
    TypeMonitor, TypeProxy
<1>17. ASSUME NEW s \in Sockets, AuthorityRead(s)
       PROVE  ConnInv'
  BY <1>0, <1>17 DEF AuthorityRead, ConnInv, Past, TypeMonitor, TypeProxy
<1>18. ASSUME NEW s \in Sockets, Revalidate(s)
       PROVE  ConnInv'
  BY <1>0, <1>18 DEF Revalidate, Confirm, Asks, Synchronize, RestOfMonitor, Stage,
    ConnInv, Past, TypeMonitor, TypeProxy
<1>19. ASSUME NEW s \in Sockets, Qualify(s)
       PROVE  ConnInv'
  BY <1>0, <1>19 DEF Qualify, Confirm, Asks, Synchronize, RestOfMonitor, Stage, ConnInv,
    Past, TypeMonitor, TypeProxy
<1>20. ASSUME NEW s \in Sockets, Requalify(s)
       PROVE  ConnInv'
  BY <1>0, <1>20 DEF Requalify, Confirm, Asks, Synchronize, RestOfMonitor, Stage, ConnInv,
    Past, TypeMonitor, TypeProxy
<1>21. ASSUME NEW s \in Sockets, Revalidated(s)
       PROVE  ConnInv'
  BY <1>0, <1>21 DEF Revalidated, Holds, Synced, Proceeds, Stage, ConnInv, Past,
    TypeMonitor, TypeProxy
<1>22. ASSUME NEW s \in Sockets, Register(s)
       PROVE  ConnInv'
  BY <1>0, <1>22 DEF Register, Holds, Synced, Proceeds, Stage, ConnInv, Past, TypeMonitor,
    TypeProxy
<1>23. ASSUME NEW s \in Sockets, Denied(s)
       PROVE  ConnInv'
  BY <1>0, <1>23 DEF Denied, Synced, Proceeds, Stage, ConnInv, Past, TypeMonitor,
    TypeProxy
<1>24. ASSUME NEW s \in Sockets, Extends(s)
       PROVE  ConnInv'
  BY <1>0, <1>24 DEF Extends, Holds, Synced, Proceeds, Stage, ConnInv, Past, TypeMonitor,
    TypeProxy
<1>25. ASSUME NEW s \in Sockets, Expire(s)
       PROVE  ConnInv'
  BY <1>0, <1>25 DEF Expire, ConnInv, Past, TypeMonitor, TypeProxy
<1>26. ASSUME NEW s \in Sockets, Renew(s)
       PROVE  ConnInv'
  BY <1>0, <1>26 DEF Renew, Synchronize, RestOfMonitor, Stage, ConnInv, Past, TypeMonitor,
    TypeProxy
<1>27. ASSUME NEW s \in Sockets, Commit(s)
       PROVE  ConnInv'
  BY <1>0, <1>27 DEF Commit, ConnInv, Past, TypeMonitor, TypeProxy
<1>28. CASE UNCHANGED vars
  BY <1>0, <1>28 DEF vars, ConnInv, Past, TypeMonitor, TypeProxy
<1>. QED
  BY Steps, <1>1, <1>2, <1>3, <1>4, <1>5, <1>6, <1>7, <1>8, <1>9, <1>10, <1>11, <1>12,
     <1>13, <1>14, <1>15, <1>16, <1>17, <1>18, <1>19, <1>20, <1>21, <1>22, <1>23, <1>24,
     <1>25, <1>26, <1>27, <1>28, Zenon

(***************************************************************************)
(* References and leases                                                   *)
(***************************************************************************)

\* References stay balanced.
LEMMA RefsNext ==
  ASSUME TypeOK, RefsBalanced, [Next]_vars
  PROVE  RefsBalanced'
<1>. USE DEF db, monitor, proxy
<1>0. TypeProxy
  BY DEF TypeOK
<1>1. CASE FlightFails
  <2>. SUFFICES ASSUME NEW t \in Sockets PROVE ref'[t] <=> stage'[t] \notin {"new", "sync1", "doomed", "gone"}
    BY DEF RefsBalanced
  <2>1. Hit(t) \/ Missed(t)
    BY <1>0, <1>1, DisconnectEach DEF FlightFails
  <2>. QED
    BY <2>1 DEF RefsBalanced, Hit, Missed, Kept, Open
<1>2. CASE Goes
  BY <1>0, <1>2 DEF Goes, RestOfMonitor, RefsBalanced, TypeProxy, Open
<1>3. CASE Connects
  BY <1>0, <1>3 DEF Connects, RefsBalanced, TypeProxy, Open
<1>4. CASE Reads
  BY <1>0, <1>4 DEF Reads, RefsBalanced, TypeProxy, Open
<1>5. CASE NothingNew
  BY <1>0, <1>5 DEF NothingNew, Advance, FlightSucceeds, RefsBalanced, TypeProxy, Open
<1>6. CASE Fetch
  <2>. SUFFICES ASSUME NEW t \in Sockets PROVE ref'[t] <=> stage'[t] \notin {"new", "sync1", "doomed", "gone"}
    BY DEF RefsBalanced
  <2>1. Hit(t) \/ Missed(t)
    BY <1>0, <1>6, DestroyEach DEF Fetch
  <2>. QED
    BY <2>1 DEF RefsBalanced, Hit, Missed, Kept, Open
<1>7. CASE Settles
  BY <1>0, <1>7 DEF Settles, RestOfMonitor, RefsBalanced, TypeProxy, Open
<1>8. CASE Acknowledge
  BY <1>0, <1>8 DEF Acknowledge, Advance, FlightSucceeds, RefsBalanced, TypeProxy, Open
<1>9. CASE CancellationSettles
  BY <1>0, <1>9 DEF CancellationSettles, RefsBalanced, TypeProxy, Open
<1>10. CASE ConnectionLost
  <2>. SUFFICES ASSUME NEW t \in Sockets PROVE ref'[t] <=> stage'[t] \notin {"new", "sync1", "doomed", "gone"}
    BY DEF RefsBalanced
  <2>1. Hit(t) \/ Missed(t)
    BY <1>0, <1>10, DisconnectEach DEF ConnectionLost
  <2>. QED
    BY <2>1 DEF RefsBalanced, Hit, Missed, Kept, Open
<1>11. CASE Wake
  BY <1>0, <1>11 DEF Wake, Synchronize, RestOfMonitor, RefsBalanced, TypeProxy, Open
<1>12. CASE PeerAcknowledges
  BY <1>0, <1>12 DEF PeerAcknowledges, RefsBalanced, TypeProxy, Open
<1>13. ASSUME NEW s \in Sockets, Upgrade(s)
       PROVE  RefsBalanced'
  BY <1>0, <1>13 DEF Upgrade, Synchronize, RestOfMonitor, Stage, RefsBalanced, TypeProxy,
    Open
<1>14. ASSUME NEW s \in Sockets, Closes(s)
       PROVE  RefsBalanced'
  <2>. SUFFICES ASSUME NEW t \in Sockets PROVE ref'[t] <=> stage'[t] \notin {"new", "sync1", "doomed", "gone"}
    BY DEF RefsBalanced
  <2>1. Hit(t) \/ Missed(t)
    BY <1>0, <1>14, DestroyEach DEF Closes
  <2>. QED
    BY <2>1 DEF RefsBalanced, Hit, Missed, Kept, Open
<1>15. ASSUME NEW s \in Sockets, ReferencedLate(s)
       PROVE  RefsBalanced'
  BY <1>0, <1>15 DEF ReferencedLate, Stage, RefsBalanced, TypeProxy, Open
<1>16. ASSUME NEW s \in Sockets, Referenced(s)
       PROVE  RefsBalanced'
  BY <1>0, <1>16 DEF Referenced, Synced, Synchronize, RestOfMonitor, Stage, RefsBalanced,
    TypeProxy, Open
<1>17. ASSUME NEW s \in Sockets, AuthorityRead(s)
       PROVE  RefsBalanced'
  BY <1>0, <1>17 DEF AuthorityRead, RefsBalanced, TypeProxy, Open
<1>18. ASSUME NEW s \in Sockets, Revalidate(s)
       PROVE  RefsBalanced'
  BY <1>0, <1>18 DEF Revalidate, Confirm, Asks, Synchronize, RestOfMonitor, Stage,
    RefsBalanced, TypeProxy, Open
<1>19. ASSUME NEW s \in Sockets, Qualify(s)
       PROVE  RefsBalanced'
  BY <1>0, <1>19 DEF Qualify, Confirm, Asks, Synchronize, RestOfMonitor, Stage,
    RefsBalanced, TypeProxy, Open
<1>20. ASSUME NEW s \in Sockets, Requalify(s)
       PROVE  RefsBalanced'
  BY <1>0, <1>20 DEF Requalify, Confirm, Asks, Synchronize, RestOfMonitor, Stage,
    RefsBalanced, TypeProxy, Open
<1>21. ASSUME NEW s \in Sockets, Revalidated(s)
       PROVE  RefsBalanced'
  BY <1>0, <1>21 DEF Revalidated, Holds, Synced, Proceeds, Stage, RefsBalanced, TypeProxy,
    Open
<1>22. ASSUME NEW s \in Sockets, Register(s)
       PROVE  RefsBalanced'
  BY <1>0, <1>22 DEF Register, Holds, Synced, Proceeds, Stage, RefsBalanced, TypeProxy,
    Open
<1>23. ASSUME NEW s \in Sockets, Denied(s)
       PROVE  RefsBalanced'
  BY <1>0, <1>23 DEF Denied, Synced, Proceeds, Stage, RefsBalanced, TypeProxy, Open
<1>24. ASSUME NEW s \in Sockets, Extends(s)
       PROVE  RefsBalanced'
  BY <1>0, <1>24 DEF Extends, Holds, Synced, Proceeds, Stage, RefsBalanced, TypeProxy,
    Open
<1>25. ASSUME NEW s \in Sockets, Expire(s)
       PROVE  RefsBalanced'
  BY <1>0, <1>25 DEF Expire, RefsBalanced, TypeProxy, Open
<1>26. ASSUME NEW s \in Sockets, Renew(s)
       PROVE  RefsBalanced'
  BY <1>0, <1>26 DEF Renew, Synchronize, RestOfMonitor, Stage, RefsBalanced, TypeProxy,
    Open
<1>27. ASSUME NEW s \in Sockets, Commit(s)
       PROVE  RefsBalanced'
  BY <1>0, <1>27 DEF Commit, RefsBalanced, TypeProxy, Open
<1>28. CASE UNCHANGED vars
  BY <1>0, <1>28 DEF vars, RefsBalanced, TypeProxy, Open
<1>. QED
  BY Steps, <1>1, <1>2, <1>3, <1>4, <1>5, <1>6, <1>7, <1>8, <1>9, <1>10, <1>11, <1>12,
     <1>13, <1>14, <1>15, <1>16, <1>17, <1>18, <1>19, <1>20, <1>21, <1>22, <1>23, <1>24,
     <1>25, <1>26, <1>27, <1>28, Zenon

\* A lease belongs to an open stream.
LeaseInv == \A s \in Sockets : lease[s] # "none" => stage[s] \in Open

\* Every step keeps it.
LEMMA LeaseNext ==
  ASSUME TypeOK, LeaseInv, [Next]_vars
  PROVE  LeaseInv'
<1>. USE DEF db, monitor, proxy
<1>0. TypeProxy
  BY DEF TypeOK
<1>1. CASE FlightFails
  <2>. SUFFICES ASSUME NEW t \in Sockets PROVE lease'[t] # "none" => stage'[t] \in Open
    BY DEF LeaseInv
  <2>1. Hit(t) \/ Missed(t)
    BY <1>0, <1>1, DisconnectEach DEF FlightFails
  <2>. QED
    BY <2>1 DEF LeaseInv, Hit, Missed, Kept, Open
<1>2. CASE Goes
  BY <1>0, <1>2 DEF Goes, RestOfMonitor, LeaseInv, TypeProxy, Open
<1>3. CASE Connects
  BY <1>0, <1>3 DEF Connects, LeaseInv, TypeProxy, Open
<1>4. CASE Reads
  BY <1>0, <1>4 DEF Reads, LeaseInv, TypeProxy, Open
<1>5. CASE NothingNew
  BY <1>0, <1>5 DEF NothingNew, Advance, FlightSucceeds, LeaseInv, TypeProxy, Open
<1>6. CASE Fetch
  <2>. SUFFICES ASSUME NEW t \in Sockets PROVE lease'[t] # "none" => stage'[t] \in Open
    BY DEF LeaseInv
  <2>1. Hit(t) \/ Missed(t)
    BY <1>0, <1>6, DestroyEach DEF Fetch
  <2>. QED
    BY <2>1 DEF LeaseInv, Hit, Missed, Kept, Open
<1>7. CASE Settles
  BY <1>0, <1>7 DEF Settles, RestOfMonitor, LeaseInv, TypeProxy, Open
<1>8. CASE Acknowledge
  BY <1>0, <1>8 DEF Acknowledge, Advance, FlightSucceeds, LeaseInv, TypeProxy, Open
<1>9. CASE CancellationSettles
  BY <1>0, <1>9 DEF CancellationSettles, LeaseInv, TypeProxy, Open
<1>10. CASE ConnectionLost
  <2>. SUFFICES ASSUME NEW t \in Sockets PROVE lease'[t] # "none" => stage'[t] \in Open
    BY DEF LeaseInv
  <2>1. Hit(t) \/ Missed(t)
    BY <1>0, <1>10, DisconnectEach DEF ConnectionLost
  <2>. QED
    BY <2>1 DEF LeaseInv, Hit, Missed, Kept, Open
<1>11. CASE Wake
  BY <1>0, <1>11 DEF Wake, Synchronize, RestOfMonitor, LeaseInv, TypeProxy, Open
<1>12. CASE PeerAcknowledges
  BY <1>0, <1>12 DEF PeerAcknowledges, LeaseInv, TypeProxy, Open
<1>13. ASSUME NEW s \in Sockets, Upgrade(s)
       PROVE  LeaseInv'
  BY <1>0, <1>13 DEF Upgrade, Synchronize, RestOfMonitor, Stage, LeaseInv, TypeProxy, Open
<1>14. ASSUME NEW s \in Sockets, Closes(s)
       PROVE  LeaseInv'
  <2>. SUFFICES ASSUME NEW t \in Sockets PROVE lease'[t] # "none" => stage'[t] \in Open
    BY DEF LeaseInv
  <2>1. Hit(t) \/ Missed(t)
    BY <1>0, <1>14, DestroyEach DEF Closes
  <2>. QED
    BY <2>1 DEF LeaseInv, Hit, Missed, Kept, Open
<1>15. ASSUME NEW s \in Sockets, ReferencedLate(s)
       PROVE  LeaseInv'
  BY <1>0, <1>15 DEF ReferencedLate, Stage, LeaseInv, TypeProxy, Open
<1>16. ASSUME NEW s \in Sockets, Referenced(s)
       PROVE  LeaseInv'
  BY <1>0, <1>16 DEF Referenced, Synced, Synchronize, RestOfMonitor, Stage, LeaseInv,
    TypeProxy, Open
<1>17. ASSUME NEW s \in Sockets, AuthorityRead(s)
       PROVE  LeaseInv'
  BY <1>0, <1>17 DEF AuthorityRead, LeaseInv, TypeProxy, Open
<1>18. ASSUME NEW s \in Sockets, Revalidate(s)
       PROVE  LeaseInv'
  BY <1>0, <1>18 DEF Revalidate, Confirm, Asks, Synchronize, RestOfMonitor, Stage,
    LeaseInv, TypeProxy, Open
<1>19. ASSUME NEW s \in Sockets, Qualify(s)
       PROVE  LeaseInv'
  BY <1>0, <1>19 DEF Qualify, Confirm, Asks, Synchronize, RestOfMonitor, Stage, LeaseInv,
    TypeProxy, Open
<1>20. ASSUME NEW s \in Sockets, Requalify(s)
       PROVE  LeaseInv'
  BY <1>0, <1>20 DEF Requalify, Confirm, Asks, Synchronize, RestOfMonitor, Stage,
    LeaseInv, TypeProxy, Open
<1>21. ASSUME NEW s \in Sockets, Revalidated(s)
       PROVE  LeaseInv'
  BY <1>0, <1>21 DEF Revalidated, Holds, Synced, Proceeds, Stage, LeaseInv, TypeProxy,
    Open
<1>22. ASSUME NEW s \in Sockets, Register(s)
       PROVE  LeaseInv'
  BY <1>0, <1>22 DEF Register, Holds, Synced, Proceeds, Stage, LeaseInv, TypeProxy, Open
<1>23. ASSUME NEW s \in Sockets, Denied(s)
       PROVE  LeaseInv'
  BY <1>0, <1>23 DEF Denied, Synced, Proceeds, Stage, LeaseInv, TypeProxy, Open
<1>24. ASSUME NEW s \in Sockets, Extends(s)
       PROVE  LeaseInv'
  BY <1>0, <1>24 DEF Extends, Holds, Synced, Proceeds, Stage, LeaseInv, TypeProxy, Open
<1>25. ASSUME NEW s \in Sockets, Expire(s)
       PROVE  LeaseInv'
  BY <1>0, <1>25 DEF Expire, LeaseInv, TypeProxy, Open
<1>26. ASSUME NEW s \in Sockets, Renew(s)
       PROVE  LeaseInv'
  BY <1>0, <1>26 DEF Renew, Synchronize, RestOfMonitor, Stage, LeaseInv, TypeProxy, Open
<1>27. ASSUME NEW s \in Sockets, Commit(s)
       PROVE  LeaseInv'
  BY <1>0, <1>27 DEF Commit, LeaseInv, TypeProxy, Open
<1>28. CASE UNCHANGED vars
  BY <1>0, <1>28 DEF vars, LeaseInv, TypeProxy, Open
<1>. QED
  BY Steps, <1>1, <1>2, <1>3, <1>4, <1>5, <1>6, <1>7, <1>8, <1>9, <1>10, <1>11, <1>12,
     <1>13, <1>14, <1>15, <1>16, <1>17, <1>18, <1>19, <1>20, <1>21, <1>22, <1>23, <1>24,
     <1>25, <1>26, <1>27, <1>28, Zenon

(***************************************************************************)
(* Authority                                                               *)
(***************************************************************************)

\* Nobody was told of a read before the first one that succeeded.
KnownInv ==
  \A s \in Sockets : Past(s) \/ sync[s] \in {"ok", "checked"} => cursor # NoCursor

\* What the first revision since an authority read can be: it names the socket
\* and lies beyond the cursor, and beyond a read of the log whose listeners
\* have been called.
Since(s, r) ==
  \/ r = Refusal \/ r = Unchanged
  \/ /\ r \in 1 .. Len(log) /\ log[r] = s /\ cursor # NoCursor /\ cursor < r
     /\ flight \in {"notifying", "acking"} => target < r

\* A socket that asked for its last read behind such a revision still waits for
\* a read that will take the revision in.
Waits(s) ==
  /\ read[s] # Unchanged /\ sync[s] \in {"this", "next", "failed"}
  /\ sync[s] = "this" => flight \notin {"notifying", "acking"}
  /\ sync[s] = "this" /\ flight = "fetching" => read[s] <= target

\* One socket from its upgrade to its end.
AuthInv(s) ==
  /\ stage[s] = "new" => sync[s] = "no"
  /\ stage[s] \in {"new", "sync1", "doomed"} => sync[s] # "checked" /\ read[s] = Unchanged
  /\ stage[s] # "gone" => Since(s, read[s])
  /\ stage[s] \in Open => held[s].at # Refusal /\ Since(s, held[s].at) /\ ~held[s].late
  /\ stage[s] = "sync3" /\ sync[s] # "checked" => read[s] # Refusal
  /\ stage[s] \in {"sync3", "sync4", "renew2"} /\ sync[s] # "checked" /\ late[s] /\ read[s] # Refusal
       => Waits(s)
Authority == \A s \in Sockets : AuthInv(s)

\* Every step keeps the first part.
LEMMA KnownNext ==
  ASSUME TypeOK, CursorInv, KnownInv, [Next]_vars
  PROVE  KnownInv'
<1>. USE DEF db, monitor, proxy
<1>0. TypeProxy /\ TypeMonitor /\ Sockets \subseteq Callers /\ Poll \in Callers /\ Poll \notin Sockets
  BY Bounds, AccessAssumption DEF TypeOK
<1>a. MaxRevisions \in Nat
  BY Bounds
<1>1. CASE FlightFails
  <2>. SUFFICES ASSUME NEW t \in Sockets, Past(t)' \/ sync'[t] \in {"ok", "checked"}
                PROVE  Past(t) \/ sync[t] \in {"ok", "checked"}
    BY <1>1 DEF FlightFails, RestOfMonitor, KnownInv
  <2>1. sync'[t] \in {"ok", "checked"} => sync[t] = sync'[t]
    BY <1>0, <1>1 DEF FlightFails, Proceeds, Told, TypeMonitor
  <2>2. Hit(t) \/ Missed(t)
    BY <1>0, <1>1, DisconnectEach DEF FlightFails
  <2>. QED
    BY <2>1, <2>2 DEF Past, Hit, Missed, Kept
<1>2. CASE Goes
  BY <1>0, <1>2 DEF Goes, RestOfMonitor, KnownInv, Past, TypeMonitor, TypeProxy
<1>3. CASE Connects
  BY <1>0, <1>3 DEF Connects, KnownInv, Past, TypeMonitor, TypeProxy
<1>4. CASE Reads
  BY <1>0, <1>4 DEF Reads, KnownInv, Past, TypeMonitor, TypeProxy
<1>5. CASE NothingNew
  <2>1. cursor' # NoCursor
    BY <1>0, <1>a, <1>5 DEF NothingNew, Advance, CursorInv, TypeMonitor, NoCursor
  <2>. QED
    BY <2>1 DEF KnownInv
<1>6. CASE Fetch
  <2>. SUFFICES ASSUME NEW t \in Sockets, Past(t)' \/ sync'[t] \in {"ok", "checked"}
                PROVE  Past(t) \/ sync[t] \in {"ok", "checked"}
    BY <1>6 DEF Fetch, RestOfMonitor, KnownInv
  <2>1. sync'[t] \in {"ok", "checked"} => sync[t] = sync'[t]
    BY <1>0, <1>6 DEF Fetch, Proceeds, Told, TypeMonitor
  <2>2. Hit(t) \/ Missed(t)
    BY <1>0, <1>6, DestroyEach DEF Fetch
  <2>. QED
    BY <2>1, <2>2 DEF Past, Hit, Missed, Kept
<1>7. CASE Settles
  BY <1>0, <1>7 DEF Settles, RestOfMonitor, KnownInv, Past, TypeMonitor, TypeProxy
<1>8. CASE Acknowledge
  <2>1. cursor' # NoCursor
    BY <1>0, <1>a, <1>8 DEF Acknowledge, Advance, CursorInv, TypeMonitor, NoCursor
  <2>. QED
    BY <2>1 DEF KnownInv
<1>9. CASE CancellationSettles
  BY <1>0, <1>9 DEF CancellationSettles, KnownInv, Past, TypeMonitor, TypeProxy
<1>10. CASE ConnectionLost
  <2>. SUFFICES ASSUME NEW t \in Sockets, Past(t)' \/ sync'[t] \in {"ok", "checked"}
                PROVE  Past(t) \/ sync[t] \in {"ok", "checked"}
    BY <1>10 DEF ConnectionLost, RestOfMonitor, KnownInv
  <2>1. sync'[t] \in {"ok", "checked"} => sync[t] = sync'[t]
    BY <1>0, <1>10 DEF ConnectionLost, Proceeds, Told, TypeMonitor
  <2>2. Hit(t) \/ Missed(t)
    BY <1>0, <1>10, DisconnectEach DEF ConnectionLost
  <2>. QED
    BY <2>1, <2>2 DEF Past, Hit, Missed, Kept
<1>11. CASE Wake
  BY <1>0, <1>11 DEF Wake, Synchronize, RestOfMonitor, KnownInv, Past, TypeMonitor,
    TypeProxy
<1>12. CASE PeerAcknowledges
  BY <1>0, <1>12 DEF PeerAcknowledges, KnownInv, Past, TypeMonitor, TypeProxy
<1>13. ASSUME NEW s \in Sockets, Upgrade(s)
       PROVE  KnownInv'
  BY <1>0, <1>13 DEF Upgrade, Synchronize, RestOfMonitor, Stage, KnownInv, Past,
    TypeMonitor, TypeProxy
<1>14. ASSUME NEW s \in Sockets, Closes(s)
       PROVE  KnownInv'
  <2>. SUFFICES ASSUME NEW t \in Sockets, Past(t)' \/ sync'[t] \in {"ok", "checked"}
                PROVE  Past(t) \/ sync[t] \in {"ok", "checked"}
    BY <1>14 DEF Closes, RestOfMonitor, KnownInv
  <2>1. sync'[t] \in {"ok", "checked"} => sync[t] = sync'[t]
    BY <1>0, <1>14 DEF Closes, Proceeds, Told, TypeMonitor
  <2>2. Hit(t) \/ Missed(t)
    BY <1>0, <1>14, DestroyEach DEF Closes
  <2>. QED
    BY <2>1, <2>2 DEF Past, Hit, Missed, Kept
<1>15. ASSUME NEW s \in Sockets, ReferencedLate(s)
       PROVE  KnownInv'
  BY <1>0, <1>15 DEF ReferencedLate, Stage, KnownInv, Past, TypeMonitor, TypeProxy
<1>16. ASSUME NEW s \in Sockets, Referenced(s)
       PROVE  KnownInv'
  BY <1>0, <1>16 DEF Referenced, Synced, Synchronize, RestOfMonitor, Stage, KnownInv,
    Past, TypeMonitor, TypeProxy
<1>17. ASSUME NEW s \in Sockets, AuthorityRead(s)
       PROVE  KnownInv'
  BY <1>0, <1>17 DEF AuthorityRead, KnownInv, Past, TypeMonitor, TypeProxy
<1>18. ASSUME NEW s \in Sockets, Revalidate(s)
       PROVE  KnownInv'
  BY <1>0, <1>18 DEF Revalidate, Confirm, Asks, Synchronize, RestOfMonitor, Stage,
    KnownInv, Past, TypeMonitor, TypeProxy
<1>19. ASSUME NEW s \in Sockets, Qualify(s)
       PROVE  KnownInv'
  BY <1>0, <1>19 DEF Qualify, Confirm, Asks, Synchronize, RestOfMonitor, Stage, KnownInv,
    Past, TypeMonitor, TypeProxy
<1>20. ASSUME NEW s \in Sockets, Requalify(s)
       PROVE  KnownInv'
  BY <1>0, <1>20 DEF Requalify, Confirm, Asks, Synchronize, RestOfMonitor, Stage,
    KnownInv, Past, TypeMonitor, TypeProxy
<1>21. ASSUME NEW s \in Sockets, Revalidated(s)
       PROVE  KnownInv'
  BY <1>0, <1>21 DEF Revalidated, Holds, Synced, Proceeds, Stage, KnownInv, Past,
    TypeMonitor, TypeProxy
<1>22. ASSUME NEW s \in Sockets, Register(s)
       PROVE  KnownInv'
  BY <1>0, <1>22 DEF Register, Holds, Synced, Proceeds, Stage, KnownInv, Past,
    TypeMonitor, TypeProxy
<1>23. ASSUME NEW s \in Sockets, Denied(s)
       PROVE  KnownInv'
  BY <1>0, <1>23 DEF Denied, Synced, Proceeds, Stage, KnownInv, Past, TypeMonitor,
    TypeProxy
<1>24. ASSUME NEW s \in Sockets, Extends(s)
       PROVE  KnownInv'
  BY <1>0, <1>24 DEF Extends, Holds, Synced, Proceeds, Stage, KnownInv, Past, TypeMonitor,
    TypeProxy
<1>25. ASSUME NEW s \in Sockets, Expire(s)
       PROVE  KnownInv'
  BY <1>0, <1>25 DEF Expire, KnownInv, Past, TypeMonitor, TypeProxy
<1>26. ASSUME NEW s \in Sockets, Renew(s)
       PROVE  KnownInv'
  BY <1>0, <1>26 DEF Renew, Synchronize, RestOfMonitor, Stage, KnownInv, Past,
    TypeMonitor, TypeProxy
<1>27. ASSUME NEW s \in Sockets, Commit(s)
       PROVE  KnownInv'
  BY <1>0, <1>27 DEF Commit, KnownInv, Past, TypeMonitor, TypeProxy
<1>28. CASE UNCHANGED vars
  BY <1>0, <1>28 DEF vars, KnownInv, Past, TypeMonitor, TypeProxy
<1>. QED
  BY Steps, <1>1, <1>2, <1>3, <1>4, <1>5, <1>6, <1>7, <1>8, <1>9, <1>10, <1>11, <1>12,
     <1>13, <1>14, <1>15, <1>16, <1>17, <1>18, <1>19, <1>20, <1>21, <1>22, <1>23, <1>24,
     <1>25, <1>26, <1>27, <1>28, Zenon

\* A socket a step does not touch, while the read under way begins again or stays.
LEMMA AuthFrame ==
  ASSUME NEW t \in Sockets, AuthInv(t), Kept(t), sync'[t] = sync[t], UNCHANGED <<log, cursor>>,
         \/ UNCHANGED <<flight, target>>
         \/ flight' \in {"none", "awaiting", "connecting", "reading"}
  PROVE  AuthInv(t)'
<1>1. Since(t, read[t]) => Since(t, read[t])'
  BY DEF Since, Kept, Unchanged, Refusal
<1>2. Since(t, held[t].at) => Since(t, held[t].at)'
  BY DEF Since, Kept, Unchanged, Refusal
<1>3. Waits(t) => Waits(t)'
  BY DEF Waits, Kept, Unchanged
<1>. QED
  BY <1>1, <1>2, <1>3 DEF AuthInv, Kept, Open, Unchanged, Refusal

\* A socket that is destroyed.
LEMMA AuthHit ==
  ASSUME NEW t \in Sockets, Hit(t), sync[t] = "ok" => sync'[t] # "checked"
  PROVE  AuthInv(t)'
BY DEF Hit, AuthInv, Since, Open, Unchanged, Refusal, Referencing

\* Every step keeps it.
LEMMA AuthNext ==
  ASSUME TypeOK, CursorInv, KnownInv, Authority, [Next]_vars
  PROVE  Authority'
<1>. USE DEF db, monitor, proxy
<1>0. TypeProxy /\ TypeMonitor /\ Sockets \subseteq Callers /\ Poll \in Callers /\ Poll \notin Sockets
  BY Bounds, AccessAssumption DEF TypeOK
<1>a. MaxRevisions \in Nat /\ Len(log) \in Nat /\ Len(log) <= MaxRevisions
  BY Bounds DEF TypeOK, TypeMonitor, CursorInv
<1>1. CASE FlightFails
  <2>. SUFFICES ASSUME NEW t \in Sockets PROVE AuthInv(t)'
    BY DEF Authority
  <2>0. AuthInv(t)
    BY DEF Authority
  <2>1. flight' = "none" /\ UNCHANGED <<log, cursor>>
    BY <1>1 DEF FlightFails
  <2>2. Hit(t) \/ Missed(t)
    BY <1>0, <1>1, DisconnectEach DEF FlightFails
  <2>3. sync'[t] = IF sync[t] \in {"this", "next"} THEN Told(t, "failed") ELSE sync[t]
    BY <1>0, <1>1 DEF FlightFails
  <2>4. \/ sync'[t] = sync[t] /\ sync[t] \notin {"this", "next"}
        \/ /\ sync[t] \in {"this", "next"}
           /\ sync'[t] = IF stage[t] \in {"doomed", "gone"} THEN "no" ELSE "failed"
    BY <1>0, <2>3 DEF Told
  <2>5. CASE Hit(t)
    BY <2>4, <2>5, AuthHit
  <2>6. CASE Missed(t)
    <3>1. Since(t, read[t]) => Since(t, read[t])'
      BY <2>1, <2>6 DEF Since, Missed, Kept, Unchanged, Refusal
    <3>2. Since(t, held[t].at) => Since(t, held[t].at)'
      BY <2>1, <2>6 DEF Since, Missed, Kept, Unchanged, Refusal
    <3>3. Waits(t) /\ stage[t] # "gone" /\ stage[t] # "doomed" => Waits(t)'
      BY <2>1, <2>4, <2>6 DEF Waits, Missed, Kept, Unchanged
    <3>. QED
      BY <2>0, <2>4, <2>6, <3>1, <3>2, <3>3 DEF AuthInv, Missed, Kept, Open, Unchanged,
         Refusal
  <2>. QED
    BY <2>2, <2>5, <2>6
<1>2. CASE Goes
  <2>. SUFFICES ASSUME NEW t \in Sockets PROVE AuthInv(t)'
    BY DEF Authority
  <2>0. AuthInv(t)
    BY DEF Authority
  <2>1. /\ Kept(t) /\ sync'[t] = sync[t] /\ UNCHANGED <<log, cursor>>
        /\ \/ UNCHANGED <<flight, target>>
           \/ flight' \in {"none", "awaiting", "connecting", "reading"}
    BY <1>0, <1>2 DEF Goes, RestOfMonitor, Kept
  <2>. QED
    BY <2>0, <2>1, AuthFrame
<1>3. CASE Connects
  <2>. SUFFICES ASSUME NEW t \in Sockets PROVE AuthInv(t)'
    BY DEF Authority
  <2>0. AuthInv(t)
    BY DEF Authority
  <2>1. /\ Kept(t) /\ sync'[t] = sync[t] /\ UNCHANGED <<log, cursor>>
        /\ \/ UNCHANGED <<flight, target>>
           \/ flight' \in {"none", "awaiting", "connecting", "reading"}
    BY <1>0, <1>3 DEF Connects, Kept
  <2>. QED
    BY <2>0, <2>1, AuthFrame
<1>4. CASE Reads
  <2>. SUFFICES ASSUME NEW t \in Sockets PROVE AuthInv(t)'
    BY DEF Authority
  <2>0. AuthInv(t)
    BY DEF Authority
  <2>1. /\ Missed(t) /\ sync'[t] = sync[t] /\ flight' = "fetching" /\ target' = Len(log)
        /\ UNCHANGED <<log, cursor>> /\ flight = "reading"
    BY <1>4 DEF Reads, Missed, Kept
  <2>2. Since(t, read[t]) => Since(t, read[t])'
    BY <2>1 DEF Since, Missed, Kept, Unchanged, Refusal
  <2>3. Since(t, held[t].at) => Since(t, held[t].at)'
    BY <2>1 DEF Since, Missed, Kept, Unchanged, Refusal
  <2>4. Waits(t) /\ Since(t, read[t]) /\ read[t] # Refusal => Waits(t)'
    BY <1>a, <2>1 DEF Waits, Since, Missed, Kept, Unchanged
  <2>. QED
    BY <2>0, <2>1, <2>2, <2>3, <2>4 DEF AuthInv, Missed, Kept, Open, Unchanged, Refusal
<1>5. CASE NothingNew
  <2>. SUFFICES ASSUME NEW t \in Sockets PROVE AuthInv(t)'
    BY DEF Authority
  <2>0. AuthInv(t)
    BY DEF Authority
  <2>1. /\ Missed(t) /\ log' = log /\ flight' \in {"none", "awaiting"}
        /\ flight = "reading" /\ cursor' = Len(log)
    BY <1>5 DEF NothingNew, Advance, FlightSucceeds, Missed, Kept
  <2>2. sync'[t] = IF sync[t] = "this" THEN Told(t, "ok") ELSE IF sync[t] = "next" THEN "this" ELSE sync[t]
    BY <1>0, <1>5 DEF NothingNew, Advance, FlightSucceeds
  <2>3. \/ sync'[t] = sync[t] /\ sync[t] \notin {"this", "next"}
        \/ sync[t] = "next" /\ sync'[t] = "this"
        \/ sync[t] = "this" /\ sync'[t] = IF stage[t] \in {"doomed", "gone"} THEN "no" ELSE "ok"
    BY <1>0, <2>2 DEF Told
  <2>4. Len(log) \in Nat /\ (cursor # NoCursor => cursor = Len(log)) /\ Len(log) # NoCursor
    BY <1>0, <1>a, <1>5 DEF NothingNew, Initial, CursorInv, NoCursor
  <2>5. Since(t, read[t]) => Since(t, read[t])'
    BY <2>1, <2>4 DEF Since, Missed, Kept, Unchanged, Refusal, NoCursor
  <2>6. Since(t, held[t].at) => Since(t, held[t].at)'
    BY <2>1, <2>4 DEF Since, Missed, Kept, Unchanged, Refusal, NoCursor
  <2>7. Waits(t) /\ Since(t, read[t]) /\ read[t] # Refusal => sync[t] # "this"
    BY <2>1, <2>4 DEF Waits, Since
  <2>8. Waits(t) /\ sync[t] # "this" => Waits(t)'
    BY <2>1, <2>3 DEF Waits, Missed, Kept, Unchanged
  <2>. QED
    BY <2>0, <2>1, <2>3, <2>5, <2>6, <2>7, <2>8 DEF AuthInv, Missed, Kept, Open, Unchanged,
       Refusal
<1>6. CASE Fetch
  <2>. SUFFICES ASSUME NEW t \in Sockets PROVE AuthInv(t)'
    BY DEF Authority
  <2>0. AuthInv(t)
    BY DEF Authority
  <2>1. /\ flight = "fetching" /\ flight' = "notifying" /\ UNCHANGED <<log, cursor, target, sync>>
        /\ Destroy({log[r] : r \in from + 1 .. target})
    BY <1>6 DEF Fetch, RestOfMonitor
  <2>2. Hit(t) \/ Missed(t)
    BY <1>0, <2>1, DestroyEach
  <2>3. CASE Hit(t)
    BY <2>1, <2>3, AuthHit
  <2>4. CASE Missed(t)
    <3>1. stage[t] \notin {"new", "doomed", "gone"} => \A r \in from + 1 .. target : log[r] # t
      <4>. SUFFICES ASSUME stage[t] \notin {"new", "doomed", "gone"},
                           NEW r \in from + 1 .. target, log[r] = t
                    PROVE  FALSE
        OBVIOUS
      <4>1. Hit(t)
        BY <1>0, <2>1, DestroyEach
      <4>. QED
        BY <2>4, <4>1 DEF Hit, Missed, Kept
    <3>2. cursor # NoCursor => from = cursor
      BY <2>1 DEF CursorInv
    <3>3. from \in Nat /\ target \in Nat /\ cursor \in Nat
      BY <1>0 DEF TypeMonitor
    <3>4. stage[t] # "gone" => Since(t, read[t])'
      BY <1>a, <2>0, <2>1, <2>4, <3>1, <3>2, <3>3 DEF AuthInv, Since, Missed, Kept,
         Unchanged, Refusal
    <3>5. stage[t] \in Open => Since(t, held[t].at)'
      BY <1>a, <2>0, <2>1, <2>4, <3>1, <3>2, <3>3 DEF AuthInv, Since, Missed, Kept,
         Unchanged, Refusal, Open
    <3>6. stage[t] \in {"sync3", "sync4", "renew2"} /\ Waits(t) /\ read[t] # Refusal => Waits(t)'
      <4>. SUFFICES ASSUME stage[t] \in {"sync3", "sync4", "renew2"}, Waits(t), read[t] # Refusal
                    PROVE  sync[t] # "this"
        BY <2>1, <2>4 DEF Waits, Missed, Kept, Unchanged
      <4>. SUFFICES ASSUME sync[t] = "this" PROVE FALSE
        OBVIOUS
      <4>1. read[t] <= target /\ read[t] # Unchanged
        BY <2>1 DEF Waits
      <4>2. read[t] \in 1 .. Len(log) /\ log[read[t]] = t /\ cursor # NoCursor /\ cursor < read[t]
        BY <2>0, <4>1 DEF AuthInv, Since
      <4>3. read[t] \in from + 1 .. target
        BY <1>a, <3>2, <3>3, <4>1, <4>2
      <4>. QED
        BY <3>1, <4>2, <4>3
    <3>. QED
      BY <2>0, <2>1, <2>4, <3>4, <3>5, <3>6 DEF AuthInv, Missed, Kept, Open, Unchanged,
         Refusal
  <2>. QED
    BY <2>2, <2>3, <2>4
<1>7. CASE Settles
  <2>. SUFFICES ASSUME NEW t \in Sockets PROVE AuthInv(t)'
    BY DEF Authority
  <2>0. AuthInv(t)
    BY DEF Authority
  <2>1. /\ Missed(t) /\ sync'[t] = sync[t] /\ flight = "notifying" /\ flight' = "acking"
        /\ UNCHANGED <<log, cursor, target>>
    BY <1>7 DEF Settles, RestOfMonitor, Missed, Kept
  <2>2. Since(t, read[t]) => Since(t, read[t])'
    BY <2>1 DEF Since, Missed, Kept, Unchanged, Refusal
  <2>3. Since(t, held[t].at) => Since(t, held[t].at)'
    BY <2>1 DEF Since, Missed, Kept, Unchanged, Refusal
  <2>4. Waits(t) => Waits(t)'
    BY <2>1 DEF Waits, Missed, Kept, Unchanged
  <2>. QED
    BY <2>0, <2>1, <2>2, <2>3, <2>4 DEF AuthInv, Missed, Kept, Open, Unchanged, Refusal
<1>8. CASE Acknowledge
  <2>. SUFFICES ASSUME NEW t \in Sockets PROVE AuthInv(t)'
    BY DEF Authority
  <2>0. AuthInv(t)
    BY DEF Authority
  <2>1. /\ Missed(t) /\ log' = log /\ flight' \in {"none", "awaiting"}
        /\ flight = "acking" /\ cursor' = target
    BY <1>8 DEF Acknowledge, Advance, FlightSucceeds, Missed, Kept
  <2>2. sync'[t] = IF sync[t] = "this" THEN Told(t, "ok") ELSE IF sync[t] = "next" THEN "this" ELSE sync[t]
    BY <1>0, <1>8 DEF Acknowledge, Advance, FlightSucceeds
  <2>3. \/ sync'[t] = sync[t] /\ sync[t] \notin {"this", "next"}
        \/ sync[t] = "next" /\ sync'[t] = "this"
        \/ sync[t] = "this" /\ sync'[t] = IF stage[t] \in {"doomed", "gone"} THEN "no" ELSE "ok"
    BY <1>0, <2>2 DEF Told
  <2>4. target \in 0 .. MaxRevisions /\ target # NoCursor /\ Len(log) \in Nat
    BY <1>0, <1>a DEF TypeMonitor, NoCursor
  <2>5. Since(t, read[t]) => Since(t, read[t])'
    BY <2>1, <2>4 DEF Since, Missed, Kept, Unchanged, Refusal, NoCursor
  <2>6. Since(t, held[t].at) => Since(t, held[t].at)'
    BY <2>1, <2>4 DEF Since, Missed, Kept, Unchanged, Refusal, NoCursor
  <2>7. Waits(t) /\ Since(t, read[t]) /\ read[t] # Refusal => sync[t] # "this"
    BY <2>1, <2>4 DEF Waits, Since
  <2>8. Waits(t) /\ sync[t] # "this" => Waits(t)'
    BY <2>1, <2>3 DEF Waits, Missed, Kept, Unchanged
  <2>. QED
    BY <2>0, <2>1, <2>3, <2>5, <2>6, <2>7, <2>8 DEF AuthInv, Missed, Kept, Open, Unchanged,
       Refusal
<1>9. CASE CancellationSettles
  <2>. SUFFICES ASSUME NEW t \in Sockets PROVE AuthInv(t)'
    BY DEF Authority
  <2>0. AuthInv(t)
    BY DEF Authority
  <2>1. /\ Kept(t) /\ sync'[t] = sync[t] /\ UNCHANGED <<log, cursor>>
        /\ \/ UNCHANGED <<flight, target>>
           \/ flight' \in {"none", "awaiting", "connecting", "reading"}
    BY <1>0, <1>9 DEF CancellationSettles, Kept
  <2>. QED
    BY <2>0, <2>1, AuthFrame
<1>10. CASE ConnectionLost
  <2>. SUFFICES ASSUME NEW t \in Sockets PROVE AuthInv(t)'
    BY DEF Authority
  <2>0. AuthInv(t)
    BY DEF Authority
  <2>1. UNCHANGED <<log, cursor, flight, target, sync>>
    BY <1>10 DEF ConnectionLost
  <2>2. Hit(t) \/ Missed(t)
    BY <1>0, <1>10, DisconnectEach DEF ConnectionLost
  <2>. QED
    BY <2>0, <2>1, <2>2, AuthFrame, AuthHit DEF Missed
<1>11. CASE Wake
  <2>. SUFFICES ASSUME NEW t \in Sockets PROVE AuthInv(t)'
    BY DEF Authority
  <2>0. AuthInv(t)
    BY DEF Authority
  <2>1. /\ Kept(t) /\ sync'[t] = sync[t] /\ UNCHANGED <<log, cursor>>
        /\ \/ UNCHANGED <<flight, target>>
           \/ flight' \in {"none", "awaiting", "connecting", "reading"}
    BY <1>0, <1>11 DEF Wake, Synchronize, RestOfMonitor, Kept, TypeMonitor
  <2>. QED
    BY <2>0, <2>1, AuthFrame
<1>12. CASE PeerAcknowledges
  <2>. SUFFICES ASSUME NEW t \in Sockets PROVE AuthInv(t)'
    BY DEF Authority
  <2>0. AuthInv(t)
    BY DEF Authority
  <2>1. /\ Kept(t) /\ sync'[t] = sync[t] /\ UNCHANGED <<log, cursor>>
        /\ \/ UNCHANGED <<flight, target>>
           \/ flight' \in {"none", "awaiting", "connecting", "reading"}
    BY <1>0, <1>12 DEF PeerAcknowledges, Kept
  <2>. QED
    BY <2>0, <2>1, AuthFrame
<1>13. ASSUME NEW s \in Sockets, Upgrade(s)
       PROVE  Authority'
  <2>. SUFFICES ASSUME NEW t \in Sockets PROVE AuthInv(t)'
    BY DEF Authority
  <2>0. AuthInv(t)
    BY DEF Authority
  <2>1. CASE t # s
    <3>1. /\ Kept(t) /\ sync'[t] = sync[t] /\ UNCHANGED <<log, cursor>>
          /\ \/ UNCHANGED <<flight, target>>
             \/ flight' \in {"none", "awaiting", "connecting", "reading"}
      BY <1>0, <1>13, <2>1 DEF Upgrade, Synchronize, RestOfMonitor, Stage, Kept,
         TypeMonitor, TypeProxy
    <3>. QED
      BY <2>0, <3>1, AuthFrame
  <2>2. CASE t = s
    <3>1. /\ stage[t] = "new" /\ stage'[t] = "sync1" /\ read'[t] = read[t]
          /\ UNCHANGED <<log, cursor, target>>
          /\ \/ flight = "none" /\ flight' = "awaiting" /\ sync'[t] = "this"
             \/ flight # "none" /\ flight' = flight /\ sync'[t] = "next"
      BY <1>0, <1>13, <2>2 DEF Upgrade, Synchronize, RestOfMonitor, Stage, TypeMonitor,
         TypeProxy
    <3>. QED
      BY <2>0, <3>1 DEF AuthInv, Since, Waits, Open, Unchanged, Refusal
  <2>. QED
    BY <2>1, <2>2
<1>14. ASSUME NEW s \in Sockets, Closes(s)
       PROVE  Authority'
  <2>. SUFFICES ASSUME NEW t \in Sockets PROVE AuthInv(t)'
    BY DEF Authority
  <2>0. AuthInv(t)
    BY DEF Authority
  <2>1. UNCHANGED <<log, cursor, flight, target>>
    BY <1>14 DEF Closes
  <2>2. /\ Hit(t) \/ Missed(t)
        /\ t # s => Missed(t)
        /\ t = s /\ stage[t] \notin {"new", "doomed", "gone"} => Hit(t)
    BY <1>0, <1>14, DestroyEach DEF Closes
  <2>3. sync'[t] = sync[t] \/ (t = s /\ sync'[t] = "no")
    BY <1>0, <1>14 DEF Closes, Proceeds, TypeMonitor
  <2>4. CASE Hit(t)
    BY <2>3, <2>4, AuthHit
  <2>5. CASE Missed(t) /\ sync'[t] = sync[t]
    BY <2>0, <2>1, <2>5, AuthFrame DEF Missed
  <2>6. CASE Missed(t) /\ sync'[t] = "no" /\ stage[t] \in {"new", "doomed", "gone"}
    BY <2>0, <2>1, <2>6 DEF AuthInv, Missed, Kept, Since, Open, Unchanged, Refusal
  <2>. QED
    BY <2>2, <2>3, <2>4, <2>5, <2>6
<1>15. ASSUME NEW s \in Sockets, ReferencedLate(s)
       PROVE  Authority'
  <2>. SUFFICES ASSUME NEW t \in Sockets PROVE AuthInv(t)'
    BY DEF Authority
  <2>0. AuthInv(t)
    BY DEF Authority
  <2>1. CASE t # s
    <3>1. /\ Kept(t) /\ sync'[t] = sync[t] /\ UNCHANGED <<log, cursor>>
          /\ \/ UNCHANGED <<flight, target>>
             \/ flight' \in {"none", "awaiting", "connecting", "reading"}
      BY <1>0, <1>15, <2>1 DEF ReferencedLate, Stage, Kept, TypeMonitor, TypeProxy
    <3>. QED
      BY <2>0, <3>1, AuthFrame
  <2>2. CASE t = s
    <3>1. stage'[t] = "gone"
      BY <1>0, <1>15, <2>2 DEF ReferencedLate, Stage, TypeMonitor, TypeProxy
    <3>. QED
      BY <2>0, <3>1 DEF AuthInv, Since, Waits, Open, Unchanged, Refusal
  <2>. QED
    BY <2>1, <2>2
<1>16. ASSUME NEW s \in Sockets, Referenced(s)
       PROVE  Authority'
  <2>. SUFFICES ASSUME NEW t \in Sockets PROVE AuthInv(t)'
    BY DEF Authority
  <2>0. AuthInv(t)
    BY DEF Authority
  <2>1. CASE t # s
    <3>1. /\ Kept(t) /\ sync'[t] = sync[t] /\ UNCHANGED <<log, cursor>>
          /\ \/ UNCHANGED <<flight, target>>
             \/ flight' \in {"none", "awaiting", "connecting", "reading"}
      BY <1>0, <1>16, <2>1 DEF Referenced, Synced, Synchronize, RestOfMonitor, Stage, Kept,
         TypeMonitor, TypeProxy
    <3>. QED
      BY <2>0, <3>1, AuthFrame
  <2>2. CASE t = s
    <3>1. /\ stage[t] = "sync1" /\ stage'[t] = "sync2" /\ read'[t] = read[t]
          /\ UNCHANGED <<log, cursor, target>>
          /\ \/ flight = "none" /\ flight' = "awaiting" /\ sync'[t] = "this"
             \/ flight # "none" /\ flight' = flight /\ sync'[t] = "next"
      BY <1>0, <1>16, <2>2 DEF Referenced, Synced, Synchronize, RestOfMonitor, Stage,
         TypeMonitor, TypeProxy
    <3>. QED
      BY <2>0, <3>1 DEF AuthInv, Since, Waits, Open, Unchanged, Refusal
  <2>. QED
    BY <2>1, <2>2
<1>17. ASSUME NEW s \in Sockets, AuthorityRead(s)
       PROVE  Authority'
  <2>. SUFFICES ASSUME NEW t \in Sockets PROVE AuthInv(t)'
    BY DEF Authority
  <2>0. AuthInv(t)
    BY DEF Authority
  <2>1. CASE t # s
    <3>1. /\ Kept(t) /\ sync'[t] = sync[t] /\ UNCHANGED <<log, cursor>>
          /\ \/ UNCHANGED <<flight, target>>
             \/ flight' \in {"none", "awaiting", "connecting", "reading"}
      BY <1>0, <1>17, <2>1 DEF AuthorityRead, Kept, TypeMonitor, TypeProxy
    <3>. QED
      BY <2>0, <3>1, AuthFrame
  <2>2. CASE t = s
    <3>1. /\ sync[t] = "ok" /\ sync'[t] = "checked" /\ stage[t] \in {"sync2", "sync3", "renew1"}
          /\ read'[t] \in {Unchanged, Refusal}
          /\ UNCHANGED <<log, cursor, flight, target, stage, held, late>>
      BY <1>0, <1>17, <2>2 DEF AuthorityRead, TypeMonitor, TypeProxy
    <3>. QED
      BY <2>0, <3>1 DEF AuthInv, Since, Waits, Open, Unchanged, Refusal
  <2>. QED
    BY <2>1, <2>2
<1>18. ASSUME NEW s \in Sockets, Revalidate(s)
       PROVE  Authority'
  <2>. SUFFICES ASSUME NEW t \in Sockets PROVE AuthInv(t)'
    BY DEF Authority
  <2>0. AuthInv(t)
    BY DEF Authority
  <2>1. CASE t # s
    <3>1. /\ Kept(t) /\ sync'[t] = sync[t] /\ UNCHANGED <<log, cursor>>
          /\ \/ UNCHANGED <<flight, target>>
             \/ flight' \in {"none", "awaiting", "connecting", "reading"}
      BY <1>0, <1>18, <2>1 DEF Revalidate, Confirm, Asks, Synchronize, RestOfMonitor, Stage,
         Kept, TypeMonitor, TypeProxy
    <3>. QED
      BY <2>0, <3>1, AuthFrame
  <2>2. CASE t = s
    <3>1. /\ stage[t] = "sync2" /\ stage'[t] = "sync3" /\ read'[t] = read[t] /\ read[t] # Refusal
          /\ late'[t] = (read[t] # Unchanged)
          /\ UNCHANGED <<log, cursor, target>>
          /\ \/ flight = "none" /\ flight' = "awaiting" /\ sync'[t] = "this"
             \/ flight # "none" /\ flight' = flight /\ sync'[t] = "next"
      BY <1>0, <1>18, <2>2 DEF Revalidate, Confirm, Asks, Synchronize, RestOfMonitor, Stage,
         TypeMonitor, TypeProxy
    <3>. QED
      BY <2>0, <3>1 DEF AuthInv, Since, Waits, Open, Unchanged, Refusal
  <2>. QED
    BY <2>1, <2>2
<1>19. ASSUME NEW s \in Sockets, Qualify(s)
       PROVE  Authority'
  <2>. SUFFICES ASSUME NEW t \in Sockets PROVE AuthInv(t)'
    BY DEF Authority
  <2>0. AuthInv(t)
    BY DEF Authority
  <2>1. CASE t # s
    <3>1. /\ Kept(t) /\ sync'[t] = sync[t] /\ UNCHANGED <<log, cursor>>
          /\ \/ UNCHANGED <<flight, target>>
             \/ flight' \in {"none", "awaiting", "connecting", "reading"}
      BY <1>0, <1>19, <2>1 DEF Qualify, Confirm, Asks, Synchronize, RestOfMonitor, Stage,
         Kept, TypeMonitor, TypeProxy
    <3>. QED
      BY <2>0, <3>1, AuthFrame
  <2>2. CASE t = s
    <3>1. /\ stage[t] = "sync3" /\ stage'[t] = "sync4" /\ read'[t] = read[t]
          /\ late'[t] = (read[t] # Unchanged)
          /\ UNCHANGED <<log, cursor, target>>
          /\ \/ flight = "none" /\ flight' = "awaiting" /\ sync'[t] = "this"
             \/ flight # "none" /\ flight' = flight /\ sync'[t] = "next"
      BY <1>0, <1>19, <2>2 DEF Qualify, Confirm, Asks, Synchronize, RestOfMonitor, Stage,
         TypeMonitor, TypeProxy
    <3>. QED
      BY <2>0, <3>1 DEF AuthInv, Since, Waits, Open, Unchanged, Refusal
  <2>. QED
    BY <2>1, <2>2
<1>20. ASSUME NEW s \in Sockets, Requalify(s)
       PROVE  Authority'
  <2>. SUFFICES ASSUME NEW t \in Sockets PROVE AuthInv(t)'
    BY DEF Authority
  <2>0. AuthInv(t)
    BY DEF Authority
  <2>1. CASE t # s
    <3>1. /\ Kept(t) /\ sync'[t] = sync[t] /\ UNCHANGED <<log, cursor>>
          /\ \/ UNCHANGED <<flight, target>>
             \/ flight' \in {"none", "awaiting", "connecting", "reading"}
      BY <1>0, <1>20, <2>1 DEF Requalify, Confirm, Asks, Synchronize, RestOfMonitor, Stage,
         Kept, TypeMonitor, TypeProxy
    <3>. QED
      BY <2>0, <3>1, AuthFrame
  <2>2. CASE t = s
    <3>1. /\ stage[t] = "renew1" /\ stage'[t] = "renew2" /\ read'[t] = read[t]
          /\ held'[t] = held[t] /\ late'[t] = (read[t] # Unchanged)
          /\ UNCHANGED <<log, cursor, target>>
          /\ \/ flight = "none" /\ flight' = "awaiting" /\ sync'[t] = "this"
             \/ flight # "none" /\ flight' = flight /\ sync'[t] = "next"
      BY <1>0, <1>20, <2>2 DEF Requalify, Confirm, Asks, Synchronize, RestOfMonitor, Stage,
         TypeMonitor, TypeProxy
    <3>. QED
      BY <2>0, <3>1 DEF AuthInv, Since, Waits, Open, Unchanged, Refusal
  <2>. QED
    BY <2>1, <2>2
<1>21. ASSUME NEW s \in Sockets, Revalidated(s)
       PROVE  Authority'
  <2>. SUFFICES ASSUME NEW t \in Sockets PROVE AuthInv(t)'
    BY DEF Authority
  <2>0. AuthInv(t)
    BY DEF Authority
  <2>1. CASE t # s
    <3>1. /\ Kept(t) /\ sync'[t] = sync[t] /\ UNCHANGED <<log, cursor>>
          /\ \/ UNCHANGED <<flight, target>>
             \/ flight' \in {"none", "awaiting", "connecting", "reading"}
      BY <1>0, <1>21, <2>1 DEF Revalidated, Holds, Synced, Proceeds, Stage, Kept,
         TypeMonitor, TypeProxy
    <3>. QED
      BY <2>0, <3>1, AuthFrame
  <2>2. CASE t = s
    <3>1. /\ stage[t] = "sync3" /\ stage'[t] = "open" /\ sync[t] = "ok" /\ read'[t] = Unchanged
          /\ held'[t].at = read[t] /\ held'[t].late = late[t]
          /\ UNCHANGED <<log, cursor, flight, target>>
      BY <1>0, <1>21, <2>2 DEF Revalidated, Holds, Synced, Proceeds, Stage, TypeMonitor,
         TypeProxy
    <3>2. read[t] # Refusal /\ ~late[t] /\ Since(t, read[t])
      BY <2>0, <3>1 DEF AuthInv, Waits
    <3>3. Since(t, held[t].at)' /\ Since(t, read[t])'
      BY <3>1, <3>2 DEF Since, Unchanged, Refusal
    <3>. QED
      BY <3>1, <3>2, <3>3 DEF AuthInv, Open, Unchanged, Refusal
  <2>. QED
    BY <2>1, <2>2
<1>22. ASSUME NEW s \in Sockets, Register(s)
       PROVE  Authority'
  <2>. SUFFICES ASSUME NEW t \in Sockets PROVE AuthInv(t)'
    BY DEF Authority
  <2>0. AuthInv(t)
    BY DEF Authority
  <2>1. CASE t # s
    <3>1. /\ Kept(t) /\ sync'[t] = sync[t] /\ UNCHANGED <<log, cursor>>
          /\ \/ UNCHANGED <<flight, target>>
             \/ flight' \in {"none", "awaiting", "connecting", "reading"}
      BY <1>0, <1>22, <2>1 DEF Register, Holds, Synced, Proceeds, Stage, Kept, TypeMonitor,
         TypeProxy
    <3>. QED
      BY <2>0, <3>1, AuthFrame
  <2>2. CASE t = s
    <3>1. /\ stage[t] = "sync4" /\ stage'[t] = "open" /\ sync[t] = "ok" /\ read'[t] = Unchanged
          /\ held'[t].at = read[t] /\ held'[t].late = late[t]
          /\ UNCHANGED <<log, cursor, flight, target>>
      BY <1>0, <1>22, <2>2 DEF Register, Holds, Synced, Proceeds, Stage, TypeMonitor,
         TypeProxy
    <3>2. read[t] # Refusal /\ ~late[t] /\ Since(t, read[t])
      BY <1>22, <2>0, <2>2, <3>1 DEF AuthInv, Waits, Register
    <3>3. Since(t, held[t].at)' /\ Since(t, read[t])'
      BY <3>1, <3>2 DEF Since, Unchanged, Refusal
    <3>. QED
      BY <3>1, <3>2, <3>3 DEF AuthInv, Open, Unchanged, Refusal
  <2>. QED
    BY <2>1, <2>2
<1>23. ASSUME NEW s \in Sockets, Denied(s)
       PROVE  Authority'
  <2>. SUFFICES ASSUME NEW t \in Sockets PROVE AuthInv(t)'
    BY DEF Authority
  <2>0. AuthInv(t)
    BY DEF Authority
  <2>1. CASE t # s
    <3>1. /\ Kept(t) /\ sync'[t] = sync[t] /\ UNCHANGED <<log, cursor>>
          /\ \/ UNCHANGED <<flight, target>>
             \/ flight' \in {"none", "awaiting", "connecting", "reading"}
      BY <1>0, <1>23, <2>1 DEF Denied, Synced, Proceeds, Stage, Kept, TypeMonitor, TypeProxy
    <3>. QED
      BY <2>0, <3>1, AuthFrame
  <2>2. CASE t = s
    <3>1. /\ stage[t] = "renew2" /\ stage'[t] = "open" /\ read'[t] = read[t] /\ held'[t] = held[t]
          /\ UNCHANGED <<log, cursor, flight, target>>
      BY <1>0, <1>23, <2>2 DEF Denied, Synced, Proceeds, Stage, TypeMonitor, TypeProxy
    <3>. QED
      BY <2>0, <3>1 DEF AuthInv, Since, Waits, Open, Unchanged, Refusal
  <2>. QED
    BY <2>1, <2>2
<1>24. ASSUME NEW s \in Sockets, Extends(s)
       PROVE  Authority'
  <2>. SUFFICES ASSUME NEW t \in Sockets PROVE AuthInv(t)'
    BY DEF Authority
  <2>0. AuthInv(t)
    BY DEF Authority
  <2>1. CASE t # s
    <3>1. /\ Kept(t) /\ sync'[t] = sync[t] /\ UNCHANGED <<log, cursor>>
          /\ \/ UNCHANGED <<flight, target>>
             \/ flight' \in {"none", "awaiting", "connecting", "reading"}
      BY <1>0, <1>24, <2>1 DEF Extends, Holds, Synced, Proceeds, Stage, Kept, TypeMonitor,
         TypeProxy
    <3>. QED
      BY <2>0, <3>1, AuthFrame
  <2>2. CASE t = s
    <3>1. /\ stage[t] = "renew2" /\ stage'[t] = "open" /\ sync[t] = "ok" /\ read'[t] = Unchanged
          /\ held'[t].at = read[t] /\ held'[t].late = late[t]
          /\ UNCHANGED <<log, cursor, flight, target>> /\ read[t] # Refusal
      BY <1>0, <1>24, <2>2 DEF Extends, Holds, Synced, Proceeds, Stage, TypeMonitor,
         TypeProxy
    <3>2. read[t] # Refusal /\ ~late[t] /\ Since(t, read[t])
      BY <2>0, <3>1 DEF AuthInv, Waits
    <3>3. Since(t, held[t].at)' /\ Since(t, read[t])'
      BY <3>1, <3>2 DEF Since, Unchanged, Refusal
    <3>. QED
      BY <3>1, <3>2, <3>3 DEF AuthInv, Open, Unchanged, Refusal
  <2>. QED
    BY <2>1, <2>2
<1>25. ASSUME NEW s \in Sockets, Expire(s)
       PROVE  Authority'
  <2>. SUFFICES ASSUME NEW t \in Sockets PROVE AuthInv(t)'
    BY DEF Authority
  <2>0. AuthInv(t)
    BY DEF Authority
  <2>1. /\ Kept(t) /\ sync'[t] = sync[t] /\ UNCHANGED <<log, cursor>>
        /\ \/ UNCHANGED <<flight, target>>
           \/ flight' \in {"none", "awaiting", "connecting", "reading"}
    BY <1>0, <1>25 DEF Expire, Kept
  <2>. QED
    BY <2>0, <2>1, AuthFrame
<1>26. ASSUME NEW s \in Sockets, Renew(s)
       PROVE  Authority'
  <2>. SUFFICES ASSUME NEW t \in Sockets PROVE AuthInv(t)'
    BY DEF Authority
  <2>0. AuthInv(t)
    BY DEF Authority
  <2>1. CASE t # s
    <3>1. /\ Kept(t) /\ sync'[t] = sync[t] /\ UNCHANGED <<log, cursor>>
          /\ \/ UNCHANGED <<flight, target>>
             \/ flight' \in {"none", "awaiting", "connecting", "reading"}
      BY <1>0, <1>26, <2>1 DEF Renew, Synchronize, RestOfMonitor, Stage, Kept, TypeMonitor,
         TypeProxy
    <3>. QED
      BY <2>0, <3>1, AuthFrame
  <2>2. CASE t = s
    <3>1. /\ stage[t] = "open" /\ stage'[t] = "renew1" /\ read'[t] = read[t]
          /\ held'[t] = held[t]
          /\ UNCHANGED <<log, cursor, target>>
          /\ \/ flight = "none" /\ flight' = "awaiting" /\ sync'[t] = "this"
             \/ flight # "none" /\ flight' = flight /\ sync'[t] = "next"
      BY <1>0, <1>26, <2>2 DEF Renew, Synchronize, RestOfMonitor, Stage, TypeMonitor,
         TypeProxy
    <3>. QED
      BY <2>0, <3>1 DEF AuthInv, Since, Waits, Open, Unchanged, Refusal
  <2>. QED
    BY <2>1, <2>2
<1>27. ASSUME NEW s \in Sockets, Commit(s)
       PROVE  Authority'
  <2>. SUFFICES ASSUME NEW t \in Sockets PROVE AuthInv(t)'
    BY DEF Authority
  <2>0. AuthInv(t)
    BY DEF Authority
  <2>1. /\ stage' = stage /\ sync' = sync /\ late' = late /\ UNCHANGED <<cursor, flight, target>>
        /\ log' = Append(log, s)
    BY <1>27 DEF Commit
  <2>2. /\ Len(log') = Len(log) + 1 /\ log'[Len(log) + 1] = s
        /\ \A r \in 1 .. Len(log) : log'[r] = log[r]
    BY <1>0, <2>1 DEF TypeMonitor
  <2>3. /\ read'[t] = read[t] \/ (t = s /\ read[t] = Unchanged /\ read'[t] = Len(log) + 1)
        /\ read'[t] # read[t] => sync[t] = "checked" \/ stage[t] \in {"sync3", "sync4", "renew2"}
    BY <1>0, <1>27 DEF Commit, TypeProxy
  <2>4. held'[t].at = held[t].at \/ (t = s /\ held[t].at = Unchanged /\ held'[t].at = Len(log) + 1)
    BY <1>0, <1>27 DEF Commit, TypeProxy
  <2>5. held'[t].late = held[t].late
    BY <1>0, <1>27 DEF Commit, TypeProxy
  <2>6. /\ flight \in {"notifying", "acking"} => target <= Len(log)
        /\ cursor # NoCursor => cursor <= Len(log)
        /\ target \in Nat /\ cursor \in Nat
    BY <1>0 DEF CursorInv, TypeMonitor
  <2>7. (stage[t] \in {"sync3", "sync4", "renew2"} \/ sync[t] = "checked" \/ stage[t] \in Open) => cursor # NoCursor
    BY DEF KnownInv, Past, Open
  <2>8. stage[t] # "gone" => Since(t, read[t])'
    BY <1>a, <2>0, <2>1, <2>2, <2>3, <2>6, <2>7 DEF AuthInv, Since, Unchanged, Refusal,
       NoCursor
  <2>9. stage[t] \in Open => Since(t, held[t].at)' /\ held'[t].at # Refusal
    BY <1>a, <2>0, <2>1, <2>2, <2>4, <2>6, <2>7 DEF AuthInv, Since, Unchanged, Refusal,
       NoCursor
  <2>10. Waits(t) => Waits(t)'
    BY <1>a, <2>1, <2>3 DEF Waits, Unchanged
  <2>11. read'[t] = read[t] \/ (read[t] = Unchanged /\ read'[t] # Refusal /\ read[t] # Refusal)
    BY <1>a, <2>3 DEF Unchanged, Refusal
  <2>. QED
    BY <2>0, <2>1, <2>3, <2>5, <2>8, <2>9, <2>10, <2>11 DEF AuthInv, Open, Waits, Unchanged,
       Refusal
<1>28. CASE UNCHANGED vars
  BY <1>0, <1>28 DEF vars, Authority, AuthInv, Since, Waits, Open, Unchanged, Refusal
<1>. QED
  BY Steps, <1>1, <1>2, <1>3, <1>4, <1>5, <1>6, <1>7, <1>8, <1>9, <1>10, <1>11, <1>12,
     <1>13, <1>14, <1>15, <1>16, <1>17, <1>18, <1>19, <1>20, <1>21, <1>22, <1>23, <1>24,
     <1>25, <1>26, <1>27, <1>28, Zenon

(***************************************************************************)
(* The theorems                                                            *)
(***************************************************************************)

\* What a step does to a lease that has run out.
DueStays(s) ==
  lease[s] = "due" /\ lease'[s] # "none" => lease'[s] = "due" /\ held'[s].at <= held[s].at

\* Every step lets it be.
LEMMA LeaseStep ==
  ASSUME TypeOK, LeaseInv, [Next]_vars
  PROVE  \A t \in Sockets : DueStays(t)
<1>. USE DEF db, monitor, proxy
<1>0. TypeProxy
  BY DEF TypeOK
<1>a. \A t \in Sockets : held[t].at \in Nat
  BY Bounds DEF TypeOK, TypeProxy, Unchanged
<1>b. MaxRevisions \in Nat /\ Len(log) \in Nat
  BY Bounds DEF TypeOK, TypeMonitor
<1>1. CASE FlightFails
  <2>. SUFFICES ASSUME NEW t \in Sockets PROVE DueStays(t)
    OBVIOUS
  <2>1. Hit(t) \/ Missed(t)
    BY <1>0, <1>1, DisconnectEach DEF FlightFails
  <2>. QED
    BY <1>a, <2>1 DEF DueStays, Hit, Missed, Kept
<1>2. CASE Goes
  BY <1>0, <1>a, <1>2 DEF Goes, RestOfMonitor, DueStays, TypeProxy
<1>3. CASE Connects
  BY <1>0, <1>a, <1>3 DEF Connects, DueStays, TypeProxy
<1>4. CASE Reads
  BY <1>0, <1>a, <1>4 DEF Reads, DueStays, TypeProxy
<1>5. CASE NothingNew
  BY <1>0, <1>a, <1>5 DEF NothingNew, Advance, FlightSucceeds, DueStays, TypeProxy
<1>6. CASE Fetch
  <2>. SUFFICES ASSUME NEW t \in Sockets PROVE DueStays(t)
    OBVIOUS
  <2>1. Hit(t) \/ Missed(t)
    BY <1>0, <1>6, DestroyEach DEF Fetch
  <2>. QED
    BY <1>a, <2>1 DEF DueStays, Hit, Missed, Kept
<1>7. CASE Settles
  BY <1>0, <1>a, <1>7 DEF Settles, RestOfMonitor, DueStays, TypeProxy
<1>8. CASE Acknowledge
  BY <1>0, <1>a, <1>8 DEF Acknowledge, Advance, FlightSucceeds, DueStays, TypeProxy
<1>9. CASE CancellationSettles
  BY <1>0, <1>a, <1>9 DEF CancellationSettles, DueStays, TypeProxy
<1>10. CASE ConnectionLost
  <2>. SUFFICES ASSUME NEW t \in Sockets PROVE DueStays(t)
    OBVIOUS
  <2>1. Hit(t) \/ Missed(t)
    BY <1>0, <1>10, DisconnectEach DEF ConnectionLost
  <2>. QED
    BY <1>a, <2>1 DEF DueStays, Hit, Missed, Kept
<1>11. CASE Wake
  BY <1>0, <1>a, <1>11 DEF Wake, Synchronize, RestOfMonitor, DueStays, TypeProxy
<1>12. CASE PeerAcknowledges
  BY <1>0, <1>a, <1>12 DEF PeerAcknowledges, DueStays, TypeProxy
<1>13. ASSUME NEW s \in Sockets, Upgrade(s)
       PROVE  \A t \in Sockets : DueStays(t)
  BY <1>0, <1>a, <1>13 DEF Upgrade, Synchronize, RestOfMonitor, Stage, DueStays, TypeProxy
<1>14. ASSUME NEW s \in Sockets, Closes(s)
       PROVE  \A t \in Sockets : DueStays(t)
  <2>. SUFFICES ASSUME NEW t \in Sockets PROVE DueStays(t)
    OBVIOUS
  <2>1. Hit(t) \/ Missed(t)
    BY <1>0, <1>14, DestroyEach DEF Closes
  <2>. QED
    BY <1>a, <2>1 DEF DueStays, Hit, Missed, Kept
<1>15. ASSUME NEW s \in Sockets, ReferencedLate(s)
       PROVE  \A t \in Sockets : DueStays(t)
  BY <1>0, <1>a, <1>15 DEF ReferencedLate, Stage, DueStays, TypeProxy
<1>16. ASSUME NEW s \in Sockets, Referenced(s)
       PROVE  \A t \in Sockets : DueStays(t)
  BY <1>0, <1>a, <1>16 DEF Referenced, Synced, Synchronize, RestOfMonitor, Stage,
    DueStays, TypeProxy
<1>17. ASSUME NEW s \in Sockets, AuthorityRead(s)
       PROVE  \A t \in Sockets : DueStays(t)
  BY <1>0, <1>a, <1>17 DEF AuthorityRead, DueStays, TypeProxy
<1>18. ASSUME NEW s \in Sockets, Revalidate(s)
       PROVE  \A t \in Sockets : DueStays(t)
  BY <1>0, <1>a, <1>18 DEF Revalidate, Confirm, Asks, Synchronize, RestOfMonitor, Stage,
    DueStays, TypeProxy
<1>19. ASSUME NEW s \in Sockets, Qualify(s)
       PROVE  \A t \in Sockets : DueStays(t)
  BY <1>0, <1>a, <1>19 DEF Qualify, Confirm, Asks, Synchronize, RestOfMonitor, Stage,
    DueStays, TypeProxy
<1>20. ASSUME NEW s \in Sockets, Requalify(s)
       PROVE  \A t \in Sockets : DueStays(t)
  BY <1>0, <1>a, <1>20 DEF Requalify, Confirm, Asks, Synchronize, RestOfMonitor, Stage,
    DueStays, TypeProxy
<1>21. ASSUME NEW s \in Sockets, Revalidated(s)
       PROVE  \A t \in Sockets : DueStays(t)
  <2>. SUFFICES ASSUME NEW t \in Sockets PROVE DueStays(t)
    OBVIOUS
  <2>1. CASE t # s
    <3>1. lease'[t] = lease[t] /\ held'[t] = held[t]
      BY <1>0, <1>21, <2>1 DEF Revalidated, Holds, Synced, Proceeds, Stage, TypeProxy
    <3>. QED
      BY <1>a, <3>1 DEF DueStays
  <2>2. CASE t = s
    BY <1>21, <2>2 DEF Revalidated, Synced, DueStays, LeaseInv, Open
  <2>. QED
    BY <2>1, <2>2
<1>22. ASSUME NEW s \in Sockets, Register(s)
       PROVE  \A t \in Sockets : DueStays(t)
  <2>. SUFFICES ASSUME NEW t \in Sockets PROVE DueStays(t)
    OBVIOUS
  <2>1. CASE t # s
    <3>1. lease'[t] = lease[t] /\ held'[t] = held[t]
      BY <1>0, <1>22, <2>1 DEF Register, Holds, Synced, Proceeds, Stage, TypeProxy
    <3>. QED
      BY <1>a, <3>1 DEF DueStays
  <2>2. CASE t = s
    BY <1>22, <2>2 DEF Register, Synced, DueStays, LeaseInv, Open
  <2>. QED
    BY <2>1, <2>2
<1>23. ASSUME NEW s \in Sockets, Denied(s)
       PROVE  \A t \in Sockets : DueStays(t)
  BY <1>0, <1>a, <1>23 DEF Denied, Synced, Proceeds, Stage, DueStays, TypeProxy
<1>24. ASSUME NEW s \in Sockets, Extends(s)
       PROVE  \A t \in Sockets : DueStays(t)
  <2>. SUFFICES ASSUME NEW t \in Sockets PROVE DueStays(t)
    OBVIOUS
  <2>1. CASE t # s
    <3>1. lease'[t] = lease[t] /\ held'[t] = held[t]
      BY <1>0, <1>24, <2>1 DEF Extends, Holds, Synced, Proceeds, Stage, TypeProxy
    <3>. QED
      BY <1>a, <3>1 DEF DueStays
  <2>2. CASE t = s
    BY <1>24, <2>2 DEF Extends, DueStays
  <2>. QED
    BY <2>1, <2>2
<1>25. ASSUME NEW s \in Sockets, Expire(s)
       PROVE  \A t \in Sockets : DueStays(t)
  BY <1>0, <1>a, <1>25 DEF Expire, DueStays, TypeProxy
<1>26. ASSUME NEW s \in Sockets, Renew(s)
       PROVE  \A t \in Sockets : DueStays(t)
  BY <1>0, <1>a, <1>26 DEF Renew, Synchronize, RestOfMonitor, Stage, DueStays, TypeProxy
<1>27. ASSUME NEW s \in Sockets, Commit(s)
       PROVE  \A t \in Sockets : DueStays(t)
  <2>. SUFFICES ASSUME NEW t \in Sockets PROVE DueStays(t)
    OBVIOUS
  <2>1. CASE t # s
    <3>1. lease'[t] = lease[t] /\ held'[t] = held[t]
      BY <1>0, <1>27, <2>1 DEF Commit, TypeProxy
    <3>. QED
      BY <1>a, <3>1 DEF DueStays
  <2>2. CASE t = s
    <3>1. /\ lease'[t] = lease[t]
          /\ held'[t].at = held[t].at \/ (held[t].at = Unchanged /\ held'[t].at = Len(log) + 1)
      BY <1>0, <1>27 DEF Commit, TypeProxy
    <3>2. Len(log) + 1 <= Unchanged
      BY <1>b, <1>27 DEF Commit, Unchanged
    <3>. QED
      BY <1>a, <3>1, <3>2 DEF DueStays
  <2>. QED
    BY <2>1, <2>2
<1>28. CASE UNCHANGED vars
  BY <1>0, <1>a, <1>28 DEF vars, DueStays, TypeProxy
<1>. QED
  BY Steps, <1>1, <1>2, <1>3, <1>4, <1>5, <1>6, <1>7, <1>8, <1>9, <1>10, <1>11, <1>12,
     <1>13, <1>14, <1>15, <1>16, <1>17, <1>18, <1>19, <1>20, <1>21, <1>22, <1>23, <1>24,
     <1>25, <1>26, <1>27, <1>28, Zenon

\* The inductive invariant.
IInv == TypeOK /\ CursorInv /\ ConnInv /\ RefsBalanced /\ LeaseInv /\ KnownInv /\ Authority

\* It holds from the start.
LEMMA InitInv == Init => IInv
<1>. SUFFICES ASSUME Init PROVE IInv
  OBVIOUS
<1>. USE DEF Init
<1>0. MaxRevisions \in Nat /\ Sockets \subseteq Callers
  BY Bounds
<1>1. TypeMonitor
  BY <1>0 DEF TypeMonitor, NoCursor
<1>2. TypeFlags
  BY DEF TypeFlags
<1>3. TypeProxy
  BY <1>0 DEF TypeProxy, Unchanged, Fresh
<1>4. CursorInv
  BY <1>0 DEF CursorInv
<1>5. \A s \in Sockets : stage[s] = "new" /\ sync[s] = "no" /\ ~ref[s] /\ lease[s] = "none" /\ read[s] = Unchanged
  BY <1>0
<1>6. ConnInv /\ RefsBalanced /\ LeaseInv /\ KnownInv
  BY <1>5 DEF ConnInv, RefsBalanced, LeaseInv, KnownInv, Past
<1>7. Authority
  BY <1>5 DEF Authority, AuthInv, Since, Waits, Open
<1>. QED
  BY <1>1, <1>2, <1>3, <1>4, <1>6, <1>7 DEF IInv, TypeOK

\* And every step keeps it.
LEMMA NextInv == ASSUME IInv, [Next]_vars PROVE IInv'
BY TypeMonitorNext, TypeFlagsNext, TypeProxyNext, CursorNext, ConnNext, RefsNext, LeaseNext,
   KnownNext, AuthNext
DEF IInv, TypeOK

\* It is invariant.
LEMMA Invariance == Spec => []IInv
BY InitInv, NextInv, PTL DEF Spec

\* A revision the process has applied leaves no stream open that it names,
\* however its read interleaved with the stream's admission, renewal and
\* confirmation, with lost connections and with a node ahead of the process
\* (drain, synchronize, revalidate, qualifyStream, renew).
THEOREM AppliedCloses == Spec => []AppliedIsClosed
<1>1. IInv => AppliedIsClosed
  <2>. SUFFICES ASSUME IInv, NEW s \in Sockets, stage[s] \in Open, cursor # NoCursor
                PROVE  cursor < held[s].at
    BY DEF AppliedIsClosed
  <2>1. cursor \in Nat /\ Len(log) \in Nat /\ cursor <= Len(log) /\ Len(log) <= MaxRevisions
    BY DEF IInv, TypeOK, TypeMonitor, CursorInv
  <2>2. held[s].at # Refusal /\ Since(s, held[s].at)
    BY DEF IInv, Authority, AuthInv
  <2>3. CASE held[s].at = Unchanged
    BY Bounds, <2>1, <2>3 DEF Unchanged
  <2>4. CASE held[s].at # Unchanged
    BY <2>2, <2>4 DEF Since
  <2>. QED
    BY <2>3, <2>4
<1>. QED
  BY <1>1, Invariance, PTL

\* A stream is admitted, or renewed, only with authority that was current when
\* it asked for its last read (upgrade, revalidate, StreamPrincipalLeases.renew).
THEOREM AdmittedCurrent == Spec => []AdmittedIsCurrent
<1>1. IInv => AdmittedIsCurrent
  BY DEF IInv, Authority, AuthInv, AdmittedIsCurrent
<1>. QED
  BY <1>1, Invariance, PTL

\* No stream is open without its guards: a watched connection, no failed
\* cancellation behind it, its wsRef held (connection, disconnect, upgrade).
THEOREM Guarded == Spec => []StreamsGuarded
<1>1. IInv => StreamsGuarded
  <2>. SUFFICES ASSUME IInv PROVE OpenIsWatched /\ FailureKeepsClosed
    BY DEF IInv, StreamsGuarded
  <2>1. OpenIsWatched
    BY DEF IInv, ConnInv, Past, Open, OpenIsWatched
  <2>2. cancelFailed => ~client
    BY DEF IInv, ConnInv
  <2>. QED
    BY <2>1, <2>2 DEF OpenIsWatched, FailureKeepsClosed, available
<1>. QED
  BY <1>1, Invariance, PTL

\* A lease that has run out is never renewed, even when its timer is late, and
\* only an open stream has one (StreamPrincipalLeases.renew, register).
THEOREM LeasesLive == Spec => LeasesAreLive
<1>1. IInv /\ IInv' /\ [Next]_vars =>
        [\A s \in Sockets :
           /\ lease[s] = "due" /\ lease'[s] # "none" => lease'[s] = "due" /\ held'[s].at <= held[s].at
           /\ lease'[s] # "none" => stage'[s] \in Open]_vars
  <2>. SUFFICES ASSUME IInv, IInv', [Next]_vars, NEW s \in Sockets
                PROVE  /\ lease[s] = "due" /\ lease'[s] # "none" =>
                            lease'[s] = "due" /\ held'[s].at <= held[s].at
                       /\ lease'[s] # "none" => stage'[s] \in Open
    OBVIOUS
  <2>1. DueStays(s)
    BY LeaseStep DEF IInv
  <2>2. lease'[s] # "none" => stage'[s] \in Open
    BY DEF IInv, LeaseInv, Open
  <2>. QED
    BY <2>1, <2>2 DEF DueStays
<1>. QED
  BY <1>1, Invariance, PTL DEF Spec, LeasesAreLive

================================================================================
