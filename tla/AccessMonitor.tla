---------------------------- MODULE AccessMonitor ----------------------------
(***************************************************************************)
(* Delivery of access revocations to one Gateway process                   *)
(* (gateway/src/access-invalidation.ts), together with the traffic that    *)
(* depends on it: the WebSocket admissions of gateway/src/proxy.ts and the *)
(* leases of gateway/src/stream-principal-leases.ts.                       *)
(*                                                                         *)
(* PostgreSQL keeps the committed revisions in order; a revision names the *)
(* socket's user and project it affects, and here directly the socket.     *)
(* The monitor reads the revisions it has not applied, cancels what they   *)
(* name, waits for the listeners, and only then advances.  An action is    *)
(* the code between two awaits.  The process does not shut down.           *)
(***************************************************************************)
EXTENDS Naturals, Sequences

CONSTANTS
  Sockets,        \* WebSocket upgrades, each of its own user
  EventSockets,   \* the ones that are event connections and hold a lease
  Named,          \* the ones whose access changes
  MaxRevisions,   \* bound: access changes committed
  MaxDrops,       \* bound: connections lost, refused or failing
  MaxFailures,    \* bound: listeners that fail
  MaxRenewals     \* bound: renewals the Runtime asks for

Poll == "poll"    \* the caller of synchronize that is the timer or a NOTIFY

ASSUME AccessAssumption ==
  /\ Poll \notin Sockets /\ EventSockets \subseteq Sockets /\ Named \subseteq Sockets
  /\ {MaxRevisions, MaxDrops, MaxFailures, MaxRenewals} \subseteq Nat

Callers == Sockets \cup {Poll}
NoCursor == MaxRevisions + 1
Unchanged == MaxRevisions + 1
Refusal == 0
Fresh == [at |-> Unchanged, late |-> FALSE]

VARIABLES
  \* the database
  log,            \* the affected socket of each committed revision
  allowed,        \* sockets whose user may use them now
  applied,        \* access_applied_revision of the node
  \* PostgresAccessMonitor
  client,         \* there is a listening connection
  cursor, caughtUp, unavailable,
  cancelling, cancelFailed,  \* the cancellations of a lost connection: pending, or settled with an error
  flight,         \* none, awaiting cancellations, connecting, reading, fetching, notifying, acking
  from, target,   \* the revisions this read goes from and up to
  sync,           \* a caller of synchronize: no, this or next read, ok, failed; then checked,
                  \* when its authority was read after it
  \* the proxy
  stage,          \* a socket: new, sync1 .. sync4 (the read it waits for, or has waited for),
                  \* open, renew1, renew2, doomed (closed, wsRef in flight), gone
  ref,            \* its wsRef is held
  lease,          \* its lease: none, armed, due (expired, timer not yet run)
  \* history
  read,           \* the last authority read: refused, or the first revision since that names
                  \* the socket (Unchanged when none does)
  late,           \* whether that revision was there when the socket asked for its last read
  held,           \* the two for the read the socket was admitted or renewed with
  budget          \* what is left of drops, failures, renewals

db == <<log, allowed, applied>>
monitor == <<client, cursor, caughtUp, unavailable, cancelling, cancelFailed, flight, from, target>>
proxy == <<ref, lease, read, late, held>>
vars == <<db, monitor, sync, stage, proxy, budget>>

Open == {"open", "renew1", "renew2"}
available == caughtUp /\ client /\ ~cancelling /\ ~unavailable

Init ==
  /\ log = <<>> /\ allowed = Sockets /\ applied = 0
  /\ client = FALSE /\ cursor = NoCursor /\ caughtUp = FALSE /\ unavailable = FALSE
  /\ cancelling = FALSE /\ cancelFailed = FALSE /\ flight = "none" /\ from = 0 /\ target = 0
  /\ sync = [c \in Callers |-> "no"]
  /\ stage = [s \in Sockets |-> "new"]
  /\ ref = [s \in Sockets |-> FALSE] /\ lease = [s \in Sockets |-> "none"]
  /\ read = [s \in Sockets |-> Unchanged] /\ held = [s \in Sockets |-> Fresh]
  /\ late = [s \in Sockets |-> FALSE]
  /\ budget = [drops |-> MaxDrops, failures |-> MaxFailures, renewals |-> MaxRenewals]

Spend(what) == budget[what] > 0 /\ budget' = [budget EXCEPT ![what] = @ - 1]

(***************************************************************************)
(* Cancellation                                                            *)
(***************************************************************************)

\* socket.destroy for the sockets in dead that are known to the proxy: the
\* close handlers release the wsRef and the lease.  A socket that is still being
\* admitted gives up at its next check; its wsRef may be in flight.
Referencing(s) == stage[s] = "sync1" /\ sync[s] = "ok"
Destroy(dead) ==
  LET hit == {s \in dead : stage[s] \notin {"new", "doomed", "gone"}} IN
  /\ stage' = [s \in Sockets |-> IF s \notin hit THEN stage[s]
                                ELSE IF Referencing(s) THEN "doomed" ELSE "gone"]
  /\ ref' = [s \in Sockets |-> ref[s] /\ s \notin hit]
  /\ lease' = [s \in Sockets |-> IF s \in hit THEN "none" ELSE lease[s]]
  /\ read' = [s \in Sockets |-> IF s \in hit THEN Unchanged ELSE read[s]]
  /\ held' = [s \in Sockets |-> IF s \in hit THEN Fresh ELSE held[s]]
  /\ late' = [s \in Sockets |-> late[s] /\ s \notin hit]
NobodyDies == UNCHANGED <<stage, proxy>>

\* disconnect: drop the connection and cancel all traffic, unless an earlier
\* disconnect is still cancelling it.
DisconnectWaits == ~client /\ cancelling
Disconnect ==
  /\ caughtUp' = FALSE /\ client' = FALSE /\ cancelling' = TRUE
  /\ IF DisconnectWaits THEN NobodyDies ELSE Destroy(Sockets)

\* The listeners of a disconnect settle.  The next disconnect awaits this
\* outcome again, so a failure stays.
CancellationSettles ==
  /\ cancelling /\ cancelling' = FALSE
  /\ \/ UNCHANGED <<cancelFailed, unavailable, budget>>
     \/ cancelFailed' = TRUE /\ unavailable' = TRUE /\ Spend("failures")
  /\ UNCHANGED <<db, client, cursor, caughtUp, flight, from, target, sync, stage, proxy>>

\* The connection ends or reports an error.
ConnectionLost ==
  /\ client /\ Spend("drops") /\ Disconnect
  /\ unavailable' \in {unavailable, TRUE}
  /\ UNCHANGED <<db, cursor, cancelFailed, flight, from, target, sync>>

(***************************************************************************)
(* synchronize                                                             *)
(***************************************************************************)

\* A call during a read shares the next read.
Synchronize(c) ==
  /\ sync' = [sync EXCEPT ![c] = IF flight = "none" THEN "this" ELSE "next"]
  /\ flight' = IF flight = "none" THEN "awaiting" ELSE flight
RestOfMonitor == UNCHANGED <<client, cursor, caughtUp, unavailable, cancelling, cancelFailed, from, target>>

\* What a caller is told; the timer and a closed socket do not look.
Told(c, outcome) == IF c = Poll THEN "no" ELSE IF stage[c] \in {"doomed", "gone"} THEN "no" ELSE outcome

\* Mutant of FlightSucceeds: nobody starts the read that the others wait for.
FlightSucceedsAlone ==
  /\ sync' = [c \in Callers |-> IF sync[c] = "this" THEN Told(c, "ok") ELSE sync[c]]
  /\ flight' = "none"

\* The read succeeded: its callers go on, and those that came during it start
\* the next one.
FlightSucceeds ==
  /\ sync' = [c \in Callers |-> IF sync[c] = "this" THEN Told(c, "ok")
                                ELSE IF sync[c] = "next" THEN "this" ELSE sync[c]]
  /\ flight' = IF \E c \in Callers : sync[c] = "next" THEN "awaiting" ELSE "none"

\* The read failed: everybody who waits for it, or for its end, is refused, and
\* the traffic is cancelled.
FlightFails ==
  /\ sync' = [c \in Callers |-> IF sync[c] \in {"this", "next"} THEN Told(c, "failed") ELSE sync[c]]
  /\ flight' = "none" /\ unavailable' = TRUE /\ Disconnect
  /\ from' = 0 /\ target' = 0 /\ UNCHANGED <<db, cursor, cancelFailed>>

\* Mutant of Wake: the timer only reconnects.
WakeToReconnect ==
  /\ ~client /\ sync[Poll] = "no" /\ Synchronize(Poll)
  /\ RestOfMonitor /\ UNCHANGED <<db, stage, proxy, budget>>

\* wake: the poll interval, or a notification.
Wake ==
  /\ sync[Poll] = "no" /\ Synchronize(Poll)
  /\ RestOfMonitor /\ UNCHANGED <<db, stage, proxy, budget>>

(***************************************************************************)
(* drain                                                                   *)
(***************************************************************************)

\* Mutant of AwaitCancellations: a failed cancellation only delays the reconnect.
AwaitAnyOutcome ==
  /\ flight = "awaiting" /\ ~cancelling
  /\ flight' = IF client THEN "reading" ELSE "connecting"
  /\ RestOfMonitor /\ UNCHANGED <<db, sync, stage, proxy, budget>>

\* connection: first the cancellations of an earlier disconnect must be over.
AwaitCancellations ==
  /\ flight = "awaiting" /\ ~cancelling
  /\ \/ cancelFailed /\ FlightFails
     \/ /\ ~cancelFailed /\ flight' = IF client THEN "reading" ELSE "connecting"
        /\ RestOfMonitor /\ UNCHANGED <<db, sync, stage, proxy>>
  /\ UNCHANGED budget

\* pool.connect and LISTEN.
Connect ==
  /\ flight = "connecting"
  /\ \/ /\ client' = TRUE /\ flight' = "reading"
        /\ UNCHANGED <<db, cursor, caughtUp, unavailable, cancelling, cancelFailed, from, target, sync, stage, proxy, budget>>
     \/ Spend("drops") /\ FlightFails

\* The connection went away under a query.
QueryFails ==
  /\ flight \in {"reading", "fetching", "acking"}
  /\ \/ ~client /\ UNCHANGED budget
     \/ Spend("drops")
  /\ FlightFails

\* Mutant of Initial: every read resumes at what the node has applied.
InitialApplied == applied

\* A running process keeps its own cursor; a cold one resumes where the node was.
Initial == IF cursor = NoCursor THEN applied ELSE cursor

Advance(r) ==
  /\ cursor' = r /\ from' = 0 /\ target' = 0 /\ unavailable' = FALSE /\ caughtUp' = TRUE
  /\ FlightSucceeds

\* The revision query answers; with nothing new the read is over.
ReadRevision ==
  /\ flight = "reading" /\ client
  /\ \/ Initial = Len(log) /\ Advance(Len(log))
     \/ /\ Initial # Len(log) /\ from' = Initial /\ target' = Len(log) /\ flight' = "fetching"
        /\ UNCHANGED <<cursor, unavailable, caughtUp, sync>>
  /\ UNCHANGED <<db, client, cancelling, cancelFailed, stage, proxy, budget>>

\* The outbox rows arrive, and every listener is called: the proxy destroys the
\* sockets that are named before any runtime stop is awaited.
Fetch ==
  /\ flight = "fetching" /\ client /\ flight' = "notifying"
  /\ Destroy({log[r] : r \in from + 1 .. target})
  /\ RestOfMonitor /\ UNCHANGED <<db, sync, budget>>

\* The listeners settle; the connection must still be the one that was read.
NotifySettles ==
  /\ flight = "notifying"
  /\ \/ /\ client /\ flight' = "acking"
        /\ RestOfMonitor /\ UNCHANGED <<db, sync, stage, proxy, budget>>
     \/ ~client /\ FlightFails /\ UNCHANGED budget
     \/ Spend("failures") /\ FlightFails

\* The node's row takes the revision, never backwards, and the process follows.
Acknowledge ==
  /\ flight = "acking" /\ client
  /\ applied' = IF target > applied THEN target ELSE applied
  /\ Advance(target)
  /\ UNCHANGED <<log, allowed, client, cancelling, cancelFailed, stage, proxy, budget>>

Drain ==
  AwaitCancellations \/ Connect \/ QueryFails \/ ReadRevision \/ Fetch \/ NotifySettles \/ Acknowledge

(***************************************************************************)
(* upgrade and upgradeRequest: admission of a WebSocket.  A socket that was *)
(* destroyed while it waited is "gone" and takes no further step.           *)
(***************************************************************************)
Stage(s, next) == stage' = [stage EXCEPT ![s] = next]
Synced(s, at) == stage[s] = at /\ sync[s] = "ok"
Proceeds(s) == sync' = [sync EXCEPT ![s] = "no"]
Asks(s) == late' = [late EXCEPT ![s] = read[s] # Unchanged]

\* The socket joins the active operations; the first read.
Upgrade(s) ==
  /\ stage[s] = "new" /\ Stage(s, "sync1")
  /\ Synchronize(s)
  /\ RestOfMonitor /\ UNCHANGED <<db, proxy, budget>>

\* A read this socket waited for has failed: admission ends.  (A failed read
\* has closed the open sockets itself, so no renewal is left to be refused.)
SyncFailed(s) ==
  /\ sync[s] = "failed" /\ Proceeds(s) /\ Destroy({s})
  /\ UNCHANGED <<db, monitor, budget>>

\* wsRef answers for a socket that closed meanwhile, whose close event has
\* passed: the reference is given back at once.
ReferencedLate(s) ==
  /\ stage[s] = "doomed" /\ Stage(s, "gone")
  /\ UNCHANGED <<db, monitor, sync, proxy, budget>>

\* After the first read: the runtime is up and wsRef has answered; revalidate
\* starts with a read of its own.
Referenced(s) ==
  /\ Synced(s, "sync1") /\ Stage(s, "sync2")
  /\ ref' = [ref EXCEPT ![s] = TRUE]
  /\ Synchronize(s)
  /\ RestOfMonitor /\ UNCHANGED <<db, lease, read, late, held, budget>>

\* After the read at its stage the account, the project or the login is read.
AuthorityRead(s) ==
  /\ sync[s] = "ok" /\ sync' = [sync EXCEPT ![s] = "checked"]
  /\ stage[s] \in {"sync2", "renew1"} \cup IF s \in EventSockets THEN {"sync3"} ELSE {}
  /\ stage[s] = "renew1" => available
  /\ read' = [read EXCEPT ![s] = IF s \in allowed /\ lease[s] # "due" THEN Unchanged ELSE Refusal]
  /\ UNCHANGED <<db, monitor, stage, ref, lease, late, held, budget>>

\* Mutant of Confirm: the authority that was read is used at once.
ConfirmAtOnce(s, at, next) ==
  /\ stage[s] = at /\ sync[s] = "checked" /\ Stage(s, next)
  /\ sync' = [sync EXCEPT ![s] = "ok"] /\ Asks(s)
  /\ UNCHANGED <<db, monitor, ref, lease, read, held, budget>>

\* One more read includes the changes committed while that one was in flight.
Confirm(s, at, next) ==
  /\ stage[s] = at /\ sync[s] = "checked" /\ Stage(s, next)
  /\ Synchronize(s) /\ Asks(s)
  /\ RestOfMonitor /\ UNCHANGED <<db, ref, lease, read, held, budget>>

\* revalidate refuses at once or confirms; what qualifyStream found is looked at
\* after the read that follows it.
Refused(s) ==
  /\ \/ stage[s] = "sync2" /\ sync[s] = "checked"
     \/ Synced(s, "sync4")
  /\ read[s] = Refusal /\ Destroy({s}) /\ Proceeds(s)
  /\ UNCHANGED <<db, monitor, budget>>
Revalidate(s) == read[s] # Refusal /\ Confirm(s, "sync2", "sync3")
Qualify(s) == Confirm(s, "sync3", "sync4")

\* The socket is connected to the runtime with the authority last read.
Holds(s) ==
  /\ held' = [held EXCEPT ![s] = [at |-> read[s], late |-> late[s]]]
  /\ read' = [read EXCEPT ![s] = Unchanged] /\ late' = [late EXCEPT ![s] = FALSE]

\* revalidate has returned for a socket that is no event connection.
Revalidated(s) ==
  /\ s \notin EventSockets /\ Synced(s, "sync3") /\ Proceeds(s) /\ Stage(s, "open") /\ Holds(s)
  /\ UNCHANGED <<db, monitor, ref, lease, budget>>

\* register: the lease is armed before the upgrade is proxied.
Register(s) ==
  /\ Synced(s, "sync4") /\ read[s] # Refusal /\ Proceeds(s) /\ Stage(s, "open") /\ Holds(s)
  /\ lease' = [lease EXCEPT ![s] = "armed"]
  /\ UNCHANGED <<db, monitor, ref, budget>>

\* The browser goes away.
ClientCloses(s) ==
  /\ stage[s] \notin {"new", "doomed", "gone"} /\ Destroy({s})
  /\ UNCHANGED <<db, monitor, sync, budget>>

(***************************************************************************)
(* StreamPrincipalLeases                                                   *)
(***************************************************************************)

\* The lease runs out; its timer runs some time later.
Expire(s) ==
  /\ lease[s] = "armed"
  /\ lease' = [lease EXCEPT ![s] = "due"]
  /\ UNCHANGED <<db, monitor, sync, stage, ref, read, late, held, budget>>
ExpiryTimer(s) ==
  /\ lease[s] = "due" /\ Destroy({s})
  /\ UNCHANGED <<db, monitor, sync, budget>>

\* renew: catch up before the login is read.
Renew(s) ==
  /\ stage[s] = "open" /\ lease[s] # "none" /\ sync[s] = "no" /\ Spend("renewals")
  /\ Stage(s, "renew1") /\ Synchronize(s)
  /\ RestOfMonitor /\ UNCHANGED <<db, proxy>>

\* The login was read, if the lease was live; the outcome is used after one
\* more read.
Requalify(s) == Confirm(s, "renew1", "renew2")

\* Mutant of Renewed: liveness was checked before the reads and is not again.
RenewedUnchecked(s) ==
  /\ Synced(s, "renew2") /\ available /\ Proceeds(s)
  /\ \/ read[s] = Refusal /\ Destroy({s})
     \/ read[s] # Refusal /\ Stage(s, "open") /\ Holds(s)
        /\ lease' = [lease EXCEPT ![s] = "armed"] /\ UNCHANGED ref
  /\ UNCHANGED <<db, monitor, budget>>

\* Deny a lease that is not live, cancel one that does not qualify, renew the rest.
Renewed(s) ==
  /\ Synced(s, "renew2") /\ available /\ Proceeds(s)
  /\ \/ lease[s] = "due" /\ Stage(s, "open") /\ UNCHANGED proxy
     \/ lease[s] = "armed" /\ read[s] = Refusal /\ Destroy({s})
     \/ lease[s] = "armed" /\ read[s] # Refusal /\ Stage(s, "open") /\ Holds(s)
        /\ UNCHANGED <<ref, lease>>
  /\ UNCHANGED <<db, monitor, budget>>

(***************************************************************************)
(* The environment                                                         *)
(***************************************************************************)

\* An access change commits with its revision: a revocation or a grant.
Commit(s) ==
  /\ s \in Named /\ Len(log) < MaxRevisions /\ log' = Append(log, s)
  /\ allowed' = IF s \in allowed THEN allowed \ {s} ELSE allowed \cup {s}
  /\ read' = [read EXCEPT ![s] =
       IF @ = Unchanged /\ (sync[s] = "checked" \/ stage[s] \in {"sync3", "sync4", "renew2"})
       THEN Len(log) + 1 ELSE @]
  /\ held' = [held EXCEPT ![s].at = IF @ = Unchanged /\ stage[s] \in Open THEN Len(log) + 1 ELSE @]
  /\ UNCHANGED <<applied, monitor, sync, stage, ref, lease, late, budget>>

\* Another process of the node acknowledges newer revisions.
PeerAcknowledges ==
  /\ applied < Len(log) /\ applied' = Len(log)
  /\ UNCHANGED <<log, allowed, monitor, sync, stage, proxy, budget>>

Admission(s) ==
  \/ SyncFailed(s) \/ Referenced(s) \/ ReferencedLate(s) \/ AuthorityRead(s) \/ Refused(s)
  \/ Revalidate(s) \/ Revalidated(s) \/ Qualify(s) \/ Register(s)
Renewal(s) == Requalify(s) \/ Renewed(s)

Next ==
  \/ Drain \/ CancellationSettles \/ ConnectionLost \/ Wake \/ PeerAcknowledges
  \/ \E s \in Sockets :
       Upgrade(s) \/ Admission(s) \/ ClientCloses(s) \/ Expire(s) \/ ExpiryTimer(s)
         \/ Renew(s) \/ Renewal(s) \/ Commit(s)

Spec == Init /\ [][Next]_vars

\* Queries answer or fail, listeners settle, and the poll timer keeps firing.
Fairness == WF_vars(Drain) /\ WF_vars(CancellationSettles) /\ WF_vars(Wake)

FairSpec == Spec /\ Fairness

(***************************************************************************)
(* Properties                                                              *)
(***************************************************************************)

TypeMonitor ==
  /\ log \in Seq(Sockets) /\ allowed \subseteq Sockets /\ applied \in 0 .. Len(log)
  /\ cursor \in 0 .. NoCursor /\ {from, target} \subseteq 0 .. MaxRevisions
  /\ flight \in {"none", "awaiting", "connecting", "reading", "fetching", "notifying", "acking"}
  /\ sync \in [Callers -> {"no", "this", "next", "ok", "failed", "checked"}]
TypeFlags == {client, caughtUp, unavailable, cancelling, cancelFailed} \subseteq BOOLEAN
TypeProxy ==
  /\ stage \in [Sockets -> {"new", "sync1", "sync2", "sync3", "sync4", "open", "renew1",
                            "renew2", "doomed", "gone"}]
  /\ ref \in [Sockets -> BOOLEAN] /\ lease \in [Sockets -> {"none", "armed", "due"}]
  /\ read \in [Sockets -> 0 .. Unchanged] /\ late \in [Sockets -> BOOLEAN]
  /\ held \in [Sockets -> [at : 0 .. Unchanged, late : BOOLEAN]]

\* The type of every variable.
TypeOK == TypeMonitor /\ TypeFlags /\ TypeProxy

\* A revision the process has applied leaves no stream open that it names,
\* however it interleaved with the stream's admission or renewal
\* (access-invalidation.ts:20, 24).
AppliedIsClosed ==
  \A s \in Sockets : stage[s] \in Open /\ cursor # NoCursor => cursor < held[s].at

\* A stream is admitted, or renewed, only with authority that was still current
\* when it asked for its last read: a change committed before that call and
\* after its authority was read is not missed (access-invalidation.ts:99, proxy.ts:201).
AdmittedIsCurrent == \A s \in Sockets : stage[s] \in Open => ~held[s].late

\* Every open stream is watched: the process has a connection on which it will
\* learn of the stream's revocation (gateway README:463).
OpenIsWatched == (\E s \in Sockets : stage[s] \in Open) => client

\* A cancellation that failed keeps admission closed: nothing is admitted and
\* the monitor is never available again, however often the connection is lost
\* and the cancellation repeated (tests/access-invalidation.spec.ts:440).
FailureKeepsClosed == cancelFailed => ~available /\ \A s \in Sockets : stage[s] \notin Open

\* A wsRef is held exactly by the sockets that are past it and not gone: none is
\* stranded by a socket that closes while wsRef is in flight.
RefsBalanced ==
  \A s \in Sockets : ref[s] <=> stage[s] \notin {"new", "sync1", "doomed", "gone"}

\* No stream without its guards: types, a watched connection, closed admission
\* after a failed cancellation, balanced references.
StreamsGuarded == TypeOK /\ OpenIsWatched /\ FailureKeepsClosed /\ RefsBalanced

\* A lease belongs to an open event connection, and one that has run out is
\* never renewed, even when its timer is late.
LeasesAreLive ==
  [][\A s \in Sockets :
       /\ lease[s] = "due" /\ lease'[s] # "none" => lease'[s] = "due" /\ held'[s].at <= held[s].at
       /\ lease'[s] # "none" => stage'[s] \in Open]_vars

\* Every synchronize settles, although later calls keep coming.
SynchronizeSettles == \A c \in Callers : sync[c] \in {"this", "next"} ~> sync[c] \notin {"this", "next"}

\* A revoked stream is closed in the end, without a notification and whatever
\* fails.
RevocationCloses ==
  \A s \in Sockets : stage[s] \in Open /\ s \notin allowed ~> stage[s] = "gone" \/ s \in allowed
=============================================================================
