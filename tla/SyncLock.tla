------------------------------- MODULE SyncLock -------------------------------
(***************************************************************************)
(* The lease lock of the full peer synchronisation: one row of the table   *)
(* node_sync_locks, taken by AcquireLock and given back by ReleaseLock     *)
(* (internal/adapters/database.go).  Each POST to /api/v1/peer/sync        *)
(* without a peer_id runs one session of SyncAllPeersFromDBWithLock on the *)
(* node that receives it, under the name the SENDER put into X-WGP-Origin: *)
(* sessions on several nodes share a name when one node asked for them.    *)
(*                                                                         *)
(* Clocks of the nodes and of the database are taken to agree.  Instants   *)
(* are kept relative to the present, the time a lease has left and the     *)
(* time since a session read the clock, and are not told apart once they   *)
(* are too far in the past to decide any comparison of the code.           *)
(***************************************************************************)
EXTENDS Integers, FiniteSets

CONSTANTS
    Session,       \* slots for requests served at the same time
    NodeID,        \* names of nodes
    Origin,        \* the name under which each session locks
    Lease,         \* syncLockDuration (5 minutes)
    Timeout        \* syncLockTimeout (2 minutes)

ASSUME OriginAssumption == Origin \in [Session -> NodeID]
ASSUME TimeAssumption ==
    /\ Lease \in Nat /\ Timeout \in Nat
    /\ Timeout <= Lease

VARIABLES
    lock,     \* the row, or Free
    pc,       \* control state of each session
    age,      \* time since AcquireLock read time.Now(); 0 if idle
    cleaners, \* sessions whose background CleanupExpiredLocks has not run yet
    failed,   \* history: the first DELETE of an AcquireLock has failed
    late      \* history: a session has run ReleaseLock after the end of its lease

lockVars == <<lock, pc, age, cleaners, failed, late>>

-----------------------------------------------------------------------------
Free == [free |-> "free"]
ASSUME FreeAssumption == Free \notin Session

\* A row: node_id, the time until expires_at (negative: expired), and as history
\* the session that inserted it.
LongAgo == Timeout + 1
Row == [id : NodeID, left : -LongAgo..Lease, by : Session]

Pc == {"idle", "clean", "insert", "check", "drop", "hold"}

\* The row exists and expires_at is not before the instant a units ago.
InForce(a) == lock # Free /\ lock.left + a >= 0

LockTypeOK ==
    /\ lock \in Row \cup {Free}
    /\ pc \in [Session -> Pc]
    /\ age \in [Session -> 0..(Lease + 1)]
    /\ cleaners \in SUBSET Session
    /\ failed \in BOOLEAN
    /\ late \in BOOLEAN

LockInit ==
    /\ lock = Free
    /\ pc = [s \in Session |-> "idle"]
    /\ age = [s \in Session |-> 0]
    /\ cleaners = {}
    /\ failed = FALSE
    /\ late = FALSE

\* The clock reading of a session is forgotten when the session ends.
Goto(s, l) ==
    /\ pc' = [pc EXCEPT ![s] = l]
    /\ age' = [age EXCEPT ![s] = IF l = "idle" THEN 0 ELSE @]

\* Statements of AcquireLock run under lockCtx and fail after its deadline.
InTime(s) == age[s] <= Timeout

-----------------------------------------------------------------------------
(* AcquireLock *)

\* The request arrives; AcquireLock reads the clock.
Begin(s) ==
    /\ pc[s] = "idle"
    /\ Goto(s, "clean")
    /\ UNCHANGED <<lock, cleaners, failed, late>>

\* Mutant: the DELETE compares with the end of the lease it is about to take.
CleanAll(s) ==
    /\ pc[s] = "clean"
    /\ InTime(s)
    /\ lock' = IF InForce(age[s] - Lease) THEN lock ELSE Free
    /\ Goto(s, "insert")
    /\ UNCHANGED <<cleaners, failed, late>>

\* DELETE WHERE expires_at < now.
Clean(s) ==
    /\ pc[s] = "clean"
    /\ InTime(s)
    /\ lock' = IF InForce(age[s]) THEN lock ELSE Free
    /\ Goto(s, "insert")
    /\ UNCHANGED <<cleaners, failed, late>>

\* The DELETE fails; the error is only logged.
CleanFail(s) ==
    /\ pc[s] = "clean"
    /\ InTime(s)
    /\ failed' = TRUE
    /\ Goto(s, "insert")
    /\ UNCHANGED <<lock, cleaners, late>>

NewRow(s) == [id |-> Origin[s], left |-> Lease - age[s], by |-> s]

\* Mutant: ON DUPLICATE KEY UPDATE, which the comment of AcquireLock rules out.
InsertOver(s) ==
    /\ pc[s] = "insert"
    /\ InTime(s)
    /\ lock' = NewRow(s)
    /\ Goto(s, "hold")
    /\ UNCHANGED <<cleaners, failed, late>>

\* INSERT: succeeds when there is no row, whatever its expiry.
Insert(s) ==
    /\ pc[s] = "insert"
    /\ InTime(s)
    /\ IF lock = Free THEN lock' = NewRow(s) /\ Goto(s, "hold")
                      ELSE UNCHANGED lock /\ Goto(s, "check")
    /\ UNCHANGED <<cleaners, failed, late>>

\* The INSERT is executed but its answer is lost: the session believes that it
\* failed and will find its own row.
InsertUnanswered(s) ==
    /\ pc[s] = "insert"
    /\ InTime(s)
    /\ lock = Free
    /\ lock' = NewRow(s)
    /\ Goto(s, "check")
    /\ UNCHANGED <<cleaners, failed, late>>

\* The row is read to see who holds the lock; an expired one will be dropped.
Check(s) ==
    /\ pc[s] = "check"
    /\ InTime(s)
    /\ Goto(s, IF lock # Free /\ ~InForce(age[s]) THEN "drop" ELSE "idle")
    /\ UNCHANGED <<lock, cleaners, failed, late>>

\* Delete(&lock): by primary key only, so whatever row is there now goes.
Drop(s) ==
    /\ pc[s] = "drop"
    /\ InTime(s)
    /\ lock' = Free
    /\ Goto(s, "idle")
    /\ UNCHANGED <<cleaners, failed, late>>

\* The deadline of lockCtx passes: the session is refused.
GiveUp(s) ==
    /\ pc[s] \in {"clean", "insert", "check", "drop"}
    /\ ~InTime(s)
    /\ Goto(s, "idle")
    /\ UNCHANGED <<lock, cleaners, failed, late>>

-----------------------------------------------------------------------------
(* End of SyncAllPeersFromDBWithLock *)

\* ReleaseLock: DELETE WHERE node_id = nodeID AND expires_at > NOW(), whichever
\* session of that name inserted the row.  An error (always with SQLite and MSSQL,
\* which have no NOW()) is swallowed and leaves the row.  CleanupExpiredLocks is
\* started in the background.
Release(s) ==
    /\ pc[s] = "hold"
    /\ \/ lock' = lock
       \/ lock # Free /\ lock.id = Origin[s] /\ lock.left > 0 /\ lock' = Free
    /\ late' = (late \/ age[s] > Lease)
    /\ Goto(s, "idle")
    /\ cleaners' = cleaners \cup {s}
    /\ UNCHANGED failed

\* Mutant: the rows of the node's own name go whatever their expiry.
CleanupOwnLocks(s) ==
    /\ s \in cleaners
    /\ lock' = IF lock # Free /\ lock.id = Origin[s] THEN Free ELSE lock
    /\ cleaners' = cleaners \ {s}
    /\ UNCHANGED <<pc, age, failed, late>>

\* CleanupExpiredLocks: DELETE WHERE expires_at < time.Now().
CleanupExpiredLocks(s) ==
    /\ s \in cleaners
    /\ lock' = IF InForce(0) THEN lock ELSE Free
    /\ cleaners' = cleaners \ {s}
    /\ UNCHANGED <<pc, age, failed, late>>

\* The node serving the session dies; its row stays.
Crash(s) ==
    /\ pc[s] # "idle" \/ s \in cleaners
    /\ Goto(s, "idle")
    /\ cleaners' = cleaners \ {s}
    /\ UNCHANGED <<lock, failed, late>>

\* One unit of time passes.
Tick ==
    /\ lock' = IF lock # Free /\ lock.left > -LongAgo
                 THEN [id |-> lock.id, left |-> lock.left - 1, by |-> lock.by]
                 ELSE lock
    /\ age' = [s \in Session |->
                 IF pc[s] # "idle" /\ age[s] <= Lease THEN age[s] + 1 ELSE age[s]]
    /\ UNCHANGED <<pc, cleaners, failed, late>>

-----------------------------------------------------------------------------
Step(s) ==
    \/ Clean(s) \/ CleanFail(s)
    \/ Insert(s) \/ InsertUnanswered(s)
    \/ Check(s) \/ Drop(s) \/ GiveUp(s)
    \/ Release(s) \/ CleanupExpiredLocks(s)

LockNext ==
    \/ Tick
    \/ \E s \in Session : Begin(s) \/ Step(s) \/ Crash(s)

LockSpec == LockInit /\ [][LockNext]_lockVars

\* Time passes.
LockFairSpec == LockSpec /\ WF_lockVars(Tick)

-----------------------------------------------------------------------------
(* Properties *)

\* Session s is synchronising and its lease has not run out.
Inside(s) == pc[s] = "hold" /\ age[s] <= Lease

\* "Only one node can hold the lock at a time": two sessions are never inside
\* their leases together.  The code does not keep it.
OneHolder == \A s, t \in Session : Inside(s) /\ Inside(t) => s = t

\* No session has run ReleaseLock after the end of its lease (which may delete the
\* row of another session of the same name), and no AcquireLock has gone on after
\* its first DELETE failed (which may drop the row of any session by its key).
Orderly == ~failed /\ ~late

\* Exactly those two spoil it: whatever names the sessions share, sessions that do
\* not outlive their leases are alone in them.
LeaseExclusive == Orderly => OneHolder

\* A session inside its lease owns the row: neither AcquireLock, ReleaseLock nor
\* CleanupExpiredLocks of another session has taken it away.
HolderOwnsRow ==
    \A s \in Session :
        Inside(s) => lock # Free /\ lock.by = s /\ lock.left = Lease - age[s]

\* What an AcquireLock that has cleaned the table knows: the row it meets was
\* inserted with a lease that was still in force when it began.
CleanedRow ==
    \A s \in Session :
        /\ pc[s] \in {"insert", "check"} /\ InTime(s) /\ lock # Free => InForce(age[s])
        /\ pc[s] # "drop"

\* The row carries its session's name, and while that session works the row does
\* not outlive the lease the session believes in.
RowBelongs ==
    lock # Free =>
        /\ lock.id = Origin[lock.by]
        /\ pc[lock.by] = "hold" => lock.left <= Lease - age[lock.by]

SafeLock == LockTypeOK /\ RowBelongs /\ CleanedRow /\ HolderOwnsRow

\* The inductive invariant of the proofs.
LockInv == LockTypeOK /\ (Orderly => SafeLock)

\* "Auto-release stuck locks after 5 minutes": whatever dies, fails or gets lost,
\* there is always a later moment at which no row is in force, so that a row
\* left by AcquireLock never blocks the synchronisation for good.
NeverStuck == []<>~InForce(0)

\* SyncLock implements LeaseLock: the holder is the session of the row in force.
\* A failed first DELETE or a late ReleaseLock counts as the end of all leases.
LL == INSTANCE LeaseLock WITH
        Nobody <- Free,
        holder <- IF Orderly /\ InForce(0) THEN lock.by ELSE Free,
        inside <- {s \in Session : Orderly /\ Inside(s)}
ImplementsLease == LL!Spec

=============================================================================
