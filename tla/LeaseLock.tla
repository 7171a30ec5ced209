------------------------------ MODULE LeaseLock ------------------------------
(***************************************************************************)
(* What the row of node_sync_locks promises ("Only one node can hold the   *)
(* lock at a time"): a lease with at most one holder, and nobody works     *)
(* inside the lease but its holder.  SyncLock implements it.               *)
(***************************************************************************)
CONSTANTS Session, Nobody

VARIABLES
    holder,   \* the session the lease is granted to, or Nobody
    inside    \* sessions that work under an unexpired lease

lvars == <<holder, inside>>

Init == holder = Nobody /\ inside = {}

\* The lease is granted; the session may die before it learns of it.
Grant(s) ==
    /\ holder = Nobody
    /\ holder' = s
    /\ inside' \in {{}, {s}}

\* The holder stops working.  It gives the lease back, or lets it run out.
Leave(s) ==
    /\ s \in inside
    /\ inside' = inside \ {s}
    /\ holder' \in {holder, Nobody}

\* The lease runs out, on the session inside too.
Expire ==
    /\ holder # Nobody
    /\ holder' = Nobody
    /\ inside' = {}

Next == Expire \/ \E s \in Session : Grant(s) \/ Leave(s)

Spec == Init /\ [][Next]_lvars

=============================================================================
