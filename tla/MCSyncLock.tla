----------------------------- MODULE MCSyncLock -----------------------------
(* An instance of SyncLock: the sessions that one node asked for lock under its *)
(* name on the nodes that received the request; one session has another name. *)
EXTENDS SyncLock

CONSTANT Other   \* the session that another node asked for

Names == {"nodeA", "nodeB"}
SharedName == [s \in Session |-> IF s = Other THEN "nodeB" ELSE "nodeA"]

=============================================================================
