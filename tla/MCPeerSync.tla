----------------------------- MODULE MCPeerSync -----------------------------
(* Instances of PeerSync for model checking. *)
EXTENDS PeerSync, TLC

CONSTANTS c1, unset, key1, i1, i2

\* A row, and what differs from it in the flag, in the key, and in the interface.
Base == [cfg |-> c1, opt |-> key1, iface |-> i1, disabled |-> FALSE]
Disabled == [Base EXCEPT !.disabled = TRUE]
Emptied == [Base EXCEPT !.opt = unset]
Moved == [Base EXCEPT !.iface = i2]

BaseRow == {Base}
FlagOrInterface == {Disabled, Moved}
KeyOrInterface == {Emptied, Moved}

Symmetry == Permutations(Node) \cup Permutations(Peer) \cup Permutations(Request)
=============================================================================
