------------------------------ MODULE MCWebForm ------------------------------
(* The dialogs of WebForm on a small instance: a stored peer p on i, peers   *)
(* p2 (on i) and p3 (on j) that may be prepared, interfaces i and j and a    *)
(* free name k.                                                              *)
EXTENDS WebForm, TLC

CONSTANTS p, p2, p3, i, j, k, d1, d2

MCHome == (p :> i) @@ (p2 :> i) @@ (p3 :> j)

\* 22:00:30 UTC, which is 01:00:30 of the next day in the browser.
MCExpires == [q \in Peers |-> IF q = p THEN {[min |-> 22 * 60, sec |-> 30]} ELSE {}]

\* Noon of the next day.
MCPicks == {[date |-> 1, time |-> 720]}
=============================================================================
