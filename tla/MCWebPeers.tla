----------------------------- MODULE MCWebPeers -----------------------------
(* Two interfaces; i has the peers p and q, j has r; s can be created. *)
EXTENDS WebPeers, TLC

CONSTANTS i, j, p, q, r, s

MCIfaces == <<i, j>>
MCHome == (p :> i) @@ (q :> i) @@ (s :> i) @@ (r :> j)
=============================================================================
