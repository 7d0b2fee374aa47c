----------------------------- MODULE MCConnMgr -----------------------------
(* Small instances of ConnMgr.  Clients, sockets and writers are alike. *)
EXTENDS ConnMgrProofs, TLC

Symmetry == Permutations(Clients) \cup Permutations(Socks) \cup Permutations(Writers)
=============================================================================
