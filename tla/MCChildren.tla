----------------------------- MODULE MCChildren -----------------------------
(* Clients and pids to check Children with. *)
EXTENDS Children
=============================================================================
