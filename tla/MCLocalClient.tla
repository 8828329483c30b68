----------------------------- MODULE MCLocalClient -----------------------------
(* Two callers, two clients to stop and two blocks of at most one transaction. *)
EXTENDS LocalClient

MCCallers == {"rpc", "peer"}
================================================================================
