-------------------------- MODULE MCRemoteStorage --------------------------
(* Two calls cover every pair of operations that meet; two values let a     *)
(* stale answer be told from a fresh one.                                   *)
EXTENDS RemoteStorage
=============================================================================
