-------------------------- MODULE MCProcessSession --------------------------
(* The owner of a worker and one more holder of its channel.                 *)
EXTENDS ProcessSession
=============================================================================
