----------------------------- MODULE MCStatusStream -----------------------------
(* One call of WatchStatus on a core that changes its state a few times. *)
EXTENDS StatusStream
=================================================================================
