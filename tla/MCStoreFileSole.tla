---------------------------- MODULE MCStoreFileSole ----------------------------
(* One process with one writer; who only reads the file needs no state. *)
EXTENDS StoreFileSole

CONSTANTS writer, w1

MCProcs   == {writer}
MCWriters == {w1}
MCProcOf  == [w \in MCWriters |-> writer]
================================================================================
