------------------------------ MODULE MCServer ------------------------------
(* A small instance of Server. *)
EXTENDS Server, TLC

CONSTANTS socket, file
=============================================================================
