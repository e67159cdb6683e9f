---------------------------- MODULE MCHandshake -----------------------------
(* A small instance of Handshake: two nodes, which dial each other. *)
EXTENDS Handshake

CONSTANTS a, b
=============================================================================
