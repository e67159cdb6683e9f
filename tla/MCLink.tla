------------------------------- MODULE MCLink -------------------------------
(* Small instances of Link: the worker and one CmdConnect goroutine, which
   is what AddPeer and the start-up Connect give each peer. *)
EXTENDS Link

CONSTANTS command, c1, c2, c3
=============================================================================
