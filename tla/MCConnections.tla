---------------------------- MODULE MCConnections ----------------------------
(* Two threads, two calls, two profile keys and one edit.                   *)
EXTENDS Connections
=============================================================================
