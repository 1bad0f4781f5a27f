--------------------------- MODULE MCCommandClient ---------------------------
(* Three invocations over two threads with room for one pending cancel.     *)
EXTENDS CommandClient
=============================================================================
