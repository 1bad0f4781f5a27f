------------------------------ MODULE InputPipe ------------------------------
(***************************************************************************)
(* What the input side of a terminal promises, seen from the keyboard and  *)
(* from the remote host: a bounded pipe.  Bytes that were accepted are     *)
(* numbered; the channel takes them in this order, none twice and none     *)
(* left out, never more than Capacity are on their way, and a closed pipe  *)
(* delivers nothing.  How the bytes travel is left to TerminalSession.     *)
(***************************************************************************)
EXTENDS Naturals

CONSTANT Capacity

VARIABLES
  sent,   \* how many bytes were accepted
  took,   \* the bytes of the last write: after number from, up to number to
  open    \* bytes may still be delivered

pipe == <<sent, took, open>>

Init ==
  sent = 0 /\ took = [from |-> 0, to |-> 0] /\ open = TRUE

Accept ==
  /\ sent' >= sent /\ sent' - took.to <= Capacity
  /\ UNCHANGED <<took, open>>

Deliver ==
  /\ open
  /\ took'.from = took.to
  /\ took'.to \in took.to + 1 .. sent
  /\ UNCHANGED <<sent, open>>

Close == open /\ open' = FALSE /\ UNCHANGED <<sent, took>>

Spec == Init /\ [][Accept \/ Deliver \/ Close]_pipe
=============================================================================
