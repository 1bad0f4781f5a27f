----------------------------- MODULE MCTerminal ------------------------------
(* Input of no byte and of two bytes against room for three.                *)
EXTENDS TerminalSession
=============================================================================
