------------------------------- MODULE MCVault -------------------------------
(* Two servers with two secrets each, two passwords, both builds.           *)
EXTENDS CredentialVault
=============================================================================
