------------------------------- MODULE MCStores -------------------------------
\* What the program keeps on its own disk, in one run: the server profiles and
\* the credential vault.  The two models share no state (a step of the first on
\* the vault is atomic, as the second shows); the initial state says which of
\* them a behaviour is about.
EXTENDS MCServerStore, MCVault

VARIABLE store

storeVars == <<vars, vaultVars, store>>

\* What is not the part of a behaviour stays at one of its initial values.
NoCredentials ==
  /\ windows = FALSE
  /\ file = Nil /\ key = Nil /\ doc = Empty
  /\ op = Nil /\ salts = 0 /\ result = "none"

StoresInit ==
  \/ store = "servers" /\ Init /\ NoCredentials
  \/ store = "vault" /\ Init /\ VaultInit

StoresNext ==
  /\ UNCHANGED store
  /\ \/ store = "servers" /\ Next /\ UNCHANGED vaultVars
     \/ store = "vault" /\ VaultNext /\ UNCHANGED vars

StoresSpec == StoresInit /\ [][StoresNext]_storeVars
=============================================================================
