--------------------------- MODULE CredentialVault ---------------------------
(***************************************************************************)
(* The encrypted credential vault of credentials.rs: the state behind the  *)
(* store's mutex (derived key, salt, decrypted document), the vault file,  *)
(* and the steps by which atomic_write replaces that file, between which   *)
(* the program may be killed and each of which may fail.                   *)
(*                                                                         *)
(* Encryption is authenticated: a file opens with the password it was      *)
(* written under and with no other.  A key is the password and the salt it *)
(* was derived from; salts are numbered, none is drawn twice.              *)
(***************************************************************************)
EXTENDS Naturals

CONSTANTS Owners,       \* servers the vault keeps secrets of
          Slots,        \* secrets of a server
          SecretValues, \* values of a secret
          Passwords,    \* master passwords of sufficient length
          Platforms,    \* builds: TRUE for cfg(windows)
          Nil,          \* no file, no key, no secret
          Unmentioned,  \* a slot a draft does not mention
          MaxSalts      \* bound: salts drawn in a behaviour

VARIABLES
  file,    \* the vault file: its password, salt and document, or Nil
  key,     \* CredentialState.key and .salt, or Nil
  doc,     \* CredentialState.document
  windows, \* the build: on Windows a file is not renamed over another
  op,      \* the write in progress under the mutex, or Nil
  salts,   \* how many salts were drawn
  result   \* what the last call of the store returned

vaultVars == <<file, key, doc, windows, op, salts, result>>

Value == SecretValues \cup {Nil}
Documents == [Owners -> [Slots -> Value]]
Empty == [s \in Owners |-> [slot \in Slots |-> Nil]]
Keys == [pass : Passwords, salt : Nat]
Files == [pass : Passwords, salt : Nat, doc : Documents]
Ops == [step : {"write", "replace", "rename"}, key : Keys, doc : Documents, undo : Documents]
Vaults == [pass : Passwords, doc : Documents]

\* Nil is none of the things it stands for the absence of.
ASSUME VaultAssumption ==
  /\ Platforms \subseteq BOOLEAN
  /\ MaxSalts \in Nat
  /\ Unmentioned \notin Value
  /\ Nil \notin SecretValues \cup Keys \cup Files \cup Ops \cup Vaults

Encrypted(k, d) == [pass |-> k.pass, salt |-> k.salt, doc |-> d]
Key(f) == [pass |-> f.pass, salt |-> f.salt]

VaultInit ==
  /\ windows \in Platforms
  /\ file = Nil /\ key = Nil /\ doc = Empty
  /\ op = Nil /\ salts = 0 /\ result = "none"

Free == op = Nil   \* nobody holds the mutex
-----------------------------------------------------------------------------
(* Calls that write nothing.                                               *)

\* MUTANT of Load: the document in memory is kept.
LoadKeyOnly(f) == key' = Key(f) /\ UNCHANGED doc

Load(f) == key' = Key(f) /\ doc' = f.doc

\* unlock: open the file, or prepare a key for one that does not exist yet.
UnlockVault(p) ==
  /\ Free
  /\ IF file # Nil
     THEN /\ IF file.pass = p THEN Load(file) /\ result' = "ok"
                              ELSE result' = "error" /\ UNCHANGED <<key, doc>>
          /\ UNCHANGED salts
     ELSE /\ salts < MaxSalts
          /\ salts' = salts + 1
          /\ key' = [pass |-> p, salt |-> salts']
          /\ doc' = Empty
          /\ result' = "ok"
  /\ UNCHANGED <<file, windows, op>>

\* reset: the password is checked against the file, which is then removed.
ResetFile(p) ==
  /\ Free
  /\ \/ /\ file # Nil => file.pass = p
        /\ file' = Nil /\ key' = Nil /\ doc' = Empty
        /\ result' = "ok"
     \/ /\ file # Nil   \* wrong password, or the file cannot be removed
        /\ result' = "error"
        /\ UNCHANGED <<file, key, doc>>
  /\ UNCHANGED <<windows, op, salts>>

\* remove_server while there is no file: only the memory changes.
Forget(s) ==
  /\ Free /\ file = Nil
  /\ doc' = [doc EXCEPT ![s] = Empty[s]]
  /\ result' = "ok"
  /\ UNCHANGED <<file, key, windows, op, salts>>

\* update_server, remove_server and change_master_password turned down.
Refuse ==
  /\ Free
  /\ result' = "error"
  /\ UNCHANGED <<file, key, doc, windows, op, salts>>
-----------------------------------------------------------------------------
(* Calls that write: the document changes in memory, persist_document      *)
(* encrypts it, atomic_write takes three steps.                            *)

SecretDrafts == [Slots -> Value \cup {Unmentioned}]

\* What is left out of a draft is kept, or cleared for a new server.
Apply(old, isNew, draft) ==
  [slot \in Slots |->
     IF draft[slot] # Unmentioned THEN draft[slot] ELSE IF isNew THEN Nil ELSE old[slot]]

Write(k, new, undo) == op' = [step |-> "write", key |-> k, doc |-> new, undo |-> undo]

\* update_server and, with every slot cleared, remove_server.
Update(s, isNew, draft) ==
  /\ Free /\ key # Nil
  /\ doc' = [doc EXCEPT ![s] = Apply(doc[s], isNew, draft)]
  /\ Write(key, doc', doc)
  /\ UNCHANGED <<file, key, windows, salts, result>>

Remove(s) ==
  /\ Free /\ key # Nil /\ file # Nil
  /\ doc' = [doc EXCEPT ![s] = Empty[s]]
  /\ Write(key, doc', doc)
  /\ UNCHANGED <<file, key, windows, salts, result>>

\* change_master_password: what the file holds, under a new key; the state
\* in memory follows only when the file is written.
Change(current, new) ==
  /\ Free /\ file # Nil /\ file.pass = current
  /\ salts < MaxSalts
  /\ salts' = salts + 1
  /\ Write([pass |-> new, salt |-> salts'], file.doc, doc)
  /\ UNCHANGED <<file, key, doc, windows, result>>

\* The temporary file is created, written and synced.
WriteTemporary ==
  /\ op # Nil /\ op.step = "write"
  /\ op' = [op EXCEPT !.step = IF windows /\ file # Nil THEN "replace" ELSE "rename"]
  /\ UNCHANGED <<file, key, doc, windows, salts, result>>

\* On Windows the old file is removed first.
RemoveOld ==
  /\ op # Nil /\ op.step = "replace"
  /\ file' = Nil
  /\ op' = [op EXCEPT !.step = "rename"]
  /\ UNCHANGED <<key, doc, windows, salts, result>>

\* The temporary file becomes the vault, and the call returns Ok.
Rename ==
  /\ op # Nil /\ op.step = "rename"
  /\ file' = Encrypted(op.key, op.doc)
  /\ key' = op.key /\ doc' = op.doc
  /\ op' = Nil /\ result' = "ok"
  /\ UNCHANGED <<windows, salts>>

\* MUTANT of Undo: the document in memory is not put back.
UndoNothing == UNCHANGED doc

Undo == doc' = op.undo

\* Any of the steps fails: the temporary file is removed, the memory undone.
\* An old file that RemoveOld has removed does not come back.
WriteFails ==
  /\ op # Nil
  /\ Undo
  /\ op' = Nil /\ result' = "error"
  /\ UNCHANGED <<file, key, windows, salts>>

\* The program is killed and started again: a locked vault.
VaultCrash ==
  /\ key' = Nil /\ doc' = Empty
  /\ op' = Nil /\ result' = "none"
  /\ UNCHANGED <<file, windows, salts>>
-----------------------------------------------------------------------------
VaultNext ==
  \/ \E p \in Passwords : UnlockVault(p) \/ ResetFile(p)
  \/ \E p, q \in Passwords : Change(p, q)
  \/ \E s \in Owners : Forget(s) \/ Remove(s)
  \/ \E s \in Owners, isNew \in BOOLEAN, draft \in SecretDrafts : Update(s, isNew, draft)
  \/ Refuse
  \/ WriteTemporary \/ RemoveOld \/ Rename \/ WriteFails
  \/ VaultCrash

VaultSpec == VaultInit /\ [][VaultNext]_vaultVars
-----------------------------------------------------------------------------
VaultTypeOK ==
  /\ windows \in Platforms
  /\ file \in Files \cup {Nil}
  /\ key \in Keys \cup {Nil}
  /\ doc \in Documents
  /\ op \in Ops \cup {Nil}
  /\ salts \in 0 .. MaxSalts
  /\ result \in {"none", "ok", "error"}

(***************************************************************************)
(* Whenever the mutex is free, an unlocked vault holds exactly what the    *)
(* file holds, under the key the file was written with: no failed write    *)
(* and no change of the master password leaves the two apart, so that the  *)
(* next write cannot lose or bring back a secret.  (On Windows a write     *)
(* that fails after the old file is gone leaves the memory alone.)         *)
(***************************************************************************)
MemoryMatchesFile ==
  Free /\ key # Nil => IF file = Nil THEN windows \/ doc = Empty ELSE file = Encrypted(key, doc)

(***************************************************************************)
(* The file goes from one complete vault to the next, whatever fails and   *)
(* whenever the program is killed: DurableVault.                           *)
(***************************************************************************)
Held(f) == [pass |-> f.pass, doc |-> f.doc]
Durable ==
  INSTANCE DurableVault WITH
    Servers <- Owners,
    NoVault <- Nil,
    stored <- IF file = Nil THEN Nil ELSE Held(file),
    pending <- IF op = Nil THEN Nil ELSE [pass |-> op.key.pass, doc |-> op.doc],
    fragile <- windows
ImplementsDurable == Durable!Spec

(***************************************************************************)
(* Vault writes are atomic (docs/REVIEW.md): a write under way or broken   *)
(* off never leaves the disk without a vault.                              *)
(***************************************************************************)
WritesAreAtomic == [][op # Nil /\ file # Nil => file' # Nil]_vaultVars
=============================================================================
