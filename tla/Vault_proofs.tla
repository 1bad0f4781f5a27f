---------------------------- MODULE Vault_proofs ----------------------------
(***************************************************************************)
(* Proofs about CredentialVault: type correctness, the agreement of memory *)
(* and file, and that the vault implements DurableVault, for all servers,  *)
(* slots, secrets, passwords and builds.                                   *)
(***************************************************************************)
EXTENDS CredentialVault, TLAPS

\* What a document in memory has to be for the file, if the vault is unlocked.
Agrees(d) ==
  key # Nil => IF file = Nil THEN windows \/ d = Empty ELSE file = Encrypted(key, d)

\* A failing write can go back to a document that agrees with the file; the
\* old file is only removed on Windows.
UndoAgrees == op # Nil => Agrees(op.undo) /\ (op.step = "replace" => windows)

IInv == VaultTypeOK /\ MemoryMatchesFile /\ UndoAgrees
-----------------------------------------------------------------------------
(* What records, documents and their absence are.                          *)

LEMMA EmptyIsADocument == Empty \in Documents
BY DEF Empty, Documents, Value

LEMMA FileIsEncrypted ==
  ASSUME NEW f \in Files PROVE f = Encrypted(Key(f), f.doc) /\ Key(f) \in Keys
BY DEF Files, Keys, Encrypted, Key

LEMMA EncryptedIsAFile ==
  ASSUME NEW k \in Keys, NEW d \in Documents
  PROVE  Encrypted(k, d) \in Files /\ Encrypted(k, d) # Nil
BY VaultAssumption DEF Files, Keys, Encrypted

\* The document after an update is a document, and differs from the one
\* before in one server.
LEMMA UpdatedDocument ==
  ASSUME NEW d \in Documents, NEW s \in Owners, NEW e \in [Slots -> Value]
  PROVE  [d EXCEPT ![s] = e] \in Documents
BY DEF Documents

LEMMA AppliedDraft ==
  ASSUME NEW old \in [Slots -> Value], NEW isNew \in BOOLEAN, NEW draft \in SecretDrafts
  PROVE  Apply(old, isNew, draft) \in [Slots -> Value]
BY DEF Apply, SecretDrafts, Value

LEMMA BeganWrite ==
  ASSUME NEW k \in Keys, NEW new \in Documents, NEW undo \in Documents,
         Write(k, new, undo)
  PROVE  /\ op' \in Ops /\ op' # Nil
         /\ op'.undo = undo /\ op'.key = k /\ op'.doc = new /\ op'.step = "write"
BY VaultAssumption DEF Write, Ops
-----------------------------------------------------------------------------
(* The invariant.                                                          *)

LEMMA InitEstablishes == VaultInit => IInv
BY EmptyIsADocument, VaultAssumption
   DEF VaultInit, IInv, VaultTypeOK, MemoryMatchesFile, UndoAgrees, Agrees, Free

LEMMA UnlockPreserves == ASSUME IInv, NEW p \in Passwords, UnlockVault(p) PROVE IInv'
<1> USE DEF IInv, VaultTypeOK, UnlockVault, Free
<1>1. CASE file # Nil /\ file.pass = p
  BY <1>1, FileIsEncrypted
     DEF Load, MemoryMatchesFile, UndoAgrees, Agrees, Files
<1>2. CASE file # Nil /\ file.pass # p
  BY <1>2 DEF MemoryMatchesFile, UndoAgrees, Agrees
<1>3. CASE file = Nil
  BY <1>3, EmptyIsADocument, VaultAssumption
     DEF MemoryMatchesFile, UndoAgrees, Agrees, Keys
<1>4. QED
  BY <1>1, <1>2, <1>3

LEMMA ResetPreserves == ASSUME IInv, NEW p \in Passwords, ResetFile(p) PROVE IInv'
BY EmptyIsADocument
   DEF IInv, VaultTypeOK, ResetFile, Free, MemoryMatchesFile, UndoAgrees, Agrees

LEMMA ForgetPreserves == ASSUME IInv, NEW s \in Owners, Forget(s) PROVE IInv'
<1> USE DEF IInv, VaultTypeOK, Forget, Free
<1>1. Empty[s] \in [Slots -> Value]
  BY DEF Empty, Value
<1>2. doc' \in Documents
  BY <1>1, UpdatedDocument
<1>3. doc = Empty => doc' = Empty
  BY DEF Empty
<1>4. QED
  BY <1>2, <1>3 DEF MemoryMatchesFile, UndoAgrees, Agrees

\* Update and Remove: a new document in memory and a write of it.
LEMMA ChangeOfServerPreserves ==
  ASSUME IInv, Free, key # Nil, NEW s \in Owners, NEW e \in [Slots -> Value],
         doc' = [doc EXCEPT ![s] = e], Write(key, doc', doc),
         UNCHANGED <<file, key, windows, salts, result>>
  PROVE  IInv'
<1> USE DEF IInv, VaultTypeOK, Free
<1>1. doc \in Documents /\ doc' \in Documents /\ key \in Keys
  BY UpdatedDocument
<1>2. op' \in Ops /\ op' # Nil /\ op'.undo = doc /\ op'.step = "write"
  BY <1>1, BeganWrite
<1>3. UndoAgrees'
  BY <1>2 DEF MemoryMatchesFile, UndoAgrees, Agrees
<1>4. QED
  BY <1>1, <1>2, <1>3 DEF MemoryMatchesFile

LEMMA UpdatePreserves ==
  ASSUME IInv, NEW s \in Owners, NEW isNew \in BOOLEAN, NEW draft \in SecretDrafts,
         Update(s, isNew, draft)
  PROVE  IInv'
<1>1. doc[s] \in [Slots -> Value]
  BY DEF IInv, VaultTypeOK, Documents
<1>2. Apply(doc[s], isNew, draft) \in [Slots -> Value]
  BY <1>1, AppliedDraft
<1>3. QED
  BY <1>2, ChangeOfServerPreserves DEF Update

LEMMA RemovePreserves == ASSUME IInv, NEW s \in Owners, Remove(s) PROVE IInv'
<1>1. Empty[s] \in [Slots -> Value]
  BY DEF Empty, Value
<1>2. QED
  BY <1>1, ChangeOfServerPreserves DEF Remove

LEMMA ChangePreserves ==
  ASSUME IInv, NEW p \in Passwords, NEW q \in Passwords, Change(p, q) PROVE IInv'
<1> USE DEF IInv, VaultTypeOK, Change, Free
<1>1. [pass |-> q, salt |-> salts'] \in Keys /\ salts' \in 0 .. MaxSalts
  BY VaultAssumption DEF Keys
<1>2. file.doc \in Documents /\ doc \in Documents
  BY DEF Files
<1>3. op' \in Ops /\ op' # Nil /\ op'.undo = doc /\ op'.step = "write"
  BY <1>1, <1>2, BeganWrite
<1>4. UndoAgrees'
  BY <1>3 DEF MemoryMatchesFile, UndoAgrees, Agrees
<1>5. QED
  BY <1>1, <1>2, <1>3, <1>4 DEF MemoryMatchesFile

LEMMA WriteTemporaryPreserves == ASSUME IInv, WriteTemporary PROVE IInv'
<1> USE DEF IInv, VaultTypeOK, WriteTemporary, Free
<1>1. op \in Ops
  OBVIOUS
<1>2. op' \in Ops /\ op'.undo = op.undo /\ (op'.step = "replace" => windows)
  BY <1>1 DEF Ops
<1>3. op' # Nil
  BY <1>2, VaultAssumption
<1>4. UndoAgrees'
  BY <1>2 DEF UndoAgrees, Agrees
<1>5. QED
  BY <1>2, <1>3, <1>4 DEF MemoryMatchesFile

LEMMA RemoveOldPreserves == ASSUME IInv, RemoveOld PROVE IInv'
<1> USE DEF IInv, VaultTypeOK, RemoveOld, Free
<1>1. op \in Ops
  OBVIOUS
<1>2. op' \in Ops /\ op'.undo = op.undo /\ op'.step = "rename"
  BY <1>1 DEF Ops
<1>3. op' # Nil
  BY <1>2, VaultAssumption
<1>4. UndoAgrees'
  BY <1>2 DEF UndoAgrees, Agrees
<1>5. QED
  BY <1>2, <1>3, <1>4 DEF MemoryMatchesFile

LEMMA RenamePreserves == ASSUME IInv, Rename PROVE IInv'
<1> USE DEF IInv, VaultTypeOK, Rename, Free
<1>1. op.key \in Keys /\ op.doc \in Documents
  BY DEF Ops
<1>2. file' \in Files /\ file' # Nil
  BY <1>1, EncryptedIsAFile
<1>3. QED
  BY <1>1, <1>2 DEF MemoryMatchesFile, UndoAgrees

LEMMA WriteFailsPreserves == ASSUME IInv, WriteFails PROVE IInv'
<1> USE DEF IInv, VaultTypeOK, WriteFails, Undo, Free
<1>1. op.undo \in Documents
  BY DEF Ops
<1>2. QED
  BY <1>1 DEF MemoryMatchesFile, UndoAgrees, Agrees

LEMMA CrashPreserves == ASSUME IInv, VaultCrash PROVE IInv'
BY EmptyIsADocument DEF IInv, VaultTypeOK, VaultCrash, Free, MemoryMatchesFile, UndoAgrees

LEMMA NextPreserves == IInv /\ [VaultNext]_vaultVars => IInv'
<1> SUFFICES ASSUME IInv, [VaultNext]_vaultVars PROVE IInv'
  OBVIOUS
<1>1. ASSUME NEW p \in Passwords, UnlockVault(p) \/ ResetFile(p) PROVE IInv'
  BY <1>1, UnlockPreserves, ResetPreserves
<1>2. ASSUME NEW p \in Passwords, NEW q \in Passwords, Change(p, q) PROVE IInv'
  BY <1>2, ChangePreserves
<1>3. ASSUME NEW s \in Owners, Forget(s) \/ Remove(s) PROVE IInv'
  BY <1>3, ForgetPreserves, RemovePreserves
<1>4. ASSUME NEW s \in Owners, NEW isNew \in BOOLEAN, NEW draft \in SecretDrafts,
             Update(s, isNew, draft)
      PROVE  IInv'
  BY <1>4, UpdatePreserves
<1>5. CASE Refuse
  BY <1>5 DEF Refuse, IInv, VaultTypeOK, MemoryMatchesFile, UndoAgrees, Agrees, Free
<1>6. CASE WriteTemporary \/ RemoveOld \/ Rename \/ WriteFails \/ VaultCrash
  BY <1>6, WriteTemporaryPreserves, RemoveOldPreserves, RenamePreserves,
     WriteFailsPreserves, CrashPreserves
<1>7. CASE UNCHANGED vaultVars
  BY <1>7 DEF vaultVars, IInv, VaultTypeOK, MemoryMatchesFile, UndoAgrees, Agrees, Free
<1>8. QED
  BY <1>1, <1>2, <1>3, <1>4, <1>5, <1>6, <1>7 DEF VaultNext

(***************************************************************************)
(* The invariant holds in every reachable state of the vault.              *)
(***************************************************************************)
THEOREM InvariantHolds == VaultSpec => []IInv
BY InitEstablishes, NextPreserves, PTL DEF VaultSpec

(***************************************************************************)
(* Type correctness of the vault, its file and the write in progress.      *)
(***************************************************************************)
THEOREM TypeCorrect == VaultSpec => []VaultTypeOK
<1>1. IInv => VaultTypeOK
  BY DEF IInv
<1>2. QED
  BY <1>1, InvariantHolds, PTL

(***************************************************************************)
(* Whenever the store's mutex is free, an unlocked vault and its file      *)
(* agree, after every failure, crash and change of the master password.    *)
(***************************************************************************)
THEOREM MemoryIsTheFile == VaultSpec => []MemoryMatchesFile
<1>1. IInv => MemoryMatchesFile
  BY DEF IInv
<1>2. QED
  BY <1>1, InvariantHolds, PTL
-----------------------------------------------------------------------------
(* Refinement: what a step does to the abstract vault.                     *)

Stored == IF file = Nil THEN Nil ELSE Held(file)
Pending == IF op = Nil THEN Nil ELSE [pass |-> op.key.pass, doc |-> op.doc]

\* The replacement in progress is a vault.
LEMMA PendingIsAVault == ASSUME VaultTypeOK, op # Nil PROVE Pending \in Vaults /\ Pending # Nil
BY VaultAssumption DEF VaultTypeOK, Ops, Keys, Vaults, Pending

\* Update and Remove prepare a replacement that differs in one server.
LEMMA ChangeOfServerPrepares ==
  ASSUME IInv, IInv', Free, key # Nil, NEW s \in Owners, NEW e,
         doc' = [doc EXCEPT ![s] = e], Write(key, doc', doc),
         UNCHANGED <<file, windows>>
  PROVE  Durable!Prepare
<1>1. op' # Nil /\ op'.key = key /\ op'.doc = doc'
  <2>1. op' = [step |-> "write", key |-> key, doc |-> doc', undo |-> doc]
    BY DEF Write
  <2>2. key \in Keys /\ doc \in Documents /\ doc' \in Documents
    BY DEF IInv, VaultTypeOK
  <2>3. QED
    BY <2>1, <2>2, BeganWrite
<1>2. Pending' = [pass |-> key.pass, doc |-> doc'] /\ Pending' # Nil
  <2>1. Pending' = [pass |-> key.pass, doc |-> doc']
    BY <1>1 DEF Pending
  <2>2. key.pass \in Passwords /\ doc' \in Documents
    BY DEF IInv, VaultTypeOK, Keys
  <2>3. Pending' \in Vaults
    BY <2>1, <2>2 DEF Vaults
  <2>4. QED
    BY <2>1, <2>3, VaultAssumption
<1>3. ASSUME file # Nil
      PROVE  Stored.pass = key.pass /\ Stored.doc = doc
  BY <1>3 DEF IInv, MemoryMatchesFile, Free, Stored, Held, Encrypted
<1>4. \A t \in Owners \ {s} : doc'[t] = doc[t]
  BY DEF IInv, VaultTypeOK, Documents
<1>5. Durable!Replaces(Stored, Pending')
  <2>1. CASE file = Nil
    BY <2>1 DEF Durable!Replaces, Stored
  <2>2. CASE file # Nil
    <3>1. Durable!Touches(s, Stored.doc, Pending'.doc)
      BY <1>2, <1>3, <1>4, <2>2 DEF Durable!Touches
    <3>2. Pending'.pass = Stored.pass
      BY <1>2, <1>3, <2>2
    <3>3. QED
      BY <3>1, <3>2 DEF Durable!Replaces
  <2>3. QED
    BY <2>1, <2>2
<1>6. QED
  BY <1>2, <1>5 DEF Durable!Prepare, Stored, Pending, Free

LEMMA ChangePrepares ==
  ASSUME IInv, IInv', NEW p \in Passwords, NEW q \in Passwords, Change(p, q)
  PROVE  Durable!Prepare
<1>1. op' = [step |-> "write", key |-> [pass |-> q, salt |-> salts'],
             doc |-> file.doc, undo |-> doc]
  BY DEF Change, Write
<1>2. op' # Nil
  <2>1. [pass |-> q, salt |-> salts'] \in Keys /\ file.doc \in Documents /\ doc \in Documents
    BY VaultAssumption DEF Change, IInv, VaultTypeOK, Files, Keys
  <2>2. QED
    BY <1>1, <2>1, VaultAssumption DEF Ops
<1>3. Pending' = [pass |-> q, doc |-> file.doc] /\ Pending' # Nil
  <2>1. Pending' = [pass |-> q, doc |-> file.doc]
    BY <1>1, <1>2 DEF Pending
  <2>2. file.doc \in Documents
    BY DEF Change, IInv, VaultTypeOK, Files
  <2>3. Pending' \in Vaults
    BY <2>1, <2>2 DEF Vaults
  <2>4. QED
    BY <2>1, <2>3, VaultAssumption
<1>4. Stored.doc = file.doc
  BY DEF Stored, Held, Change
<1>5. Durable!Replaces(Stored, Pending')
  BY <1>3, <1>4 DEF Durable!Replaces
<1>6. QED
  BY <1>3, <1>5 DEF Durable!Prepare, Stored, Pending, Change, Free

LEMMA RenameCommits == ASSUME IInv, Rename PROVE Durable!Commit
<1>1. op \in Ops
  BY DEF IInv, VaultTypeOK, Rename
<1>2. op.key \in Keys /\ op.doc \in Documents
  BY <1>1 DEF Ops
<1>3. file' # Nil /\ Held(file') = [pass |-> op.key.pass, doc |-> op.doc]
  BY <1>2, EncryptedIsAFile DEF Rename, Held, Encrypted
<1>4. Pending # Nil
  BY PendingIsAVault DEF IInv, Rename
<1>5. QED
  BY <1>3, <1>4 DEF Durable!Commit, Pending, Rename

LEMMA StepRefines ==
  ASSUME IInv, [VaultNext]_vaultVars
  PROVE  [Durable!Next /\ UNCHANGED windows]_<<Stored, Pending, windows>>
<1>1. IInv'
  BY NextPreserves
<1>2. ASSUME NEW p \in Passwords, UnlockVault(p) \/ ResetFile(p)
      PROVE  (Durable!Next /\ UNCHANGED windows) \/ UNCHANGED <<Stored, Pending, windows>>
  BY <1>2 DEF UnlockVault, ResetFile, Durable!Next, Durable!Reset, Stored, Pending, Free
<1>3. ASSUME NEW p \in Passwords, NEW q \in Passwords, Change(p, q)
      PROVE  Durable!Next /\ UNCHANGED windows
  BY <1>1, <1>3, ChangePrepares DEF Durable!Next, Change
<1>4. ASSUME NEW s \in Owners, Forget(s)
      PROVE  UNCHANGED <<Stored, Pending, windows>>
  BY <1>4 DEF Forget, Stored, Pending
<1>5. ASSUME NEW s \in Owners, Remove(s)
      PROVE  Durable!Next /\ UNCHANGED windows
  BY <1>1, <1>5, ChangeOfServerPrepares DEF Durable!Next, Remove
<1>6. ASSUME NEW s \in Owners, NEW isNew \in BOOLEAN, NEW draft \in SecretDrafts,
             Update(s, isNew, draft)
      PROVE  Durable!Next /\ UNCHANGED windows
  BY <1>1, <1>6, ChangeOfServerPrepares DEF Durable!Next, Update
<1>7. CASE Refuse \/ UNCHANGED vaultVars
  BY <1>7 DEF Refuse, vaultVars, Stored, Pending
<1>8. CASE WriteTemporary
  <2>1. op \in Ops
    BY <1>8 DEF IInv, VaultTypeOK, WriteTemporary
  <2>2. op' \in Ops /\ op'.key = op.key /\ op'.doc = op.doc
    BY <1>8, <2>1 DEF WriteTemporary, Ops
  <2>3. QED
    BY <1>8, <2>2, VaultAssumption DEF WriteTemporary, Stored, Pending
<1>9. CASE RemoveOld
  <2>1. op \in Ops
    BY <1>9 DEF IInv, VaultTypeOK, RemoveOld
  <2>2. op' \in Ops /\ op'.key = op.key /\ op'.doc = op.doc
    BY <1>9, <2>1 DEF RemoveOld, Ops
  <2>3. Pending' = Pending /\ Stored' = Nil
    BY <1>9, <2>2, VaultAssumption DEF RemoveOld, Stored, Pending
  <2>4. windows /\ Pending # Nil
    BY <1>9, PendingIsAVault DEF IInv, UndoAgrees, RemoveOld
  <2>5. QED
    BY <1>9, <2>3, <2>4 DEF Durable!Next, Durable!Vanish, Stored, Pending, RemoveOld
<1>10. CASE Rename
  BY <1>10, RenameCommits DEF Durable!Next, Rename
<1>11. CASE WriteFails \/ VaultCrash
  BY <1>11 DEF WriteFails, VaultCrash, Durable!Next, Durable!Abandon, Stored, Pending
<1>12. QED
  BY <1>2, <1>3, <1>4, <1>5, <1>6, <1>7, <1>8, <1>9, <1>10, <1>11 DEF VaultNext

(***************************************************************************)
(* The vault implements DurableVault: whatever fails and whenever the      *)
(* program is killed, the file goes from one complete vault to the next,   *)
(* and only on Windows can it be missing in between.                       *)
(***************************************************************************)
THEOREM VaultIsDurable == VaultSpec => ImplementsDurable
<1>1. VaultInit => Durable!Init
  BY DEF VaultInit, Durable!Init
<1>2. IInv /\ [VaultNext]_vaultVars => [Durable!Next /\ UNCHANGED windows]_<<Stored, Pending, windows>>
  BY StepRefines
<1>3. QED
  BY <1>1, <1>2, InvariantHolds, PTL DEF VaultSpec, ImplementsDurable, Durable!Spec, Stored, Pending
=============================================================================
