----------------------------- MODULE DurableVault -----------------------------
(***************************************************************************)
(* What the credential vault promises of the disk.  The stored vault is    *)
(* replaced as a whole: a replacement is prepared, then committed or       *)
(* abandoned, and until it is committed the old vault stays.  A            *)
(* replacement keeps the password and the secrets of every server but one, *)
(* or keeps every secret and may change the password.  Apart from that     *)
(* only a reset, outside of a replacement, makes the vault disappear.  On  *)
(* a fragile platform the old vault may also vanish during a replacement.  *)
(***************************************************************************)
CONSTANTS Servers, NoVault

VARIABLES
  stored,   \* what the vault file holds, or NoVault
  pending,  \* the replacement being written, or NoVault
  fragile   \* whether a file cannot be renamed over another

Touches(s, old, new) == \A t \in Servers \ {s} : new[t] = old[t]

Init == stored = NoVault /\ pending = NoVault

\* From no vault anything may be created.
Replaces(old, new) ==
  \/ old = NoVault
  \/ new.pass = old.pass /\ \E s \in Servers : Touches(s, old.doc, new.doc)
  \/ new.doc = old.doc

Prepare ==
  /\ pending = NoVault /\ pending' # NoVault
  /\ Replaces(stored, pending')
  /\ UNCHANGED stored

Commit == pending # NoVault /\ stored' = pending /\ pending' = NoVault

Abandon == pending' = NoVault /\ UNCHANGED stored

Vanish == fragile /\ pending # NoVault /\ stored' = NoVault /\ UNCHANGED pending

Reset == pending = NoVault /\ stored' = NoVault /\ UNCHANGED pending

Next == Prepare \/ Commit \/ Abandon \/ Vanish \/ Reset

Spec == Init /\ [][Next /\ UNCHANGED fragile]_<<stored, pending, fragile>>
=============================================================================
