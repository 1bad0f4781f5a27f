-------------------------- MODULE OperationRegistry --------------------------
(***************************************************************************)
(* The cancellation registry of the backend: the global OPERATIONS map of  *)
(* ssh.rs.  An entry holds a shared flag (an Arc<AtomicBool>) and, when a  *)
(* cancel request arrived before the command it cancels, the instant at    *)
(* which that "pending" entry was made.  Every operator below is one call  *)
(* made under the map's mutex, so each is one atomic step of its caller.   *)
(***************************************************************************)
EXTENDS Naturals, FiniteSets

CONSTANTS Ops,         \* operation identifiers (one UUID per invocation)
          MaxPending   \* MAX_PENDING_CANCELLATIONS

ASSUME RegistryAssumption ==
  /\ IsFiniteSet(Ops)
  /\ MaxPending \in Nat \ {0}

VARIABLES
  registry,   \* OPERATIONS: Ops -> entry or Absent
  raised,     \* the flags of each identifier set to true; none is ever lowered
  flags,      \* how many flags (Arcs) were allocated for each identifier
  clock       \* how many pending entries were made: their creation order

registryVars == <<registry, raised, flags, clock>>

Absent == [flag |-> 0, since |-> 0]
Entries == [flag : Nat, since : Nat]

Present(o) == registry[o] # Absent

\* pending_since is Some: a cancel request that no command has claimed.
IsPending(e) == e # Absent /\ e.since > 0
Pending(r) == {o \in Ops : IsPending(r[o])}

RegistryInit ==
  /\ registry = [o \in Ops |-> Absent]
  /\ raised = [o \in Ops |-> {}]
  /\ flags = [o \in Ops |-> 0]
  /\ clock = 0

(***************************************************************************)
(* prune_pending_cancellations.  Instants only matter through the age of   *)
(* an entry: those made up to some moment (cut) have outlived the TTL, and *)
(* of the rest only the MaxPending youngest are kept.                      *)
(***************************************************************************)
Expired(r, cut) == {o \in Pending(r) : r[o].since <= cut}
Drop(r, S) == [o \in Ops |-> IF o \in S THEN Absent ELSE r[o]]
Surplus(r) ==
  {o \in Pending(r) :
     Cardinality({p \in Pending(r) : r[p].since > r[o].since}) >= MaxPending}
Prune(r, cut) ==
  LET fresh == Drop(r, Expired(r, cut)) IN Drop(fresh, Surplus(fresh))

\* MUTANT of CancelInto: the second prune, after the insertion, is left out.
CancelIntoNoPrune(o, cut) ==
  LET before == Prune(registry, cut)
  IN  IF before[o] = Absent
      THEN [before EXCEPT ![o] = [flag |-> flags[o] + 1, since |-> clock + 1]]
      ELSE before

(***************************************************************************)
(* The map after cancel_operation(o): prune, find or insert, prune again.  *)
(***************************************************************************)
CancelInto(o, cut) ==
  LET before == Prune(registry, cut)
      marked == IF before[o] = Absent
                THEN [before EXCEPT ![o] = [flag  |-> flags[o] + 1,
                                            since |-> clock + 1]]
                ELSE before
  IN  Prune(marked, cut)

(***************************************************************************)
(* cancel_operation: the flag of the entry found or inserted is raised.    *)
(* A fresh flag and instant are allocated only for an inserted entry.      *)
(***************************************************************************)
CancelOperation(o) ==
  \E cut \in 0 .. clock :
    LET found == Prune(registry, cut)[o]
        isNew == found = Absent
    IN  /\ registry' = CancelInto(o, cut)
        /\ raised' = [raised EXCEPT
              ![o] = @ \cup {IF isNew THEN flags[o] + 1 ELSE found.flag}]
        /\ flags' = [flags EXCEPT ![o] = IF isNew THEN @ + 1 ELSE @]
        /\ clock' = IF isNew THEN clock + 1 ELSE clock

\* MUTANT of BeginOperation: a new flag replaces the one a cancel left.
BeginOperationAfresh(o) ==
  /\ registry' = [registry EXCEPT ![o] = [flag |-> flags[o] + 1, since |-> 0]]
  /\ flags' = [flags EXCEPT ![o] = @ + 1]
  /\ UNCHANGED <<raised, clock>>

(***************************************************************************)
(* begin_operation: reuse the entry a cancel request left (it is no longer *)
(* pending) or insert one; either way the caller shares its flag.          *)
(***************************************************************************)
BeginOperation(o) ==
  /\ registry' = [registry EXCEPT
       ![o] = [flag |-> IF Present(o) THEN @.flag ELSE flags[o] + 1,
               since |-> 0]]
  /\ flags' = [flags EXCEPT ![o] = IF Present(o) THEN @ ELSE @ + 1]
  /\ UNCHANGED <<raised, clock>>

\* MUTANT of FinishOperation: a cancelled command leaves its entry behind.
FinishOperationKept(o, held) ==
  /\ registry' = IF registry[o].flag = held /\ held \notin raised[o]
                 THEN [registry EXCEPT ![o] = Absent]
                 ELSE registry
  /\ UNCHANGED <<raised, flags, clock>>

\* finish_operation: remove the entry only if it still holds this flag.
FinishOperation(o, held) ==
  /\ registry' = IF Present(o) /\ registry[o].flag = held
                 THEN [registry EXCEPT ![o] = Absent]
                 ELSE registry
  /\ UNCHANGED <<raised, flags, clock>>

\* ensure_not_cancelled, for the command o that holds a flag.
NotCancelled(o, held) == held \notin raised[o]

RegistryTypeOK ==
  /\ registry \in [Ops -> Entries]
  /\ raised \in [Ops -> SUBSET Nat]
  /\ flags \in [Ops -> Nat]
  /\ clock \in Nat
=============================================================================
