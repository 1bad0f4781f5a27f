------------------------ MODULE CommandClient_proofs ------------------------
(***************************************************************************)
(* Proofs about the labelled-command path, for any number of operations,   *)
(* threads and pending cancellations.                                      *)
(***************************************************************************)
EXTENDS CommandClient, FiniteSetTheorems, WellFoundedInduction, TLAPS

-----------------------------------------------------------------------------
(* The registry's operators.                                               *)

\* Pruning keeps the map well formed, removes pending entries only and
\* changes none (ssh.rs, prune_pending_cancellations).
LEMMA PruneDropsOnlyPending ==
  ASSUME NEW r \in [Ops -> Entries], NEW cut \in Nat
  PROVE  /\ Prune(r, cut) \in [Ops -> Entries]
         /\ \A o \in Ops : \/ Prune(r, cut)[o] = r[o]
                           \/ IsPending(r[o]) /\ Prune(r, cut)[o] = Absent
<1> DEFINE fresh == Drop(r, Expired(r, cut))
<1>1. Absent \in Entries
  BY DEF Absent, Entries
<1>2. /\ fresh \in [Ops -> Entries]
      /\ \A o \in Ops : fresh[o] = r[o] \/ (IsPending(r[o]) /\ fresh[o] = Absent)
  BY <1>1 DEF Drop, Expired, Pending
<1>3. \A o \in Surplus(fresh) : o \in Ops /\ IsPending(fresh[o])
  BY DEF Surplus, Pending
<1>4. ~IsPending(Absent)
  BY DEF IsPending
<1> HIDE DEF fresh
<1>5. /\ Drop(fresh, Surplus(fresh)) \in [Ops -> Entries]
      /\ \A o \in Ops : \/ Drop(fresh, Surplus(fresh))[o] = r[o]
                        \/ /\ IsPending(r[o])
                           /\ Drop(fresh, Surplus(fresh))[o] = Absent
  BY <1>1, <1>2, <1>3, <1>4 DEF Drop
<1>6. QED
  BY <1>5 DEF Prune, fresh

\* A pending entry that is younger than the cut and than every other one
\* survives pruning: the request being registered is never the one evicted.
LEMMA PruneKeepsYoungest ==
  ASSUME NEW r \in [Ops -> Entries], NEW cut \in Nat, NEW o \in Ops,
         IsPending(r[o]), r[o].since > cut,
         \A p \in Ops : r[p].since <= r[o].since
  PROVE  Prune(r, cut)[o] = r[o]
<1> DEFINE fresh == Drop(r, Expired(r, cut))
<1>1. fresh[o] = r[o]
  BY DEF Drop, Expired, Pending, Entries
<1>2. \A p \in Ops : fresh[p].since <= r[o].since
  BY DEF Drop, Absent, Entries
<1> HIDE DEF fresh
<1>3. {p \in Pending(fresh) : fresh[p].since > fresh[o].since} = {}
  <2> SUFFICES ASSUME NEW p \in Ops, fresh[p].since > fresh[o].since
               PROVE  FALSE
    BY DEF Pending
  <2>1. fresh[p].since \in Nat
    BY DEF fresh, Drop, Absent, Entries
  <2>2. QED
    BY <1>1, <1>2, <2>1 DEF Entries
<1>4. o \notin Surplus(fresh)
  BY <1>3, FS_EmptySet, RegistryAssumption DEF Surplus
<1>5. QED
  BY <1>1, <1>4 DEF Prune, fresh, Drop

\* One of several entries with different instants is older than the others.
LEMMA Oldest ==
  ASSUME NEW S, S # {}, NEW age \in [S -> Nat],
         \A o, p \in S : age[o] = age[p] => o = p
  PROVE  \E o \in S : \A p \in S \ {o} : age[p] > age[o]
<1> DEFINE T == {age[o] : o \in S}
<1>1. T \subseteq Nat /\ T # {}
  OBVIOUS
<1>2. PICK n \in T : \A m \in T : <<m, n>> \notin OpToRel(<, Nat)
  <2> HIDE DEF T
  <2> QED
    BY <1>1, NatLessThanWellFounded, WFMin
<1>3. \A m \in T : ~(m < n)
  BY <1>1, <1>2 DEF OpToRel
<1>4. PICK o \in S : n = age[o]
  OBVIOUS
<1>5. ASSUME NEW p \in S \ {o} PROVE age[p] > age[o]
  <2>1. age[p] \in T /\ age[p] # age[o] /\ age[p] \in Nat /\ age[o] \in Nat
    BY <1>4, <1>5
  <2>2. QED
    BY <1>3, <1>4, <2>1
<1>6. QED
  BY <1>5

\* Pending entries are made at different instants.
InstantsDiffer(r) ==
  \A o, p \in Pending(r) : r[o].since = r[p].since => o = p

\* Of entries made at different instants, pruning leaves at most MaxPending
\* pending ones: the oldest it leaves has fewer than MaxPending younger ones.
LEMMA PruneBounds ==
  ASSUME NEW r \in [Ops -> Entries], NEW cut \in Nat, InstantsDiffer(r)
  PROVE  /\ InstantsDiffer(Prune(r, cut))
         /\ Cardinality(Pending(Prune(r, cut))) <= MaxPending
<1> DEFINE fresh == Drop(r, Expired(r, cut))
           left  == Drop(fresh, Surplus(fresh))
<1>1. /\ Absent \in Entries /\ ~IsPending(Absent)
      /\ \A e \in Entries : e.since \in Nat
  BY DEF Absent, Entries, IsPending
<1>2. /\ fresh \in [Ops -> Entries]
      /\ \A o \in Pending(fresh) : o \in Pending(r) /\ fresh[o] = r[o]
  BY <1>1 DEF Drop, Expired, Pending
<1> HIDE DEF fresh
<1>3. \A o \in Pending(left) :
        o \in Pending(fresh) \ Surplus(fresh) /\ left[o] = fresh[o]
  BY <1>1 DEF Drop, Pending
<1>4. left = Prune(r, cut)
  BY DEF Prune, fresh
<1> HIDE DEF left
<1>5. InstantsDiffer(left)
  BY <1>2, <1>3 DEF InstantsDiffer
<1>6. Cardinality(Pending(left)) <= MaxPending
  <2>1. CASE Pending(left) = {}
    BY <2>1, FS_EmptySet, RegistryAssumption
  <2>2. CASE Pending(left) # {}
    <3> DEFINE S == Pending(left)
               age == [o \in S |-> left[o].since]
    <3>1. age \in [S -> Nat]
      BY <1>1, <1>2, <1>3 DEF Pending
    <3>2. \A o, p \in S : age[o] = age[p] => o = p
      BY <1>5 DEF InstantsDiffer
    <3>3. PICK o \in S : \A p \in S \ {o} : age[p] > age[o]
      <4> HIDE DEF age, S
      <4> QED
        BY <2>2, <3>1, <3>2, Oldest DEF S
    <3> DEFINE younger == {p \in Pending(fresh) : fresh[p].since > fresh[o].since}
    <3>4. S \ {o} \subseteq younger
      BY <1>3, <3>3
    <3>5. IsFiniteSet(younger) /\ IsFiniteSet(S)
      <4>1. younger \subseteq Ops /\ S \subseteq Ops
        BY DEF Pending
      <4>2. QED
        BY <4>1, FS_Subset, RegistryAssumption
    <3>6. ~(Cardinality(younger) >= MaxPending)
      BY <1>3, <3>3 DEF Surplus
    <3>7. /\ Cardinality(S \ {o}) <= Cardinality(younger)
          /\ Cardinality(S \ {o}) = Cardinality(S) - 1
          /\ Cardinality(younger) \in Nat /\ Cardinality(S) \in Nat
      <4> HIDE DEF younger, S
      <4> QED
        BY <3>3, <3>4, <3>5, FS_Subset, FS_RemoveElement, FS_CardinalityType
    <3>8. QED
      BY <3>6, <3>7, RegistryAssumption
  <2>3. QED
    BY <2>1, <2>2
<1>7. QED
  BY <1>4, <1>5, <1>6
-----------------------------------------------------------------------------
(* The inductive invariant.                                                *)

\* Entries are numbered by flags already allocated and clocked in the past,
\* and only allocated flags are raised, so a new flag is always clear.
FlagsAllocated ==
  \A o \in Ops :
    /\ Present(o) => registry[o].flag \in 1 .. flags[o]
    /\ registry[o].since <= clock
    /\ \A f \in raised[o] : f <= flags[o]

\* Before an operation is issued nothing is known of it; a reply exists only
\* once its command is past its last check.
QuietBeforeIssue ==
  \A o \in Ops :
    /\ o > issued => thread[o] = "none" /\ o \notin abandoned
    /\ thread[o] \in {"queued", "running"} \/ o > issued => reply[o] = {}

\* A cancel request is sent once, for an operation that has lost the slot.
CancelsOnce ==
  /\ cancels \subseteq abandoned
  /\ delivered \subseteq abandoned
  /\ cancels \cap delivered = {}
  /\ active \notin abandoned
  /\ active # None => active = issued

\* A pending entry is the raised mark of a request that was processed.
PendingIsRaised ==
  \A o \in Ops :
    /\ IsPending(registry[o]) => o \in delivered /\ registry[o].flag \in raised[o]
    /\ raised[o] # {} => o \in abandoned

\* Every processed request still reaches the command it was meant for.
RequestKept ==
  \A o \in delivered \ forgotten :
    /\ thread[o] = "queued" => Present(o) /\ registry[o].flag \in raised[o]
    /\ thread[o] = "running" => held[o] \in raised[o]

IInv ==
  /\ TypeOK
  /\ RegistryMatchesThreads
  /\ FlagsAllocated
  /\ QuietBeforeIssue
  /\ CancelsOnce
  /\ PendingIsRaised
  /\ RequestKept
-----------------------------------------------------------------------------
(* The invariant holds initially and every action preserves it.            *)

LEMMA InitEstablishes == Init => IInv
<1> SUFFICES ASSUME Init PROVE IInv
  OBVIOUS
<1> USE ClientAssumption, RegistryAssumption DEF Init, RegistryInit
<1>1. TypeOK
  BY DEF TypeOK, RegistryTypeOK, Entries, Absent, CallStates, ThreadStates
<1>2. RegistryMatchesThreads
  BY DEF RegistryMatchesThreads, Present, IsPending, Running
<1>3. FlagsAllocated
  BY DEF FlagsAllocated, Present, Absent
<1>4. QuietBeforeIssue /\ CancelsOnce /\ RequestKept
  BY DEF QuietBeforeIssue, CancelsOnce, RequestKept
<1>5. PendingIsRaised
  BY DEF PendingIsRaised, IsPending
<1>6. QED
  BY <1>1, <1>2, <1>3, <1>4, <1>5 DEF IInv

\* Starting a call touches only the new operation and the one that held the
\* slot; the registry is left alone.
LEMMA StartCallPreserves ==
  ASSUME IInv, NEW o \in Ops, NEW retries \in SUBSET Prompts,
         StartCall(o, retries), call' \in [Ops -> CallStates],
         UNCHANGED <<registryVars, held, reply, history>>
  PROVE  IInv'
<1> USE ClientAssumption DEF IInv, StartCall, CancelCurrent, Fresh, registryVars, history
<1>1. TypeOK'
  <2>1. RegistryTypeOK'
    BY DEF TypeOK, RegistryTypeOK
  <2>2. /\ abandoned' \subseteq Ops
        /\ cancels' \subseteq Ops
    BY DEF TypeOK
  <2>3. /\ active' \in Ops \cup {None}
        /\ mayRetry' \in [Ops -> SUBSET Prompts]
        /\ issued' \in 0 .. MaxCalls
        /\ thread' \in [Ops -> ThreadStates]
    BY DEF TypeOK, ThreadStates
  <2>4. QED
    BY <2>1, <2>2, <2>3 DEF TypeOK
<1>2. RegistryMatchesThreads'
  BY DEF RegistryMatchesThreads, QuietBeforeIssue, Running, Present, IsPending,
         TypeOK
<1>3. FlagsAllocated'
  BY DEF FlagsAllocated, Present
<1>4. QuietBeforeIssue'
  BY DEF QuietBeforeIssue, CancelsOnce, TypeOK
<1>5. CancelsOnce'
  <2>1. o \notin abandoned /\ o # active /\ o # None
    BY DEF QuietBeforeIssue, CancelsOnce, TypeOK
  <2>2. CASE active = None
    BY <2>1, <2>2 DEF CancelsOnce
  <2>3. CASE active # None
    BY <2>1, <2>3 DEF CancelsOnce
  <2>4. QED
    BY <2>2, <2>3
<1>6. PendingIsRaised' /\ RequestKept'
  <2>1. PendingIsRaised'
    BY DEF PendingIsRaised, IsPending
  <2>2. o \notin delivered
    BY DEF CancelsOnce, QuietBeforeIssue, TypeOK
  <2>3. RequestKept'
    BY <2>2 DEF RequestKept, Present, TypeOK, CancelsOnce
  <2>4. QED
    BY <2>1, <2>3
<1>7. QED
  BY <1>1, <1>2, <1>3, <1>4, <1>5, <1>6

\* The actions of the webview that start no call.
LEMMA WebviewPreserves ==
  ASSUME IInv, NEW o \in Ops,
         UserCancel \/ ReceiveReply(o) \/ Dismiss(o)
  PROVE  IInv'
<1> USE ClientAssumption DEF IInv
<1>1. CASE UserCancel
  <2> USE <1>1 DEF UserCancel, CancelCurrent, registryVars, backend, history
  <2>1. TypeOK'
    BY DEF TypeOK, RegistryTypeOK
  <2>2. RegistryMatchesThreads' /\ FlagsAllocated'
    BY DEF RegistryMatchesThreads, FlagsAllocated, Running, Present, IsPending
  <2>3. QuietBeforeIssue'
    BY DEF QuietBeforeIssue, CancelsOnce, TypeOK
  <2>4. CancelsOnce'
    <3>1. active \notin delivered /\ None \notin abandoned'
      BY DEF CancelsOnce, TypeOK
    <3>2. QED
      BY <3>1 DEF CancelsOnce
  <2>5. PendingIsRaised' /\ RequestKept'
    BY DEF PendingIsRaised, RequestKept, Present, IsPending
  <2>6. QED
    BY <2>1, <2>2, <2>3, <2>4, <2>5
<1>2. CASE ReceiveReply(o)
  <2> USE <1>2 DEF ReceiveReply, registryVars, backend, history
  <2>1. PICK outcome \in reply[o] : Resume(o, outcome)
    OBVIOUS
  <2>2. /\ call' \in [Ops -> CallStates]
        /\ active' \in {active, None}
    BY <2>1 DEF Resume, Settle, TypeOK, CallStates
  <2>3. TypeOK'
    BY <2>2 DEF TypeOK, RegistryTypeOK
  <2>4. RegistryMatchesThreads' /\ FlagsAllocated'
    BY DEF RegistryMatchesThreads, FlagsAllocated, Running, Present, IsPending
  <2>5. QuietBeforeIssue'
    BY <2>2 DEF QuietBeforeIssue, TypeOK
  <2>6. CancelsOnce'
    BY <2>2 DEF CancelsOnce, TypeOK
  <2>7. PendingIsRaised' /\ RequestKept'
    BY DEF PendingIsRaised, RequestKept, Present, IsPending
  <2>8. QED
    BY <2>3, <2>4, <2>5, <2>6, <2>7
<1>3. CASE Dismiss(o)
  <2> USE <1>3 DEF Dismiss, registryVars, backend, history
  <2>1. TypeOK'
    BY DEF TypeOK, RegistryTypeOK, CallStates
  <2>2. RegistryMatchesThreads' /\ FlagsAllocated'
    BY DEF RegistryMatchesThreads, FlagsAllocated, Running, Present, IsPending
  <2>3. QuietBeforeIssue' /\ CancelsOnce'
    BY DEF QuietBeforeIssue, CancelsOnce
  <2>4. PendingIsRaised' /\ RequestKept'
    BY DEF PendingIsRaised, RequestKept, Present, IsPending
  <2>5. QED
    BY <2>1, <2>2, <2>3, <2>4
<1>4. QED
  BY <1>1, <1>2, <1>3
\* cancel_operation: pruning takes away pending entries only, and the entry
\* of the cancelled operation is there afterwards with its flag raised.
LEMMA HandleCancelPreserves ==
  ASSUME IInv, NEW o \in Ops, HandleCancel(o)
  PROVE  IInv'
<1> USE DEF IInv
<1>1. PICK cut \in 0 .. clock :
        LET found == Prune(registry, cut)[o]
            isNew == found = Absent
        IN  /\ registry' = CancelInto(o, cut)
            /\ raised' = [raised EXCEPT
                  ![o] = @ \cup {IF isNew THEN flags[o] + 1 ELSE found.flag}]
            /\ flags' = [flags EXCEPT ![o] = IF isNew THEN @ + 1 ELSE @]
            /\ clock' = IF isNew THEN clock + 1 ELSE clock
  BY DEF HandleCancel, CancelOperation
<1> DEFINE before == Prune(registry, cut)
           isNew  == before[o] = Absent
           entry  == [flag |-> flags[o] + 1, since |-> clock + 1]
           marked == IF isNew THEN [before EXCEPT ![o] = entry] ELSE before
<1>2. /\ cut \in Nat
      /\ registry \in [Ops -> Entries]
      /\ clock \in Nat /\ flags \in [Ops -> Nat]
      /\ raised \in [Ops -> SUBSET Nat]
  BY DEF TypeOK, RegistryTypeOK
<1>3. /\ before \in [Ops -> Entries]
      /\ \A p \in Ops : \/ before[p] = registry[p]
                        \/ IsPending(registry[p]) /\ before[p] = Absent
  BY <1>2, PruneDropsOnlyPending
<1>4. ~IsPending(registry[o])
  BY DEF HandleCancel, CancelsOnce, PendingIsRaised
<1>5. before[o] = registry[o]
  BY <1>3, <1>4
<1>6. isNew => entry \in Entries /\ IsPending(entry) /\ entry # Absent
  BY <1>2 DEF Entries, IsPending, Absent
<1>7. marked \in [Ops -> Entries]
  BY <1>3, <1>6
<1>8. /\ registry' \in [Ops -> Entries]
      /\ \A p \in Ops : \/ registry'[p] = marked[p]
                        \/ IsPending(marked[p]) /\ registry'[p] = Absent
  <2>1. registry' = Prune(marked, cut)
    BY <1>1 DEF CancelInto
  <2> HIDE DEF marked
  <2>2. QED
    BY <1>2, <1>7, <2>1, PruneDropsOnlyPending
<1>9. registry'[o] = IF isNew THEN entry ELSE registry[o]
  <2>1. CASE isNew
    <3>1. \A p \in Ops : before[p].since <= clock
      BY <1>2, <1>3 DEF FlagsAllocated, Absent, Entries
    <3>2. marked[o] = entry /\ \A p \in Ops : marked[p].since <= clock + 1
      BY <1>2, <1>3, <2>1, <3>1 DEF Entries
    <3>3. Prune(marked, cut)[o] = marked[o]
      <4>1. /\ IsPending(marked[o])
            /\ marked[o].since > cut
            /\ \A p \in Ops : marked[p].since <= marked[o].since
        BY <1>2, <1>6, <2>1, <3>2
      <4> HIDE DEF marked
      <4>2. QED
        BY <1>2, <1>7, <4>1, PruneKeepsYoungest
    <3>4. QED
      BY <1>1, <2>1, <3>2, <3>3 DEF CancelInto
  <2>2. CASE ~isNew
    BY <1>4, <1>5, <1>8, <2>2
  <2>3. QED
    BY <2>1, <2>2
<1>10. \A p \in Ops \ {o} :
         \/ registry'[p] = registry[p]
         \/ IsPending(registry[p]) /\ registry'[p] = Absent
  BY <1>3, <1>8
<1>11. /\ raised' = [raised EXCEPT ![o] = @ \cup
                       {IF isNew THEN flags[o] + 1 ELSE registry[o].flag}]
       /\ flags' = [flags EXCEPT ![o] = IF isNew THEN @ + 1 ELSE @]
       /\ clock' = IF isNew THEN clock + 1 ELSE clock
  BY <1>1, <1>5
<1>12. isNew <=> registry[o] = Absent
  BY <1>5
<1>13. ~IsPending(Absent)
  BY DEF IsPending
<1> HIDE DEF before, isNew, marked
<1>14. TypeOK'
  <2>1. raised' \in [Ops -> SUBSET Nat] /\ flags' \in [Ops -> Nat] /\ clock' \in Nat
    BY <1>2, <1>11 DEF Entries
  <2>2. QED
    BY <1>8, <2>1 DEF HandleCancel, TypeOK, RegistryTypeOK, frontend, backend
<1>15. RegistryMatchesThreads'
  BY <1>4, <1>6, <1>9, <1>10, <1>12, <1>13
     DEF HandleCancel, RegistryMatchesThreads, Running, Present, backend, frontend
<1>16. FlagsAllocated'
  <2>1. ASSUME NEW p \in Ops, p # o
        PROVE  /\ Present(p)' => registry'[p].flag \in 1 .. flags'[p]
               /\ registry'[p].since <= clock'
               /\ \A f \in raised'[p] : f <= flags'[p]
    BY <1>2, <1>10, <1>11, <2>1 DEF FlagsAllocated, Present, Absent, Entries
  <2>2. /\ Present(o)' => registry'[o].flag \in 1 .. flags'[o]
        /\ registry'[o].since <= clock'
    BY <1>2, <1>9, <1>11, <1>12 DEF FlagsAllocated, Present, Entries
  <2>3. \A f \in raised'[o] : f <= flags'[o]
    BY <1>2, <1>11, <1>12 DEF FlagsAllocated, Present, Entries
  <2>4. QED
    BY <2>1, <2>2, <2>3 DEF FlagsAllocated
<1>17. QuietBeforeIssue' /\ CancelsOnce'
  BY DEF HandleCancel, QuietBeforeIssue, CancelsOnce, frontend, backend
<1>18. PendingIsRaised'
  <2>1. o \in abandoned
    BY DEF HandleCancel, CancelsOnce
  <2>2. ASSUME NEW p \in Ops, p # o
        PROVE  /\ IsPending(registry[p])' =>
                    p \in delivered' /\ registry'[p].flag \in raised'[p]
               /\ raised'[p] # {} => p \in abandoned'
    BY <1>2, <1>10, <1>11, <1>13, <2>2
       DEF PendingIsRaised, HandleCancel, IsPending, frontend
  <2>3. /\ IsPending(registry[o])' =>
             o \in delivered' /\ registry'[o].flag \in raised'[o]
        /\ raised'[o] # {} => o \in abandoned'
    BY <1>2, <1>9, <1>11, <2>1 DEF HandleCancel, frontend
  <2>4. QED
    BY <2>2, <2>3 DEF PendingIsRaised
<1>19. RequestKept'
  <2>1. ASSUME NEW p \in delivered' \ forgotten', p # o
        PROVE  /\ thread'[p] = "queued" => Present(p)' /\ registry'[p].flag \in raised'[p]
               /\ thread'[p] = "running" => held'[p] \in raised'[p]
    <3>1. p \in delivered \ forgotten /\ p \in Ops
      BY <2>1 DEF HandleCancel, TypeOK
    <3>2. registry'[p] = registry[p]
      BY <1>10, <2>1, <3>1 DEF HandleCancel
    <3>3. raised'[p] = raised[p]
      BY <1>2, <1>11, <2>1, <3>1
    <3>4. QED
      BY <3>1, <3>2, <3>3 DEF RequestKept, HandleCancel, Present, backend
  <2>2. /\ Present(o)' /\ registry'[o].flag \in raised'[o]
        /\ thread'[o] = "running" => held'[o] \in raised'[o]
    <3>1. Present(o)' /\ registry'[o].flag \in raised'[o]
      BY <1>2, <1>6, <1>9, <1>11, <1>12 DEF Present
    <3>2. thread[o] = "running" => registry[o] # Absent /\ registry[o].flag = held[o]
      BY DEF RegistryMatchesThreads, Running, Present
    <3>3. QED
      BY <1>9, <1>12, <3>1, <3>2 DEF HandleCancel, backend
  <2>3. QED
    BY <2>1, <2>2 DEF RequestKept
<1>20. QED
  BY <1>14, <1>15, <1>16, <1>17, <1>18, <1>19
\* begin_operation: an entry left by a cancel request is taken over with its
\* raised flag, a new one starts with a flag nobody raised.
LEMMA BeginCommandPreserves ==
  ASSUME IInv, NEW o \in Ops, BeginCommand(o)
  PROVE  IInv'
<1> USE DEF IInv, BeginCommand, BeginOperation, frontend, history
<1>1. /\ registry \in [Ops -> Entries] /\ flags \in [Ops -> Nat]
      /\ held \in [Ops -> Nat] /\ thread \in [Ops -> ThreadStates]
  BY DEF TypeOK, RegistryTypeOK
<1>2. registry'[o] = [flag |-> IF Present(o) THEN registry[o].flag
                                             ELSE flags[o] + 1, since |-> 0]
  BY <1>1
<1>3. /\ registry'[o].flag \in 1 .. flags'[o] /\ registry'[o].since = 0
      /\ registry'[o] \in Entries
      /\ \A p \in Ops \ {o} : registry'[p] = registry[p]
  BY <1>1, <1>2 DEF FlagsAllocated, Entries
<1>4. /\ held'[o] = registry'[o].flag /\ thread'[o] = "running"
      /\ thread[o] = "queued"
      /\ \A p \in Ops \ {o} : held'[p] = held[p] /\ thread'[p] = thread[p]
  BY <1>1
<1>5. registry'[o] # Absent /\ ~IsPending(registry'[o])
  BY <1>1, <1>3 DEF IsPending, Absent
<1>6. TypeOK'
  <2>1. registry' \in [Ops -> Entries] /\ flags' \in [Ops -> Nat]
    BY <1>1, <1>3
  <2>2. held' \in [Ops -> Nat] /\ thread' \in [Ops -> ThreadStates]
    BY <1>1, <1>3, <1>4 DEF ThreadStates, Entries
  <2>3. QED
    BY <2>1, <2>2 DEF TypeOK, RegistryTypeOK
<1>7. RegistryMatchesThreads'
  <2>1. ASSUME NEW p \in Ops, p # o
        PROVE  /\ (Present(p)' /\ ~IsPending(registry'[p])) <=> p \in Running'
               /\ p \in Running' => registry'[p].flag = held'[p]
    BY <1>3, <1>4, <2>1 DEF RegistryMatchesThreads, Present, Running
  <2>2. o \in Running' /\ Present(o)'
    BY <1>4, <1>5 DEF Running, Present
  <2>3. QED
    BY <1>4, <1>5, <2>1, <2>2 DEF RegistryMatchesThreads
<1>8. FlagsAllocated'
  BY <1>1, <1>3 DEF FlagsAllocated, Present, TypeOK, RegistryTypeOK
<1>9. QuietBeforeIssue' /\ CancelsOnce'
  BY <1>4 DEF QuietBeforeIssue, CancelsOnce
<1>10. PendingIsRaised'
  BY <1>3, <1>5 DEF PendingIsRaised, IsPending
<1>11. RequestKept'
  <2>1. ASSUME NEW p \in delivered \ forgotten, p # o
        PROVE  /\ thread'[p] = "queued" => Present(p)' /\ registry'[p].flag \in raised[p]
               /\ thread'[p] = "running" => held'[p] \in raised[p]
    BY <1>3, <1>4, <2>1 DEF RequestKept, Present, TypeOK
  <2>2. o \in delivered \ forgotten => held'[o] \in raised[o]
    BY <1>2, <1>4 DEF RequestKept
  <2>3. QED
    BY <1>4, <2>1, <2>2 DEF RequestKept
<1>12. QED
  BY <1>6, <1>7, <1>8, <1>9, <1>10, <1>11

\* The body of a command, and a command that is rejected before it begins,
\* change no registry entry.
LEMMA RunCommandPreserves ==
  ASSUME IInv, NEW o \in Ops, RunCommand(o) \/ RejectCommand(o)
  PROVE  IInv'
<1> USE DEF IInv, RunCommand, RejectCommand, registryVars, frontend, history
<1>1. /\ thread \in [Ops -> ThreadStates] /\ reply \in [Ops -> SUBSET Outcomes]
  BY DEF TypeOK
<1>2. TypeOK'
  BY <1>1 DEF TypeOK, RegistryTypeOK, ThreadStates, Outcome, Outcomes, Failures
<1>3. RegistryMatchesThreads'
  BY <1>1 DEF RegistryMatchesThreads, Running, Present, IsPending
<1>4. FlagsAllocated' /\ CancelsOnce' /\ PendingIsRaised'
  BY DEF FlagsAllocated, CancelsOnce, PendingIsRaised, Present, IsPending
<1>5. QuietBeforeIssue'
  BY <1>1 DEF QuietBeforeIssue
<1>6. RequestKept'
  BY <1>1 DEF RequestKept, Present, TypeOK
<1>7. QED
  BY <1>2, <1>3, <1>4, <1>5, <1>6

\* finish_operation removes the entry, because it still holds this flag.
LEMMA EndCommandPreserves ==
  ASSUME IInv, NEW o \in Ops, EndCommand(o)
  PROVE  IInv'
<1> USE DEF IInv, EndCommand, FinishOperation, frontend, history
<1>1. /\ registry \in [Ops -> Entries] /\ thread \in [Ops -> ThreadStates]
  BY DEF TypeOK, RegistryTypeOK
<1>2. o \in Running
  BY DEF Running
<1>3. /\ registry' = [registry EXCEPT ![o] = Absent]
      /\ thread' = [thread EXCEPT ![o] = "none"]
  BY <1>2 DEF RegistryMatchesThreads
<1>4. Absent \in Entries /\ ~IsPending(Absent) /\ Absent.since = 0
  BY DEF Absent, Entries, IsPending
<1>5. TypeOK'
  BY <1>1, <1>3, <1>4 DEF TypeOK, RegistryTypeOK, ThreadStates
<1>6. RegistryMatchesThreads'
  BY <1>1, <1>3, <1>4 DEF RegistryMatchesThreads, Running, Present
<1>7. FlagsAllocated'
  BY <1>1, <1>3, <1>4 DEF FlagsAllocated, Present, TypeOK, RegistryTypeOK
<1>8. QuietBeforeIssue' /\ CancelsOnce'
  BY <1>1, <1>3 DEF QuietBeforeIssue, CancelsOnce
<1>9. PendingIsRaised'
  BY <1>1, <1>3, <1>4 DEF PendingIsRaised
<1>10. RequestKept'
  BY <1>1, <1>3 DEF RequestKept, Present, TypeOK
<1>11. QED
  BY <1>5, <1>6, <1>7, <1>8, <1>9, <1>10

LEMMA StepPreserves == IInv /\ [Next]_vars => IInv'
<1> SUFFICES ASSUME IInv, [Next]_vars PROVE IInv'
  OBVIOUS
<1>1. ASSUME NEW o \in Ops, Invoke(o) PROVE IInv'
  BY <1>1, StartCallPreserves DEF Invoke, IInv, TypeOK, CallStates
<1>2. ASSUME NEW o \in Ops, NEW n \in Ops, Retry(o, n) PROVE IInv'
  BY <1>2, StartCallPreserves DEF Retry, IInv, TypeOK, CallStates
<1>3. ASSUME NEW o \in Ops, ReceiveReply(o) \/ Dismiss(o) PROVE IInv'
  BY <1>3, WebviewPreserves
<1>4. CASE UserCancel
  <2>1. active \in Ops
    BY <1>4 DEF UserCancel, IInv, TypeOK
  <2>2. QED
    BY <1>4, <2>1, WebviewPreserves
<1>5. ASSUME NEW o \in Ops, HandleCancel(o) PROVE IInv'
  BY <1>5, HandleCancelPreserves
<1>6. ASSUME NEW o \in Ops, BeginCommand(o) PROVE IInv'
  BY <1>6, BeginCommandPreserves
<1>7. ASSUME NEW o \in Ops, RunCommand(o) \/ RejectCommand(o) PROVE IInv'
  BY <1>7, RunCommandPreserves
<1>8. ASSUME NEW o \in Ops, EndCommand(o) PROVE IInv'
  BY <1>8, EndCommandPreserves
<1>9. CASE UNCHANGED vars
  BY <1>9 DEF vars, registryVars, frontend, backend, history, IInv, TypeOK,
     RegistryTypeOK, RegistryMatchesThreads, FlagsAllocated, QuietBeforeIssue,
     CancelsOnce, PendingIsRaised, RequestKept, Present, IsPending, Running
<1>10. QED
  BY <1>1, <1>2, <1>3, <1>4, <1>5, <1>6, <1>7, <1>8, <1>9 DEF Next
-----------------------------------------------------------------------------
(* The theorems.                                                           *)

\* Every reachable state satisfies the inductive invariant.
THEOREM InvariantHolds == Spec => []IInv
<1>1. QED
  BY InitEstablishes, StepPreserves, PTL DEF Spec

\* Type correctness of the registry, the client and the command threads.
THEOREM TypeCorrect == Spec => []TypeOK
<1>1. IInv => TypeOK
  BY DEF IInv
<1>2. QED
  BY <1>1, InvariantHolds, PTL

\* No registry entry is leaked, stolen or orphaned (begin_operation,
\* finish_operation and the pruning of cancel_operation).
THEOREM RegistryIsExact == Spec => []RegistryMatchesThreads
<1>1. IInv => RegistryMatchesThreads
  BY DEF IInv
<1>2. QED
  BY <1>1, InvariantHolds, PTL

\* A processed, unforgotten cancel request is seen by its command, started
\* before or after it; no other command is cancelled.
THEOREM CancelIsNotLost == Spec => []CancelReachesCommand
<1>1. IInv => CancelReachesCommand
  BY DEF IInv, CancelReachesCommand, RequestKept, PendingIsRaised, TypeOK
<1>2. QED
  BY <1>1, InvariantHolds, PTL

\* A command never reports success after its cancel request was processed.
THEOREM CancelledNeverSucceeds == Spec => NoSuccessAfterCancel
<1> DEFINE Kept == \A o \in Ops :
       o \in delivered \ forgotten /\ thread[o] = "running"
         => "ok" \notin reply'[o]
<1>1. IInv /\ [Next]_vars => [Kept]_vars
  <2> SUFFICES ASSUME IInv, Next, NEW o \in Ops,
                      o \in delivered \ forgotten, thread[o] = "running"
               PROVE  "ok" \notin reply'[o]
    OBVIOUS
  <2>1. reply[o] = {} /\ held[o] \in raised[o]
    BY DEF IInv, QuietBeforeIssue, RequestKept
  <2>2. reply \in [Ops -> SUBSET Outcomes]
    BY DEF IInv, TypeOK
  <2>3. ASSUME NEW p \in Ops, RunCommand(p) PROVE "ok" \notin reply'[o]
    BY <2>1, <2>2, <2>3, ClientAssumption
       DEF RunCommand, Outcome, NotCancelled, Failures
  <2>4. ASSUME NEW p \in Ops, ReceiveReply(p) PROVE "ok" \notin reply'[o]
    BY <2>1, <2>2, <2>4 DEF ReceiveReply
  <2>5. ASSUME NEW p \in Ops, RejectCommand(p) PROVE "ok" \notin reply'[o]
    BY <2>1, <2>2, <2>5 DEF RejectCommand
  <2>6. CASE reply' = reply
    BY <2>1, <2>6
  <2>7. QED
    BY <2>3, <2>4, <2>5, <2>6 DEF Next, UserCancel, Invoke, Dismiss, HandleCancel,
       BeginCommand, EndCommand, Retry
<1>2. QED
  BY <1>1, InvariantHolds, PTL DEF Spec, NoSuccessAfterCancel

\* A result is applied only while no later command was started.
THEOREM LatestApplies == Spec => OnlyLatestApplies
<1> DEFINE Latest == \A o \in Ops :
       call[o] # "applied" /\ call'[o] = "applied" => issued = o
<1>1. IInv /\ [Next]_vars => [Latest]_vars
  <2> SUFFICES ASSUME IInv, Next, NEW o \in Ops,
                      call[o] # "applied", call'[o] = "applied"
               PROVE  issued = o
    OBVIOUS
  <2>1. call \in [Ops -> CallStates] /\ \A x \in Prompts : x # "applied"
    BY ClientAssumption DEF IInv, TypeOK
  <2>2. ASSUME NEW p \in Ops, ReceiveReply(p) PROVE issued = o
    <3>1. PICK outcome \in reply[p] : Resume(p, outcome)
      BY <2>2 DEF ReceiveReply
    <3>2. p = o
      BY <2>1, <3>1 DEF Resume, Settle
    <3>3. ~Superseded(o)
      BY <2>1, <3>1, <3>2 DEF Resume, Settle
    <3>4. QED
      BY <3>3, ClientAssumption DEF Superseded, IInv, CancelsOnce
  <2>3. ASSUME NEW p \in Ops, NEW n \in Ops, Retry(p, n) PROVE FALSE
    BY <2>1, <2>3 DEF Retry
  <2>4. ASSUME NEW p \in Ops, Invoke(p) \/ Dismiss(p) PROVE FALSE
    BY <2>1, <2>4 DEF Invoke, Dismiss
  <2>5. QED
    BY <2>2, <2>3, <2>4 DEF Next, UserCancel, HandleCancel, BeginCommand,
       RejectCommand, RunCommand, EndCommand, frontend
<1>2. QED
  BY <1>1, InvariantHolds, PTL DEF Spec, OnlyLatestApplies

-----------------------------------------------------------------------------
(* The bound on pending requests.  It rests on IInv: a request never finds *)
(* its own operation pending, and no entry is made in the future.          *)

PendingInv == InstantsDiffer(registry) /\ PendingBounded

\* cancel_operation inserts an entry younger than all others, then prunes.
LEMMA CancelBoundsPending ==
  ASSUME IInv, PendingInv, NEW o \in Ops, HandleCancel(o)
  PROVE  PendingInv'
<1> USE DEF IInv
<1>1. PICK cut \in 0 .. clock : registry' = CancelInto(o, cut)
  BY DEF HandleCancel, CancelOperation
<1> DEFINE before == Prune(registry, cut)
           entry  == [flag |-> flags[o] + 1, since |-> clock + 1]
           marked == IF before[o] = Absent THEN [before EXCEPT ![o] = entry] ELSE before
<1>2. cut \in Nat /\ registry \in [Ops -> Entries] /\ clock \in Nat /\ flags \in [Ops -> Nat]
  BY DEF TypeOK, RegistryTypeOK
<1>3. /\ before \in [Ops -> Entries]
      /\ \A p \in Ops : before[p] = registry[p] \/ before[p] = Absent
  BY <1>2, PruneDropsOnlyPending
<1>4. InstantsDiffer(before)
  BY <1>2, PruneBounds DEF PendingInv
<1>5. \A p \in Ops : before[p].since \in Nat /\ before[p].since <= clock
  BY <1>2, <1>3 DEF FlagsAllocated, Absent, Entries
<1>6. entry \in Entries /\ entry.since = clock + 1
  BY <1>2 DEF Entries
<1> HIDE DEF before, entry
<1>7. marked \in [Ops -> Entries] /\ InstantsDiffer(marked)
  <2>1. CASE before[o] = Absent
    <3>1. /\ marked \in [Ops -> Entries] /\ marked[o] = entry
          /\ \A p \in Ops \ {o} : marked[p] = before[p]
      BY <1>3, <1>6, <2>1
    <3>2. \A p \in Ops \ {o} : marked[p].since # marked[o].since
      BY <1>2, <1>5, <1>6, <3>1
    <3>3. QED
      BY <1>4, <3>1, <3>2 DEF InstantsDiffer, Pending
  <2>2. CASE before[o] # Absent
    BY <1>3, <1>4, <2>2
  <2>3. QED
    BY <2>1, <2>2
<1>8. registry' = Prune(marked, cut)
  BY <1>1 DEF CancelInto, before, entry
<1> HIDE DEF marked
<1>9. QED
  BY <1>2, <1>7, <1>8, PruneBounds DEF PendingInv, PendingBounded

\* Nothing else makes a pending entry.
LEMMA OthersBoundPending ==
  ASSUME IInv, PendingInv,
         \A o \in Pending(registry') : o \in Pending(registry) /\ registry'[o] = registry[o]
  PROVE  PendingInv'
<1>1. Pending(registry') \subseteq Pending(registry) /\ IsFiniteSet(Pending(registry))
  BY FS_Subset, RegistryAssumption DEF Pending
<1>2. /\ Cardinality(Pending(registry')) <= Cardinality(Pending(registry))
      /\ Cardinality(Pending(registry')) \in Nat /\ Cardinality(Pending(registry)) \in Nat
  BY <1>1, FS_Subset, FS_CardinalityType
<1>3. Cardinality(Pending(registry')) <= MaxPending
  BY <1>2, RegistryAssumption DEF PendingInv, PendingBounded
<1>4. InstantsDiffer(registry')
  BY DEF PendingInv, InstantsDiffer
<1>5. QED
  BY <1>3, <1>4 DEF PendingInv, PendingBounded

LEMMA StepBoundsPending == IInv /\ PendingInv /\ [Next]_vars => PendingInv'
<1> SUFFICES ASSUME IInv, PendingInv, [Next]_vars PROVE PendingInv'
  OBVIOUS
<1>1. registry \in [Ops -> Entries] /\ ~IsPending(Absent)
  BY DEF IInv, TypeOK, RegistryTypeOK, IsPending
<1>2. ASSUME NEW o \in Ops, HandleCancel(o) PROVE PendingInv'
  BY <1>2, CancelBoundsPending
<1>3. ASSUME NEW o \in Ops, BeginCommand(o) PROVE PendingInv'
  <2>1. registry'[o].since = 0 /\ \A p \in Ops \ {o} : registry'[p] = registry[p]
    BY <1>1, <1>3 DEF BeginCommand, BeginOperation
  <2>2. QED
    BY <2>1, OthersBoundPending DEF Pending, IsPending
<1>4. ASSUME NEW o \in Ops, EndCommand(o) PROVE PendingInv'
  <2>1. \A p \in Ops : registry'[p] = registry[p] \/ registry'[p] = Absent
    BY <1>1, <1>4 DEF EndCommand, FinishOperation
  <2>2. QED
    BY <1>1, <2>1, OthersBoundPending DEF Pending
<1>5. CASE UNCHANGED registry
  BY <1>5, OthersBoundPending
<1>6. QED
  BY <1>2, <1>3, <1>4, <1>5
     DEF Next, vars, registryVars, UserCancel, Invoke, ReceiveReply, Dismiss, RejectCommand,
         RunCommand, Retry

\* However many requests are made for commands that never start, the registry
\* keeps at most MaxPending of them (prune_pending_cancellations).
THEOREM PendingIsBounded == Spec => []PendingBounded
<1>1. Init => PendingInv
  <2>1. ASSUME Init PROVE Pending(registry) = {}
    BY <2>1 DEF Init, RegistryInit, Pending, IsPending
  <2>2. QED
    BY <2>1, FS_EmptySet, RegistryAssumption DEF PendingInv, PendingBounded, InstantsDiffer
<1>2. PendingInv => PendingBounded
  BY DEF PendingInv
<1>3. QED
  BY <1>1, <1>2, InvariantHolds, StepBoundsPending, PTL DEF Spec
=============================================================================
