-------------------------- MODULE Connections_proofs --------------------------
(***************************************************************************)
(* Proofs about the cache of connections, for any number of threads, any   *)
(* profile keys, and any number of calls and edits.                        *)
(***************************************************************************)
EXTENDS Connections, FiniteSetTheorems, TLAPS

-----------------------------------------------------------------------------
(* The inductive invariant.                                                *)

Dropping == {"dropProbed", "dropUsed"}
Holding == {"insert", "lockProbe", "probe", "lockUse", "use"} \cup Dropping

\* A thread in a call has read a profile.
KeyIsRead == \A t \in Threads : pc[t] # "idle" => key[t] \in Keys

\* A thread that has looked up or made a connection has it in hand, and it
\* was made for the profile the thread read.
HeldIsOwn ==
  \A t \in Threads : pc[t] \in Holding =>
    /\ using[t] \in Conn
    /\ conn[using[t]].key = key[t]

\* A connection that waits to be inserted is known to nobody else.
NewIsPrivate ==
  \A t \in Threads : pc[t] = "insert" =>
    /\ cache # using[t] /\ using[t] \notin spoilt
    /\ \A u \in Threads \ {t} : using[u] # using[t]

\* Only what was found unusable is dropped.
DropsSpoilt == \A t \in Threads : pc[t] \in Dropping => using[t] \in spoilt

\* Some thread has the cached connection in hand or none, so that not every
\* number is taken when a thread connects.
NumberLeft ==
  cache # 0 =>
    \E t \in Threads : pc[t] \notin {"connect", "insert"} /\ using[t] \in {0, cache}

IInv ==
  /\ TypeOK /\ KeyIsRead /\ HeldIsOwn /\ NewIsPrivate
  /\ DropsSpoilt /\ NumberLeft /\ SpoiltIsEvicted

-----------------------------------------------------------------------------
(* There is a number for a new connection.                                 *)

LEMMA Bounds == MaxCalls \in Nat /\ MaxSaves \in Nat
BY ConnectionsAssumption DEF ConnectionsAssumption

LEMMA ThreadsCounted == IsFiniteSet(Threads) /\ Cardinality(Threads) \in Nat
BY ConnectionsAssumption, FS_CardinalityType DEF ConnectionsAssumption

LEMMA ConnCounted ==
  /\ IsFiniteSet(Conn) /\ Cardinality(Conn) = Cardinality(Threads) + 1
  /\ Conn \subseteq Nat /\ 0 \notin Conn
BY ThreadsCounted, FS_Interval DEF Conn

\* Threads cannot name more connections than there are threads.
LEMMA NotAllNamed ==
  ASSUME NEW f \in [Threads -> Conn \cup {0}]
  PROVE  ~ (Conn \subseteq {f[t] : t \in Threads})
<1> DEFINE named == {f[t] : t \in Threads}
<1>1. IsFiniteSet(named) /\ Cardinality(named) <= Cardinality(Threads)
  <2>1. f \in Surjection(Threads, named)
    BY DEF Surjection
  <2>2. QED
    BY <2>1, ThreadsCounted, FS_Surjection
<1>2. Conn \subseteq named => Cardinality(Conn) <= Cardinality(named)
  BY <1>1, FS_Subset
<1>3. Cardinality(named) \in Nat
  BY <1>1, FS_CardinalityType
<1> HIDE DEF named
<1>4. QED
  BY <1>1, <1>2, <1>3, ThreadsCounted, ConnCounted DEF named

LEMMA UnusedIsNew ==
  ASSUME TypeOK, NumberLeft
  PROVE  Unused \in Conn /\ Unused \notin InHand
<1>1. PICK f \in [Threads -> Conn \cup {0}] : InHand \ {0} \subseteq {f[t] : t \in Threads}
  <2>1. CASE cache = 0
    BY <2>1 DEF InHand, TypeOK
  <2>2. CASE cache # 0
    <3>1. PICK t \in Threads : using[t] \in {0, cache}
      BY <2>2 DEF NumberLeft
    <3> DEFINE g == [u \in Threads |-> IF u = t THEN cache ELSE using[u]]
    <3>2. g \in [Threads -> Conn \cup {0}]
      BY DEF TypeOK
    <3>3. InHand \ {0} \subseteq {g[u] : u \in Threads}
      BY <3>1 DEF InHand
    <3>4. QED
      BY <3>2, <3>3
  <2>3. QED
    BY <2>1, <2>2
<1>2. \E c \in Conn : c \notin InHand
  BY <1>1, NotAllNamed, ConnCounted
<1>3. QED
  BY <1>2 DEF Unused

-----------------------------------------------------------------------------
LEMMA InitEstablishes == Init => IInv
<1> SUFFICES ASSUME Init PROVE IInv
  OBVIOUS
<1>1. profile \in [key : Keys, version : 0 .. MaxSaves] /\ 0 \in 0 .. MaxCalls
  BY ConnectionsAssumption DEF ConnectionsAssumption, Init
<1>2. 0 \in 0 .. profile.version /\ 0 \in 0 .. MaxSaves
  BY <1>1, ConnectionsAssumption DEF ConnectionsAssumption, Init
<1>3. TypeOK
  BY <1>1, <1>2 DEF Init, TypeOK, Steps
<1>4. QED
  BY <1>3 DEF Init, IInv, KeyIsRead, HeldIsOwn, NewIsPrivate, DropsSpoilt, NumberLeft,
              SpoiltIsEvicted, Holding, Dropping

-----------------------------------------------------------------------------
(* The steps.                                                              *)

\* A call that returns leaves its thread well typed and idle.
LEMMA ReturnTyped ==
  ASSUME TypeOK, NEW t \in Threads, Return(t)
  PROVE  /\ pc' \in [Threads -> Steps] /\ key' \in [Threads -> Keys \cup {None}]
         /\ attempt' \in [Threads -> {0, 1}] /\ using' \in [Threads -> Conn \cup {0}]
         /\ since' \in [Threads -> 0 .. MaxSaves] /\ cancelled' \subseteq Threads
         /\ pc'[t] = "idle" /\ using'[t] = 0
BY Bounds DEF TypeOK, Steps, Return, Goto

LEMMA StepTyped ==
  ASSUME TypeOK, NumberLeft, KeyIsRead, HeldIsOwn, [Next]_vars
  PROVE  TypeOK'
<1> USE DEF TypeOK, Steps, connections, threads, store
<1>0. CASE UNCHANGED vars
  BY <1>0 DEF vars
<1>1. ASSUME NEW t \in Threads, Call(t) PROVE TypeOK'
  BY <1>1, Bounds DEF Call, Goto
<1>2. ASSUME NEW t \in Threads, GiveUp(t) PROVE TypeOK'
  BY <1>2, Bounds DEF GiveUp, Return, Goto
<1>3. ASSUME NEW t \in Threads, LookUp(t) PROVE TypeOK'
  BY <1>3 DEF LookUp, Goto
<1>4. ASSUME NEW t \in Threads, Evict(t) PROVE TypeOK'
  BY <1>4 DEF Evict, Goto
<1>5. ASSUME NEW t \in Threads, Connect(t) PROVE TypeOK'
  <2>1. Unused \in Conn
    BY UnusedIsNew
  <2>2. key[t] \in Keys
    BY <1>5 DEF Connect, KeyIsRead
  <2>3. profile.version \in 0 .. MaxSaves
    OBVIOUS
  <2>4. [key |-> key[t], version |-> profile.version] \in [key : Keys, version : 0 .. MaxSaves]
    BY <2>2, <2>3
  <2>5. QED
    BY <1>5, <2>1, <2>4 DEF Connect, Goto
<1>6. ASSUME NEW t \in Threads, ConnectFails(t) PROVE TypeOK'
  <2>1. CASE Return(t)
    BY <1>6, <2>1, ReturnTyped DEF ConnectFails
  <2>2. CASE ~Return(t)
    BY <1>6, <2>2 DEF ConnectFails, Goto
  <2>3. QED
    BY <2>1, <2>2
<1>7. ASSUME NEW t \in Threads, Insert(t) PROVE TypeOK'
  BY <1>7 DEF Insert, Goto, HeldIsOwn, Holding
<1>8. ASSUME NEW t \in Threads, LockToProbe(t) PROVE TypeOK'
  BY <1>8 DEF LockToProbe, Lock, Goto, HeldIsOwn, Holding
<1>9. ASSUME NEW t \in Threads, Probe(t) PROVE TypeOK'
  BY <1>9 DEF Probe, Goto, Unlock, HeldIsOwn, Holding
<1>10. ASSUME NEW t \in Threads, DropProbed(t) PROVE TypeOK'
  <2>1. CASE Return(t)
    BY <1>10, <2>1, ReturnTyped DEF DropProbed, Invalidate
  <2>2. CASE ~Return(t)
    BY <1>10, <2>2 DEF DropProbed, Invalidate, Goto
  <2>3. QED
    BY <2>1, <2>2
<1>11. ASSUME NEW t \in Threads, LockToUse(t) PROVE TypeOK'
  BY <1>11 DEF LockToUse, Lock, Goto, HeldIsOwn, Holding
<1>12. ASSUME NEW t \in Threads, Use(t) PROVE TypeOK'
  <2>1. CASE Return(t)
    BY <1>12, <2>1, ReturnTyped DEF Use, Unlock, HeldIsOwn, Holding
  <2>2. CASE ~Return(t)
    BY <1>12, <2>2 DEF Use, Unlock, HeldIsOwn, Holding, Goto
  <2>3. QED
    BY <2>1, <2>2
<1>13. ASSUME NEW t \in Threads, DropUsed(t) PROVE TypeOK'
  BY <1>13, Bounds DEF DropUsed, Invalidate, Return, Goto
<1>14. ASSUME NEW t \in Threads, Cancel(t) PROVE TypeOK'
  BY <1>14 DEF Cancel
<1>15. ASSUME NEW c \in Conn, Lose(c) PROVE TypeOK'
  BY <1>15 DEF Lose, InHand
<1>16. CASE UserDisconnects
  BY <1>16 DEF UserDisconnects, Disconnect
<1>17. CASE SaveWrites
  BY <1>17, Bounds DEF SaveWrites
<1>18. CASE SaveDisconnects
  <2>1. profile.version \in 0 .. profile.version
    BY Bounds
  <2>2. QED
    BY <1>18, <2>1 DEF SaveDisconnects, Disconnect
<1>19. QED
  BY <1>0, <1>1, <1>2, <1>3, <1>4, <1>5, <1>6, <1>7, <1>8, <1>9, <1>10,
     <1>11, <1>12, <1>13, <1>14, <1>15, <1>16, <1>17, <1>18 DEF Next, Step

LEMMA StepHolds ==
  ASSUME TypeOK, NumberLeft, HeldIsOwn, [Next]_vars
  PROVE  HeldIsOwn'
<1> USE DEF HeldIsOwn, TypeOK, Steps, Holding, Dropping, connections, threads,
           store
<1>0. CASE UNCHANGED vars
  BY <1>0 DEF vars
<1>1. ASSUME NEW t \in Threads, Call(t) PROVE HeldIsOwn'
  BY <1>1 DEF Call, Goto
<1>2. ASSUME NEW t \in Threads, GiveUp(t) PROVE HeldIsOwn'
  BY <1>2 DEF GiveUp, Return, Goto
<1>3. ASSUME NEW t \in Threads, LookUp(t) PROVE HeldIsOwn'
  BY <1>3 DEF LookUp, Goto
<1>4. ASSUME NEW t \in Threads, Evict(t) PROVE HeldIsOwn'
  BY <1>4 DEF Evict, Goto
<1>5. ASSUME NEW t \in Threads, Connect(t) PROVE HeldIsOwn'
  BY <1>5, UnusedIsNew DEF Connect, Goto, InHand
<1>6. ASSUME NEW t \in Threads, ConnectFails(t) PROVE HeldIsOwn'
  BY <1>6 DEF ConnectFails, Goto, Return
<1>7. ASSUME NEW t \in Threads, Insert(t) PROVE HeldIsOwn'
  BY <1>7 DEF Insert, Goto
<1>8. ASSUME NEW t \in Threads, LockToProbe(t) PROVE HeldIsOwn'
  BY <1>8 DEF LockToProbe, Lock, Goto
<1>9. ASSUME NEW t \in Threads, Probe(t) PROVE HeldIsOwn'
  BY <1>9 DEF Probe, Goto, Unlock
<1>10. ASSUME NEW t \in Threads, DropProbed(t) PROVE HeldIsOwn'
  BY <1>10 DEF DropProbed, Invalidate, Goto, Return
<1>11. ASSUME NEW t \in Threads, LockToUse(t) PROVE HeldIsOwn'
  BY <1>11 DEF LockToUse, Lock, Goto
<1>12. ASSUME NEW t \in Threads, Use(t) PROVE HeldIsOwn'
  BY <1>12 DEF Use, Goto, Unlock, Return
<1>13. ASSUME NEW t \in Threads, DropUsed(t) PROVE HeldIsOwn'
  BY <1>13 DEF DropUsed, Invalidate, Return, Goto
<1>14. ASSUME NEW t \in Threads, Cancel(t) PROVE HeldIsOwn'
  BY <1>14 DEF Cancel
<1>15. ASSUME NEW c \in Conn, Lose(c) PROVE HeldIsOwn'
  BY <1>15 DEF Lose
<1>16. CASE UserDisconnects
  BY <1>16 DEF UserDisconnects, Disconnect
<1>17. CASE SaveWrites
  BY <1>17 DEF SaveWrites
<1>18. CASE SaveDisconnects
  BY <1>18 DEF SaveDisconnects, Disconnect
<1>19. QED
  BY <1>0, <1>1, <1>2, <1>3, <1>4, <1>5, <1>6, <1>7, <1>8, <1>9, <1>10,
     <1>11, <1>12, <1>13, <1>14, <1>15, <1>16, <1>17, <1>18 DEF Next, Step

LEMMA StepPrivate ==
  ASSUME TypeOK, NumberLeft, HeldIsOwn, NewIsPrivate, [Next]_vars
  PROVE  NewIsPrivate'
<1> USE DEF NewIsPrivate, HeldIsOwn, TypeOK, Steps, Holding, Dropping,
           connections, threads, store
<1>0. CASE UNCHANGED vars
  BY <1>0 DEF vars
<1>1. ASSUME NEW t \in Threads, Call(t) PROVE NewIsPrivate'
  BY <1>1 DEF Call, Goto
<1>2. ASSUME NEW t \in Threads, GiveUp(t) PROVE NewIsPrivate'
  BY <1>2, ConnCounted DEF GiveUp, Return, Goto
<1>3. ASSUME NEW t \in Threads, LookUp(t) PROVE NewIsPrivate'
  BY <1>3 DEF LookUp, Goto
<1>4. ASSUME NEW t \in Threads, Evict(t) PROVE NewIsPrivate'
  BY <1>4, ConnCounted DEF Evict, Goto
<1>5. ASSUME NEW t \in Threads, Connect(t) PROVE NewIsPrivate'
  BY <1>5, UnusedIsNew DEF Connect, Goto, InHand
<1>6. ASSUME NEW t \in Threads, ConnectFails(t) PROVE NewIsPrivate'
  BY <1>6, ConnCounted DEF ConnectFails, Goto, Return
<1>7. ASSUME NEW t \in Threads, Insert(t) PROVE NewIsPrivate'
  BY <1>7 DEF Insert, Goto
<1>8. ASSUME NEW t \in Threads, LockToProbe(t) PROVE NewIsPrivate'
  BY <1>8 DEF LockToProbe, Lock, Goto
<1>9. ASSUME NEW t \in Threads, Probe(t) PROVE NewIsPrivate'
  BY <1>9 DEF Probe, Goto, Unlock
<1>10. ASSUME NEW t \in Threads, DropProbed(t) PROVE NewIsPrivate'
  BY <1>10, ConnCounted DEF DropProbed, Invalidate, Goto, Return
<1>11. ASSUME NEW t \in Threads, LockToUse(t) PROVE NewIsPrivate'
  BY <1>11 DEF LockToUse, Lock, Goto
<1>12. ASSUME NEW t \in Threads, Use(t) PROVE NewIsPrivate'
  BY <1>12, ConnCounted DEF Use, Goto, Unlock, Return
<1>13. ASSUME NEW t \in Threads, DropUsed(t) PROVE NewIsPrivate'
  BY <1>13, ConnCounted DEF DropUsed, Invalidate, Return, Goto
<1>14. ASSUME NEW t \in Threads, Cancel(t) PROVE NewIsPrivate'
  BY <1>14 DEF Cancel
<1>15. ASSUME NEW c \in Conn, Lose(c) PROVE NewIsPrivate'
  BY <1>15 DEF Lose
<1>16. CASE UserDisconnects
  BY <1>16, ConnCounted DEF UserDisconnects, Disconnect
<1>17. CASE SaveWrites
  BY <1>17 DEF SaveWrites
<1>18. CASE SaveDisconnects
  BY <1>18, ConnCounted DEF SaveDisconnects, Disconnect
<1>19. QED
  BY <1>0, <1>1, <1>2, <1>3, <1>4, <1>5, <1>6, <1>7, <1>8, <1>9, <1>10,
     <1>11, <1>12, <1>13, <1>14, <1>15, <1>16, <1>17, <1>18 DEF Next, Step

LEMMA StepDrops ==
  ASSUME TypeOK, NumberLeft, HeldIsOwn, DropsSpoilt, [Next]_vars
  PROVE  DropsSpoilt'
<1> USE DEF DropsSpoilt, HeldIsOwn, TypeOK, Steps, Holding, Dropping,
           connections, threads, store
<1>0. CASE UNCHANGED vars
  BY <1>0 DEF vars
<1>1. ASSUME NEW t \in Threads, Call(t) PROVE DropsSpoilt'
  BY <1>1 DEF Call, Goto
<1>2. ASSUME NEW t \in Threads, GiveUp(t) PROVE DropsSpoilt'
  BY <1>2 DEF GiveUp, Return, Goto
<1>3. ASSUME NEW t \in Threads, LookUp(t) PROVE DropsSpoilt'
  BY <1>3 DEF LookUp, Goto
<1>4. ASSUME NEW t \in Threads, Evict(t) PROVE DropsSpoilt'
  BY <1>4 DEF Evict, Goto
<1>5. ASSUME NEW t \in Threads, Connect(t) PROVE DropsSpoilt'
  BY <1>5, UnusedIsNew DEF Connect, Goto, InHand
<1>6. ASSUME NEW t \in Threads, ConnectFails(t) PROVE DropsSpoilt'
  BY <1>6 DEF ConnectFails, Goto, Return
<1>7. ASSUME NEW t \in Threads, Insert(t) PROVE DropsSpoilt'
  BY <1>7 DEF Insert, Goto
<1>8. ASSUME NEW t \in Threads, LockToProbe(t) PROVE DropsSpoilt'
  BY <1>8 DEF LockToProbe, Lock, Goto
<1>9. ASSUME NEW t \in Threads, Probe(t) PROVE DropsSpoilt'
  BY <1>9 DEF Probe, Goto, Unlock
<1>10. ASSUME NEW t \in Threads, DropProbed(t) PROVE DropsSpoilt'
  BY <1>10 DEF DropProbed, Invalidate, Goto, Return
<1>11. ASSUME NEW t \in Threads, LockToUse(t) PROVE DropsSpoilt'
  BY <1>11 DEF LockToUse, Lock, Goto
<1>12. ASSUME NEW t \in Threads, Use(t) PROVE DropsSpoilt'
  BY <1>12 DEF Use, Goto, Unlock, Return
<1>13. ASSUME NEW t \in Threads, DropUsed(t) PROVE DropsSpoilt'
  BY <1>13 DEF DropUsed, Invalidate, Return, Goto
<1>14. ASSUME NEW t \in Threads, Cancel(t) PROVE DropsSpoilt'
  BY <1>14 DEF Cancel
<1>15. ASSUME NEW c \in Conn, Lose(c) PROVE DropsSpoilt'
  BY <1>15 DEF Lose
<1>16. CASE UserDisconnects
  BY <1>16 DEF UserDisconnects, Disconnect
<1>17. CASE SaveWrites
  BY <1>17 DEF SaveWrites
<1>18. CASE SaveDisconnects
  BY <1>18 DEF SaveDisconnects, Disconnect
<1>19. QED
  BY <1>0, <1>1, <1>2, <1>3, <1>4, <1>5, <1>6, <1>7, <1>8, <1>9, <1>10,
     <1>11, <1>12, <1>13, <1>14, <1>15, <1>16, <1>17, <1>18 DEF Next, Step

LEMMA StepLeavesNumber ==
  ASSUME TypeOK, NumberLeft, [Next]_vars
  PROVE  NumberLeft'
<1> USE DEF NumberLeft, connections, threads, store
<1>t. pc \in [Threads -> Steps] /\ using \in [Threads -> Conn \cup {0}]
  BY DEF TypeOK
<1>0. CASE UNCHANGED vars
  BY <1>0 DEF vars
<1>1. ASSUME NEW t \in Threads, Call(t) PROVE NumberLeft'
  BY <1>1, <1>t DEF Call, Goto
<1>2. ASSUME NEW t \in Threads, GiveUp(t) PROVE NumberLeft'
  <2>1. pc'[t] = "idle" /\ using'[t] = 0
    BY <1>2, <1>t DEF GiveUp, Return, Goto
  <2>2. QED
    BY <2>1
<1>3. ASSUME NEW t \in Threads, LookUp(t) PROVE NumberLeft'
  BY <1>3, <1>t DEF LookUp, Goto
<1>4. ASSUME NEW t \in Threads, Evict(t) PROVE NumberLeft'
  BY <1>4, <1>t DEF Evict, Goto
<1>5. ASSUME NEW t \in Threads, Connect(t) PROVE NumberLeft'
  BY <1>5, <1>t, UnusedIsNew DEF Connect, Goto, InHand
<1>6. ASSUME NEW t \in Threads, ConnectFails(t) PROVE NumberLeft'
  <2>1. CASE Return(t)
    <3>1. pc'[t] = "idle" /\ using'[t] = 0
      BY <2>1, <1>t DEF Return, Goto
    <3>2. QED
      BY <3>1
  <2>2. CASE ~Return(t)
    BY <1>6, <1>t, <2>2 DEF ConnectFails, Goto
  <2>3. QED
    BY <2>1, <2>2
<1>7. ASSUME NEW t \in Threads, Insert(t) PROVE NumberLeft'
  BY <1>7, <1>t DEF Insert, Goto
<1>8. ASSUME NEW t \in Threads, LockToProbe(t) PROVE NumberLeft'
  BY <1>8, <1>t DEF LockToProbe, Lock, Goto
<1>9. ASSUME NEW t \in Threads, Probe(t) PROVE NumberLeft'
  BY <1>9, <1>t DEF Probe, Goto, Unlock
<1>10. ASSUME NEW t \in Threads, DropProbed(t) PROVE NumberLeft'
  <2>1. CASE Return(t)
    <3>1. pc'[t] = "idle" /\ using'[t] = 0
      BY <2>1, <1>t DEF Return, Goto
    <3>2. QED
      BY <3>1
  <2>2. CASE ~Return(t)
    BY <1>10, <1>t, <2>2 DEF DropProbed, Invalidate, Goto
  <2>3. QED
    BY <2>1, <2>2
<1>11. ASSUME NEW t \in Threads, LockToUse(t) PROVE NumberLeft'
  BY <1>11, <1>t DEF LockToUse, Lock, Goto
<1>12. ASSUME NEW t \in Threads, Use(t) PROVE NumberLeft'
  <2>1. CASE Return(t)
    <3>1. pc'[t] = "idle" /\ using'[t] = 0
      BY <2>1, <1>t DEF Return, Goto
    <3>2. QED
      BY <3>1
  <2>2. CASE ~Return(t)
    BY <1>12, <1>t, <2>2 DEF Use, Goto
  <2>3. QED
    BY <2>1, <2>2
<1>13. ASSUME NEW t \in Threads, DropUsed(t) PROVE NumberLeft'
  <2>1. pc'[t] = "idle" /\ using'[t] = 0
    BY <1>13, <1>t DEF DropUsed, Return, Goto
  <2>2. QED
    BY <2>1
<1>14. ASSUME NEW t \in Threads, Cancel(t) PROVE NumberLeft'
  BY <1>14, <1>t DEF Cancel
<1>15. ASSUME NEW c \in Conn, Lose(c) PROVE NumberLeft'
  BY <1>15, <1>t DEF Lose
<1>16. CASE UserDisconnects
  BY <1>16, <1>t DEF UserDisconnects, Disconnect
<1>17. CASE SaveWrites
  BY <1>17, <1>t DEF SaveWrites
<1>18. CASE SaveDisconnects
  BY <1>18, <1>t DEF SaveDisconnects, Disconnect
<1>19. QED
  BY <1>0, <1>1, <1>2, <1>3, <1>4, <1>5, <1>6, <1>7, <1>8, <1>9, <1>10,
     <1>11, <1>12, <1>13, <1>14, <1>15, <1>16, <1>17, <1>18 DEF Next, Step

LEMMA StepEvicts ==
  ASSUME TypeOK, NumberLeft, HeldIsOwn, NewIsPrivate, DropsSpoilt, SpoiltIsEvicted, [Next]_vars
  PROVE  SpoiltIsEvicted'
<1> USE DEF SpoiltIsEvicted, HeldIsOwn, NewIsPrivate, DropsSpoilt, TypeOK,
           Steps, Holding, Dropping, connections, threads, store
<1>0. CASE UNCHANGED vars
  BY <1>0 DEF vars
<1>1. ASSUME NEW t \in Threads, Call(t) PROVE SpoiltIsEvicted'
  BY <1>1 DEF Call, Goto
<1>2. ASSUME NEW t \in Threads, GiveUp(t) PROVE SpoiltIsEvicted'
  BY <1>2 DEF GiveUp, Return, Goto
<1>3. ASSUME NEW t \in Threads, LookUp(t) PROVE SpoiltIsEvicted'
  BY <1>3 DEF LookUp, Goto
<1>4. ASSUME NEW t \in Threads, Evict(t) PROVE SpoiltIsEvicted'
  BY <1>4, ConnCounted DEF Evict, Goto
<1>5. ASSUME NEW t \in Threads, Connect(t) PROVE SpoiltIsEvicted'
  BY <1>5, UnusedIsNew DEF Connect, Goto, InHand
<1>6. ASSUME NEW t \in Threads, ConnectFails(t) PROVE SpoiltIsEvicted'
  BY <1>6 DEF ConnectFails, Goto, Return
<1>7. ASSUME NEW t \in Threads, Insert(t) PROVE SpoiltIsEvicted'
  BY <1>7 DEF Insert, Goto
<1>8. ASSUME NEW t \in Threads, LockToProbe(t) PROVE SpoiltIsEvicted'
  BY <1>8 DEF LockToProbe, Lock, Goto
<1>9. ASSUME NEW t \in Threads, Probe(t) PROVE SpoiltIsEvicted'
  BY <1>9 DEF Probe, Goto, Unlock
<1>10. ASSUME NEW t \in Threads, DropProbed(t) PROVE SpoiltIsEvicted'
  BY <1>10, ConnCounted DEF DropProbed, Invalidate, Goto, Return
<1>11. ASSUME NEW t \in Threads, LockToUse(t) PROVE SpoiltIsEvicted'
  BY <1>11 DEF LockToUse, Lock, Goto
<1>12. ASSUME NEW t \in Threads, Use(t) PROVE SpoiltIsEvicted'
  BY <1>12 DEF Use, Goto, Unlock, Return
<1>13. ASSUME NEW t \in Threads, DropUsed(t) PROVE SpoiltIsEvicted'
  BY <1>13, ConnCounted DEF DropUsed, Invalidate, Return, Goto
<1>14. ASSUME NEW t \in Threads, Cancel(t) PROVE SpoiltIsEvicted'
  BY <1>14 DEF Cancel
<1>15. ASSUME NEW c \in Conn, Lose(c) PROVE SpoiltIsEvicted'
  BY <1>15 DEF Lose
<1>16. CASE UserDisconnects
  BY <1>16, ConnCounted DEF UserDisconnects, Disconnect
<1>17. CASE SaveWrites
  BY <1>17 DEF SaveWrites
<1>18. CASE SaveDisconnects
  BY <1>18, ConnCounted DEF SaveDisconnects, Disconnect
<1>19. QED
  BY <1>0, <1>1, <1>2, <1>3, <1>4, <1>5, <1>6, <1>7, <1>8, <1>9, <1>10,
     <1>11, <1>12, <1>13, <1>14, <1>15, <1>16, <1>17, <1>18 DEF Next, Step

LEMMA StepReads ==
  ASSUME TypeOK, KeyIsRead, [Next]_vars
  PROVE  KeyIsRead'
<1> USE DEF KeyIsRead, TypeOK, Steps, connections, threads, store
<1>0. CASE UNCHANGED vars
  BY <1>0 DEF vars
<1>1. ASSUME NEW t \in Threads, Call(t) PROVE KeyIsRead'
  BY <1>1 DEF Call, Goto
<1>2. ASSUME NEW t \in Threads, GiveUp(t) PROVE KeyIsRead'
  BY <1>2 DEF GiveUp, Return, Goto
<1>3. ASSUME NEW t \in Threads, LookUp(t) PROVE KeyIsRead'
  BY <1>3 DEF LookUp, Goto
<1>4. ASSUME NEW t \in Threads, Evict(t) PROVE KeyIsRead'
  BY <1>4 DEF Evict, Goto
<1>5. ASSUME NEW t \in Threads, Connect(t) PROVE KeyIsRead'
  BY <1>5 DEF Connect, Goto
<1>6. ASSUME NEW t \in Threads, ConnectFails(t) PROVE KeyIsRead'
  <2>1. CASE Return(t)
    <3>1. pc'[t] = "idle" /\ \A u \in Threads \ {t} : pc'[u] = pc[u] /\ key'[u] = key[u]
      BY <2>1 DEF Return, Goto
    <3>2. QED
      BY <3>1
  <2>2. CASE ~Return(t)
    BY <1>6, <2>2 DEF ConnectFails, Goto
  <2>3. QED
    BY <2>1, <2>2
<1>7. ASSUME NEW t \in Threads, Insert(t) PROVE KeyIsRead'
  BY <1>7 DEF Insert, Goto
<1>8. ASSUME NEW t \in Threads, LockToProbe(t) PROVE KeyIsRead'
  BY <1>8 DEF LockToProbe, Lock, Goto
<1>9. ASSUME NEW t \in Threads, Probe(t) PROVE KeyIsRead'
  BY <1>9 DEF Probe, Goto, Unlock
<1>10. ASSUME NEW t \in Threads, DropProbed(t) PROVE KeyIsRead'
  <2>1. CASE Return(t)
    <3>1. pc'[t] = "idle" /\ \A u \in Threads \ {t} : pc'[u] = pc[u] /\ key'[u] = key[u]
      BY <2>1 DEF Return, Goto
    <3>2. QED
      BY <3>1
  <2>2. CASE ~Return(t)
    BY <1>10, <2>2 DEF DropProbed, Goto
  <2>3. QED
    BY <2>1, <2>2
<1>11. ASSUME NEW t \in Threads, LockToUse(t) PROVE KeyIsRead'
  BY <1>11 DEF LockToUse, Lock, Goto
<1>12. ASSUME NEW t \in Threads, Use(t) PROVE KeyIsRead'
  <2>1. CASE Return(t)
    <3>1. pc'[t] = "idle" /\ \A u \in Threads \ {t} : pc'[u] = pc[u] /\ key'[u] = key[u]
      BY <2>1 DEF Return, Goto
    <3>2. QED
      BY <3>1
  <2>2. CASE ~Return(t)
    BY <1>12, <2>2 DEF Use, Goto
  <2>3. QED
    BY <2>1, <2>2
<1>13. ASSUME NEW t \in Threads, DropUsed(t) PROVE KeyIsRead'
  BY <1>13 DEF DropUsed, Invalidate, Return, Goto
<1>14. ASSUME NEW t \in Threads, Cancel(t) PROVE KeyIsRead'
  BY <1>14 DEF Cancel
<1>15. ASSUME NEW c \in Conn, Lose(c) PROVE KeyIsRead'
  BY <1>15 DEF Lose
<1>16. CASE UserDisconnects
  BY <1>16 DEF UserDisconnects, Disconnect
<1>17. CASE SaveWrites
  BY <1>17 DEF SaveWrites
<1>18. CASE SaveDisconnects
  BY <1>18 DEF SaveDisconnects, Disconnect
<1>19. QED
  BY <1>0, <1>1, <1>2, <1>3, <1>4, <1>5, <1>6, <1>7, <1>8, <1>9, <1>10,
     <1>11, <1>12, <1>13, <1>14, <1>15, <1>16, <1>17, <1>18 DEF Next, Step

\* What an invalidation removes was found unusable.
Spares ==
  \A t \in Threads :
    pc[t] \in Dropping /\ pc'[t] # pc[t] => cache' = cache \/ cache \in spoilt

LEMMA StepSpares ==
  ASSUME IInv, [Next]_vars
  PROVE  Spares
<1> USE DEF Spares, Dropping, connections, threads, store
<1>t. pc \in [Threads -> Steps]
  BY DEF IInv, TypeOK
<1>0. CASE UNCHANGED vars
  BY <1>0 DEF vars
<1>1. ASSUME NEW t \in Threads, Call(t) \/ Cancel(t) \/ GiveUp(t) \/ LookUp(t)
               \/ ConnectFails(t) \/ LockToProbe(t) \/ Probe(t) \/ LockToUse(t)
               \/ Use(t) \/ Connect(t)
      PROVE  Spares
  BY <1>1 DEF Call, Cancel, GiveUp, LookUp, ConnectFails, LockToProbe, Probe, LockToUse,
              Use, Connect, Lock
<1>2. ASSUME NEW t \in Threads, Evict(t) \/ Insert(t) PROVE Spares
  <2>1. \A u \in Threads : pc[u] \in Dropping => pc'[u] = pc[u]
    BY <1>2, <1>t DEF Evict, Insert, Goto
  <2>2. QED
    BY <2>1
<1>3. ASSUME NEW t \in Threads, DropProbed(t) \/ DropUsed(t) PROVE Spares
  <2>1. \A u \in Threads \ {t} : pc'[u] = pc[u]
    BY <1>3, <1>t DEF DropProbed, DropUsed, Return, Goto
  <2>2. using[t] \in spoilt /\ cache' \in {cache, IF cache = using[t] THEN 0 ELSE cache}
    BY <1>3 DEF DropProbed, DropUsed, Invalidate, IInv, DropsSpoilt
  <2>3. QED
    BY <2>1, <2>2
<1>4. ASSUME NEW c \in Conn, Lose(c) PROVE Spares
  BY <1>4 DEF Lose
<1>5. CASE UserDisconnects \/ SaveWrites \/ SaveDisconnects
  BY <1>5 DEF UserDisconnects, SaveWrites, SaveDisconnects
<1>6. QED
  BY <1>0, <1>1, <1>2, <1>3, <1>4, <1>5 DEF Next, Step

-----------------------------------------------------------------------------
(* The theorems.                                                           *)

LEMMA Inductive == IInv /\ [Next]_vars => IInv'
<1> SUFFICES ASSUME IInv, [Next]_vars PROVE IInv'
  OBVIOUS
<1>1. /\ TypeOK /\ KeyIsRead /\ HeldIsOwn /\ NewIsPrivate
      /\ DropsSpoilt /\ NumberLeft /\ SpoiltIsEvicted
  BY DEF IInv
<1>2. TypeOK' /\ KeyIsRead' /\ HeldIsOwn'
  BY <1>1, StepTyped, StepReads, StepHolds
<1>3. NewIsPrivate' /\ DropsSpoilt'
  BY <1>1, StepPrivate, StepDrops
<1>4. NumberLeft' /\ SpoiltIsEvicted'
  BY <1>1, StepLeavesNumber, StepEvicts
<1>5. QED
  BY <1>2, <1>3, <1>4 DEF IInv

LEMMA Invariance == Spec => []IInv
BY InitEstablishes, Inductive, PTL DEF Spec

\* The variables keep their types: in particular a thread that connects never
\* reuses the number of a connection somebody has in hand.
THEOREM TypeCorrect == Spec => []TypeOK
<1>1. IInv => TypeOK
  BY DEF IInv
<1>2. QED
  BY <1>1, Invariance, PTL

\* A thread locks, probes and uses only a connection that was made for the
\* profile it read, whatever other threads evict, insert or save.
THEOREM CommandsRunOnOwnProfile == Spec => []RunsOnOwnProfile
<1>1. IInv => RunsOnOwnProfile
  BY DEF IInv, HeldIsOwn, Holding, RunsOnOwnProfile, InCommand
<1>2. QED
  BY <1>1, Invariance, PTL

\* A connection found unusable is out of the cache once the call that found
\* it so is over.
THEOREM SpoiltLeavesCache == Spec => []SpoiltIsEvicted
<1>1. IInv => SpoiltIsEvicted
  BY DEF IInv
<1>2. QED
  BY <1>1, Invariance, PTL

\* An invalidation removes nothing but a connection found unusable.
THEOREM OthersAreSpared == Spec => InvalidationSparesOthers
<1>1. IInv /\ [Next]_vars =>
        [\A t \in Threads :
           pc[t] \in {"dropProbed", "dropUsed"} /\ pc'[t] # pc[t]
             => cache' = cache \/ cache \in spoilt]_vars
  BY StepSpares DEF Spares, Dropping
<1>2. QED
  BY <1>1, Invariance, PTL DEF Spec, InvalidationSparesOthers
=============================================================================
