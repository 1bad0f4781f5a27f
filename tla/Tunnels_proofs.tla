--------------------------- MODULE Tunnels_proofs ---------------------------
(***************************************************************************)
(* Proofs about the tunnels, for any tunnels of any kinds, any number of   *)
(* starts and connections, and any sizes of the pump's buffers.            *)
(***************************************************************************)
EXTENDS Tunnels, FiniteSetTheorems, TLAPS

-----------------------------------------------------------------------------
(* The pump.                                                               *)

\* The pump sees the end of the socket after the last byte of it.
Sound(p) ==
  /\ p \in Pipes
  /\ Faithful(p)
  /\ p.socketEof => p.finUp /\ p.readUp = p.sentUp

\* What the numbers of a pipe are, apart from its flags.
LEMMA Numbers ==
  ASSUME NEW p \in Pipes
  PROVE  /\ p.sentUp \in Nat /\ p.readUp \in Nat /\ p.toSsh \in Nat /\ p.gotUp \in Nat
         /\ p.sentDown \in Nat /\ p.readDown \in Nat /\ p.toSocket \in Nat /\ p.gotDown \in Nat
         /\ p.sentUp <= MaxUp /\ p.sentDown <= MaxDown
         /\ MaxUp \in Nat /\ MaxDown \in Nat
BY PumpAssumption DEF Pipes, PumpAssumption

LEMMA UnusedIsSound == Sound(Unused)
BY PumpAssumption DEF Sound, Faithful, Unused, Pipes, Phases, PumpAssumption

LEMMA PhaseIsFree ==
  ASSUME NEW p, Sound(p), NEW phase \in Phases
  PROVE  Sound([p EXCEPT !.phase = phase])
BY DEF Sound, Faithful, Pipes

LEMMA FailIsSound == ASSUME NEW p PROVE Sound(Fail(p)) /\ Fail(p).phase = "failed"
<1>1. Sound([Unused EXCEPT !.phase = "failed"])
  BY UnusedIsSound, PhaseIsFree DEF Phases
<1>2. QED
  BY <1>1 DEF Fail, Unused

LEMMA PeersKeepSound ==
  ASSUME NEW p, Sound(p), NEW q \in Peers(p)
  PROVE  Sound(q)
<1> USE DEF Sound, Faithful, Pipes
<1>1. CASE q = [p EXCEPT !.sentUp = @ + 1] /\ ~p.finUp /\ p.sentUp # MaxUp
  BY <1>1, Numbers
<1>2. CASE q = [p EXCEPT !.sentDown = @ + 1] /\ ~p.finDown /\ p.sentDown # MaxDown
  BY <1>2, Numbers
<1>3. CASE q = [p EXCEPT !.finUp = TRUE]
  BY <1>3, Numbers
<1>4. CASE q = [p EXCEPT !.finDown = TRUE]
  BY <1>4, Numbers
<1>5. QED
  BY <1>1, <1>2, <1>3, <1>4 DEF Peers

LEMMA ReadSocketKeepsSound ==
  ASSUME NEW p, Sound(p), NEW q \in ReadSocket(p)
  PROVE  Sound(q)
<1>1. CASE q = p \/ q = Fail(p)
  BY <1>1, FailIsSound
<1>2. CASE q = [p EXCEPT !.socketEof = p.finUp] /\ p.sentUp - p.readUp = 0
  <2>1. p.finUp \in BOOLEAN
    BY DEF Sound, Pipes
  <2>2. \A b \in BOOLEAN : [p EXCEPT !.socketEof = b] \in Pipes
    BY DEF Sound, Pipes
  <2>3. q \in Pipes
    BY <1>2, <2>1, <2>2
  <2>4. p.readUp = p.sentUp
    BY <1>2, Numbers DEF Sound
  <2>5. QED
    BY <1>2, <2>3, <2>4 DEF Sound, Faithful, Pipes
<1>3. ASSUME NEW n \in UpTo(p.sentUp - p.readUp), ~p.socketEof,
             q = [p EXCEPT !.readUp = @ + n, !.toSsh = @ + n]
      PROVE  Sound(q)
  <2>1. n \in Nat /\ n <= p.sentUp - p.readUp
    BY PumpAssumption DEF UpTo, PumpAssumption
  <2>2. p.readUp + n \in 0 .. MaxUp /\ p.toSsh + n \in 0 .. MaxUp
    BY <2>1, Numbers DEF Sound, Faithful
  <2>3. \A a, b \in 0 .. MaxUp : [p EXCEPT !.readUp = a, !.toSsh = b] \in Pipes
    BY DEF Sound, Pipes
  <2>4. q \in Pipes
    BY <1>3, <2>2, <2>3
  <2>5. QED
    BY <1>3, <2>1, <2>4, Numbers DEF Sound, Faithful, Pipes
<1>4. QED
  BY <1>1, <1>2, <1>3 DEF ReadSocket

LEMMA SentIsSound ==
  ASSUME NEW p, Sound(p), NEW n \in Nat, n <= p.toSsh
  PROVE  Sound(Sent(p, n))
<1> DEFINE q == Sent(p, n)
<1>1. p.toSsh - n \in 0 .. MaxUp /\ p.gotUp + n \in 0 .. MaxUp
  BY Numbers DEF Sound, Faithful
<1>2. \A a, b \in 0 .. MaxUp : [p EXCEPT !.toSsh = a, !.gotUp = b] \in Pipes
  BY DEF Sound, Pipes
<1>3. q \in Pipes
  BY <1>1, <1>2 DEF Sent
<1>4. p.eofSent => n = 0
  BY Numbers DEF Sound, Faithful
<1>5. QED
  BY <1>3, <1>4, Numbers DEF Sound, Faithful, Pipes, Sent

LEMMA WriteChannelKeepsSound ==
  ASSUME NEW p, Sound(p), NEW q \in WriteChannel(p)
  PROVE  Sound(q)
<1>1. CASE q = Fail(p)
  BY <1>1, FailIsSound
<1>2. ASSUME NEW n \in 0 .. p.toSsh,
             q = [Sent(p, n) EXCEPT !.eofSent = @ \/ Ended(Sent(p, n))]
      PROVE  Sound(q)
  <2> DEFINE r == Sent(p, n)
  <2>1. n \in Nat /\ n <= p.toSsh
    BY Numbers DEF Sound
  <2>2. Sound(r)
    BY <2>1, SentIsSound
  <2>3. \A b \in BOOLEAN : [r EXCEPT !.eofSent = b] \in Pipes
    BY <2>2 DEF Sound, Pipes
  <2> DEFINE b == r.eofSent \/ Ended(r)
  <2>4. b \in BOOLEAN /\ q = [r EXCEPT !.eofSent = b]
    BY <1>2, <2>2 DEF Sound, Pipes, Ended
  <2>5. q \in Pipes
    BY <2>3, <2>4
  <2>6. b => r.finUp /\ r.gotUp = r.sentUp
    BY <2>2, Numbers DEF Sound, Faithful, Ended
  <2> HIDE DEF r, b
  <2>7. QED
    BY <2>2, <2>4, <2>5, <2>6 DEF Sound, Faithful, Pipes
<1>3. QED
  BY <1>1, <1>2 DEF WriteChannel

LEMMA ReadChannelKeepsSound ==
  ASSUME NEW p, Sound(p), NEW q \in ReadChannel(p)
  PROVE  Sound(q)
<1>1. CASE q = p \/ q = Fail(p)
  BY <1>1, FailIsSound
<1>2. ASSUME NEW n \in UpTo(p.sentDown - p.readDown),
             q = [p EXCEPT !.readDown = @ + n, !.toSocket = @ + n]
      PROVE  Sound(q)
  <2>1. n \in Nat /\ n <= p.sentDown - p.readDown
    BY PumpAssumption DEF UpTo, PumpAssumption
  <2>2. p.readDown + n \in 0 .. MaxDown /\ p.toSocket + n \in 0 .. MaxDown
    BY <2>1, Numbers DEF Sound, Faithful
  <2>3. \A a, b \in 0 .. MaxDown : [p EXCEPT !.readDown = a, !.toSocket = b] \in Pipes
    BY DEF Sound, Pipes
  <2>4. q \in Pipes
    BY <1>2, <2>2, <2>3
  <2>5. QED
    BY <1>2, <2>1, <2>4, Numbers DEF Sound, Faithful, Pipes
<1>3. QED
  BY <1>1, <1>2 DEF ReadChannel

LEMMA WriteSocketKeepsSound ==
  ASSUME NEW p, Sound(p), NEW q \in WriteSocket(p)
  PROVE  Sound(q)
<1>1. CASE q = Fail(p)
  BY <1>1, FailIsSound
<1>2. ASSUME NEW n \in 0 .. p.toSocket,
             q = [p EXCEPT !.toSocket = @ - n, !.gotDown = @ + n]
      PROVE  Sound(q)
  <2>1. n \in Nat /\ n <= p.toSocket
    BY Numbers DEF Sound
  <2>2. p.toSocket - n \in 0 .. MaxDown /\ p.gotDown + n \in 0 .. MaxDown
    BY <2>1, Numbers DEF Sound, Faithful
  <2>3. \A a, b \in 0 .. MaxDown : [p EXCEPT !.toSocket = a, !.gotDown = b] \in Pipes
    BY DEF Sound, Pipes
  <2>4. q \in Pipes
    BY <1>2, <2>2, <2>3
  <2>5. QED
    BY <1>2, <2>1, <2>4, Numbers DEF Sound, Faithful, Pipes
<1>3. QED
  BY <1>1, <1>2 DEF WriteSocket

\* An iteration of the loop, whatever its reads and writes do.
LEMMA IterateKeepsSound ==
  ASSUME NEW p, Sound(p), NEW q \in Iterate(p)
  PROVE  Sound(q)
<1> DEFINE A == ReadSocket(p)
<1> DEFINE B == Then(A, WriteChannel)
<1> DEFINE C == Then(B, ReadChannel)
<1>1. \A r \in A : Sound(r)
  BY ReadSocketKeepsSound
<1>2. \A r \in B : Sound(r)
  BY <1>1, WriteChannelKeepsSound DEF Then
<1> HIDE DEF B
<1>3. \A r \in C : Sound(r)
  BY <1>2, ReadChannelKeepsSound DEF Then
<1> HIDE DEF C
<1>4. \A r \in Then(C, WriteSocket) : Sound(r)
  BY <1>3, WriteSocketKeepsSound DEF Then
<1>5. QED
  BY <1>4 DEF Iterate, C, B

\* Neither the peers nor an iteration end a connection well.
LEMMA PeersPhase ==
  ASSUME NEW p, Sound(p), NEW q \in Peers(p)
  PROVE  q.phase = p.phase
BY DEF Peers, Sound, Pipes

LEMMA IteratePhase ==
  ASSUME NEW p, Sound(p), NEW q \in Iterate(p)
  PROVE  q.phase \in {p.phase, "failed"}
<1> DEFINE Stays(S) == \A r \in S : Sound(r) /\ r.phase \in {p.phase, "failed"}
<1> DEFINE A == ReadSocket(p)
<1> DEFINE B == Then(A, WriteChannel)
<1> DEFINE C == Then(B, ReadChannel)
<1>1. Stays(A)
  BY ReadSocketKeepsSound, FailIsSound DEF ReadSocket, Sound, Pipes
<1>2. \A r : Sound(r) => \A z \in WriteChannel(r) : z.phase \in {r.phase, "failed"}
  <2>1. ASSUME NEW r, Sound(r), NEW n \in 0 .. r.toSsh, NEW b
        PROVE  [Sent(r, n) EXCEPT !.eofSent = b].phase = r.phase
    <3>1. Sent(r, n).phase = r.phase
      BY <2>1 DEF Sent, Sound, Pipes
    <3>2. n \in Nat /\ n <= r.toSsh
      BY <2>1, Numbers DEF Sound
    <3>3. Sound(Sent(r, n))
      BY <2>1, <3>2, SentIsSound
    <3>4. QED
      BY <2>1, <3>1, <3>3 DEF Sound, Pipes
  <2>2. ASSUME NEW r, Sound(r), NEW z \in WriteChannel(r)
        PROVE  z.phase \in {r.phase, "failed"}
    <3>1. CASE z = Fail(r)
      BY <3>1, FailIsSound
    <3>2. ASSUME NEW n \in 0 .. r.toSsh,
                 z = [Sent(r, n) EXCEPT !.eofSent = @ \/ Ended(Sent(r, n))]
          PROVE  z.phase = r.phase
      <4> DEFINE b == Sent(r, n).eofSent \/ Ended(Sent(r, n))
      <4>1. z = [Sent(r, n) EXCEPT !.eofSent = b]
        BY <3>2
      <4> HIDE DEF b
      <4>2. QED
        BY <2>1, <2>2, <4>1
    <3>3. QED
      BY <2>2, <3>1, <3>2 DEF WriteChannel
  <2>3. QED
    BY <2>2
<1>3. \A r : Sound(r) => \A z \in ReadChannel(r) : z.phase \in {r.phase, "failed"}
  BY FailIsSound DEF ReadChannel, Sound, Pipes
<1>4. \A r : Sound(r) => \A z \in WriteSocket(r) : z.phase \in {r.phase, "failed"}
  BY FailIsSound DEF WriteSocket, Sound, Pipes
<1>5. Stays(B)
  BY <1>1, <1>2, WriteChannelKeepsSound DEF Then
<1> HIDE DEF B
<1>6. Stays(C)
  BY <1>5, <1>3, ReadChannelKeepsSound DEF Then
<1> HIDE DEF C
<1>7. Stays(Then(C, WriteSocket))
  BY <1>6, <1>4, WriteSocketKeepsSound DEF Then
<1>8. QED
  BY <1>7 DEF Iterate, C, B

-----------------------------------------------------------------------------
(* The inductive invariant.                                                *)

Busy == {c \in Starters : starting[c] # None}

\* A start that is under way has its run to come.
RunsLeft == last + Cardinality(Busy) <= MaxRuns

\* Runs are inserted in their order; one that was not has no thread, one that
\* was has a tunnel.
RunsBegin ==
  \A g \in Runs :
    /\ g > last => thread[g] = "none" /\ ~running[g]
    /\ g <= last => thread[g] # "none" /\ tunnel[g] \in Ids

\* The listener of a run is closed for a reason.
LeavingHasCause == \A g \in Runs : thread[g] = "leaving" => error[g] \/ g \in stopped

PipesAreSound == \A c \in Conns : Sound(pipe[c])

\* A connection belongs to a run that has begun.
OwnersBegan == \A c \in Conns : pipe[c].phase # "unused" => owner[c] \in 1 .. last

ConnectionsInv == PipesAreSound /\ OwnersBegan /\ EndIsComplete

IInv ==
  /\ TypeOK /\ RunsLeft /\ RunsBegin /\ LeavingHasCause /\ FailureLeavesError
  /\ ConnectionsInv

LEMMA StartersCounted == IsFiniteSet(Busy) /\ Cardinality(Busy) \in Nat /\ MaxRuns \in Nat
BY TunnelsAssumption, FS_Subset, FS_CardinalityType DEF Busy, TunnelsAssumption

LEMMA NoneIsNothing == None \notin Ids /\ None \notin Runs /\ MaxRuns \in Nat
BY TunnelsAssumption DEF TunnelsAssumption

LEMMA RoomForInsert ==
  ASSUME RunsLeft, last \in Nat, NEW c \in Starters, starting[c] # None
  PROVE  last + 1 \in Runs
<1>1. Cardinality(Busy) # 0
  BY StartersCounted, FS_EmptySet DEF Busy
<1>2. QED
  BY <1>1, StartersCounted DEF RunsLeft, Runs

LEMMA InitEstablishes == Init => IInv
<1> SUFFICES ASSUME Init PROVE IInv
  OBVIOUS
<1>1. \A c \in Conns : Sound(pipe[c]) /\ pipe[c] \in Pipes
  BY UnusedIsSound DEF Init, Sound
<1>2. TypeOK
  BY <1>1, NoneIsNothing DEF Init, TypeOK
<1>3. RunsLeft
  <2>1. Busy = {}
    BY DEF Init, Busy
  <2>2. QED
    BY <2>1, FS_EmptySet, NoneIsNothing DEF Init, RunsLeft
<1>4. RunsBegin /\ LeavingHasCause /\ FailureLeavesError
  BY DEF Init, RunsBegin, LeavingHasCause, FailureLeavesError, Runs
<1>5. OwnersBegan /\ EndIsComplete
  BY DEF Init, OwnersBegan, EndIsComplete, Unused
<1>6. QED
  BY <1>1, <1>2, <1>3, <1>4, <1>5 DEF IInv, ConnectionsInv, PipesAreSound

-----------------------------------------------------------------------------
(* The steps.                                                              *)

\* A new connection of a run.
LEMMA ForwardTyped ==
  ASSUME TypeOK, NEW g \in Runs, Forward(g)
  PROVE  owner' \in [Conns -> Runs \cup {None}] /\ pipe' \in [Conns -> Pipes]
<1>1. PICK c \in Conns : /\ pipe' = [pipe EXCEPT ![c].phase = "connecting"]
                         /\ owner' = [owner EXCEPT ![c] = g]
  BY DEF Forward
<1>2. [pipe[c] EXCEPT !.phase = "connecting"] \in Pipes
  BY DEF TypeOK, Pipes, Phases
<1>3. QED
  BY <1>1, <1>2 DEF TypeOK

LEMMA StepTyped ==
  ASSUME TypeOK, RunsLeft, PipesAreSound, [Next]_vars
  PROVE  TypeOK'
<1> USE DEF TypeOK, calls, connections
<1>0. CASE UNCHANGED vars
  BY <1>0 DEF vars
<1>1. ASSUME NEW ids \in {{t} : t \in Ids} \cup {Ids}, Stop(ids) PROVE TypeOK'
  BY <1>1 DEF Stop, Clear
<1>2. ASSUME NEW c \in Starters, Insert(c) PROVE TypeOK'
  <2>1. last + 1 \in Runs /\ starting[c] \in Ids
    BY <1>2, RoomForInsert DEF Insert
  <2>2. QED
    BY <1>2, <2>1, NoneIsNothing DEF Insert, Runs
<1>3. ASSUME NEW c \in Starters, NEW t \in Ids, Start(c, t) PROVE TypeOK'
  BY <1>3 DEF Start, StopFirst, Clear
<1>4. ASSUME NEW g \in Runs, Listen(g) PROVE TypeOK'
  BY <1>4 DEF Listen, Goto
<1>5. ASSUME NEW g \in Runs, Accept(g) PROVE TypeOK'
  <2>1. UNCHANGED connections \/ Forward(g)
    BY <1>5 DEF Accept
  <2>2. owner' \in [Conns -> Runs \cup {None}] /\ pipe' \in [Conns -> Pipes]
    BY <2>1, ForwardTyped
  <2>3. QED
    BY <1>5, <2>2 DEF Accept, Goto
<1>6. ASSUME NEW g \in Runs, Handshake(g) PROVE TypeOK'
  <2>1. UNCHANGED connections \/ Forward(g)
    BY <1>6 DEF Handshake
  <2>2. owner' \in [Conns -> Runs \cup {None}] /\ pipe' \in [Conns -> Pipes]
    BY <2>1, ForwardTyped
  <2>3. QED
    BY <1>6, <2>2 DEF Handshake, Goto
<1>7. ASSUME NEW g \in Runs, Break(g) PROVE TypeOK'
  BY <1>7 DEF Break, Goto
<1>8. ASSUME NEW g \in Runs, Leave(g) PROVE TypeOK'
  BY <1>8 DEF Leave, Goto
<1>9. ASSUME NEW g \in Runs, Report(g) PROVE TypeOK'
  BY <1>9 DEF Report, Goto
<1>10. ASSUME NEW g \in Runs, Finish(g) PROVE TypeOK'
  BY <1>10 DEF Finish, Goto
<1>11. ASSUME NEW c \in Conns, Connect(c) PROVE TypeOK'
  <2>1. \A phase \in {"pumping", "failed"} : [pipe[c] EXCEPT !.phase = phase] \in Pipes
    BY PhaseIsFree DEF PipesAreSound, Sound, Phases
  <2>2. QED
    BY <1>11, <2>1 DEF Connect
<1>12. ASSUME NEW c \in Conns, Pump(c) PROVE TypeOK'
  <2>1. \A p \in Iterate(pipe[c]) : p \in Pipes
    BY IterateKeepsSound DEF PipesAreSound, Sound
  <2>2. QED
    BY <1>12, <2>1 DEF Pump
<1>13. ASSUME NEW c \in Conns, PumpEnds(c) PROVE TypeOK'
  <2>1. [pipe[c] EXCEPT !.phase = "done"] \in Pipes
    BY PhaseIsFree DEF PipesAreSound, Sound, Phases
  <2>2. QED
    BY <1>13, <2>1 DEF PumpEnds
<1>14. ASSUME NEW c \in Conns, PeerMoves(c) PROVE TypeOK'
  <2>1. \A p \in Peers(pipe[c]) : p \in Pipes
    BY PeersKeepSound DEF PipesAreSound, Sound
  <2>2. QED
    BY <1>14, <2>1 DEF PeerMoves
<1>15. QED
  BY <1>0, <1>1, <1>2, <1>3, <1>4, <1>5, <1>6, <1>7, <1>8, <1>9, <1>10, <1>11,
     <1>12, <1>13, <1>14 DEF Next

LEMMA StepLeavesRuns ==
  ASSUME TypeOK, RunsLeft, [Next]_vars
  PROVE  RunsLeft'
<1> USE DEF RunsLeft, calls, connections
<1>0. CASE UNCHANGED vars
  BY <1>0 DEF vars, Busy
<1>1. ASSUME NEW ids \in {{t} : t \in Ids} \cup {Ids}, Stop(ids) PROVE RunsLeft'
  BY <1>1 DEF Stop, Clear, Busy
<1>2. ASSUME NEW c \in Starters, Insert(c) PROVE RunsLeft'
  <2>1. Busy' = Busy \ {c} /\ c \in Busy
    BY <1>2 DEF Insert, Busy, TypeOK
  <2>2. Cardinality(Busy') = Cardinality(Busy) - 1
    BY <2>1, StartersCounted, FS_RemoveElement
  <2>3. QED
    BY <1>2, <2>2, StartersCounted DEF Insert, TypeOK
<1>3. ASSUME NEW c \in Starters, NEW t \in Ids, Start(c, t) PROVE RunsLeft'
  <2>1. Busy' = Busy \cup {c} /\ c \notin Busy
    BY <1>3, NoneIsNothing DEF Start, Busy, TypeOK
  <2>2. Cardinality(Busy') = Cardinality(Busy) + 1
    BY <2>1, StartersCounted, FS_AddElement
  <2>3. last + Cardinality(Busy) < MaxRuns /\ last' = last
    BY <1>3 DEF Start, Busy
  <2>4. QED
    BY <2>2, <2>3, StartersCounted DEF TypeOK
<1>4. ASSUME NEW g \in Runs, Listen(g) PROVE RunsLeft'
  BY <1>4 DEF Listen, Goto, Busy
<1>5. ASSUME NEW g \in Runs, Accept(g) PROVE RunsLeft'
  BY <1>5 DEF Accept, Goto, Forward, Busy
<1>6. ASSUME NEW g \in Runs, Handshake(g) PROVE RunsLeft'
  BY <1>6 DEF Handshake, Goto, Forward, Busy
<1>7. ASSUME NEW g \in Runs, Break(g) PROVE RunsLeft'
  BY <1>7 DEF Break, Goto, Busy
<1>8. ASSUME NEW g \in Runs, Leave(g) PROVE RunsLeft'
  BY <1>8 DEF Leave, Goto, Busy
<1>9. ASSUME NEW g \in Runs, Report(g) PROVE RunsLeft'
  BY <1>9 DEF Report, Goto, Busy
<1>10. ASSUME NEW g \in Runs, Finish(g) PROVE RunsLeft'
  BY <1>10 DEF Finish, Goto, Busy
<1>11. ASSUME NEW c \in Conns, Connect(c) PROVE RunsLeft'
  BY <1>11 DEF Connect, Busy
<1>12. ASSUME NEW c \in Conns, Pump(c) PROVE RunsLeft'
  BY <1>12 DEF Pump, Busy
<1>13. ASSUME NEW c \in Conns, PumpEnds(c) PROVE RunsLeft'
  BY <1>13 DEF PumpEnds, Busy
<1>14. ASSUME NEW c \in Conns, PeerMoves(c) PROVE RunsLeft'
  BY <1>14 DEF PeerMoves, Busy
<1>15. QED
  BY <1>0, <1>1, <1>2, <1>3, <1>4, <1>5, <1>6, <1>7, <1>8, <1>9, <1>10, <1>11,
     <1>12, <1>13, <1>14 DEF Next

LEMMA StepBegins ==
  ASSUME TypeOK, RunsLeft, RunsBegin, [Next]_vars
  PROVE  RunsBegin'
<1> USE DEF TypeOK, RunsBegin, calls, connections
<1>0. CASE UNCHANGED vars
  BY <1>0 DEF vars
<1>1. ASSUME NEW ids \in {{t} : t \in Ids} \cup {Ids}, Stop(ids) PROVE RunsBegin'
  BY <1>1 DEF Stop, Clear
<1>2. ASSUME NEW c \in Starters, Insert(c) PROVE RunsBegin'
  <2>1. last + 1 \in Runs /\ starting[c] \in Ids /\ last \in Nat
    BY <1>2, RoomForInsert, NoneIsNothing DEF Insert, TypeOK
  <2>2. QED
    BY <1>2, <2>1, NoneIsNothing DEF Insert, Runs
<1>3. ASSUME NEW c \in Starters, NEW t \in Ids, Start(c, t) PROVE RunsBegin'
  BY <1>3 DEF Start, StopFirst, Clear
<1>4. ASSUME NEW g \in Runs, Listen(g) PROVE RunsBegin'
  BY <1>4 DEF Listen, Goto
<1>5. ASSUME NEW g \in Runs, Accept(g) PROVE RunsBegin'
  BY <1>5 DEF Accept, Goto, Forward
<1>6. ASSUME NEW g \in Runs, Handshake(g) PROVE RunsBegin'
  BY <1>6 DEF Handshake, Goto, Forward
<1>7. ASSUME NEW g \in Runs, Break(g) PROVE RunsBegin'
  BY <1>7 DEF Break, Goto
<1>8. ASSUME NEW g \in Runs, Leave(g) PROVE RunsBegin'
  BY <1>8 DEF Leave, Goto
<1>9. ASSUME NEW g \in Runs, Report(g) PROVE RunsBegin'
  BY <1>9 DEF Report, Goto
<1>10. ASSUME NEW g \in Runs, Finish(g) PROVE RunsBegin'
  BY <1>10 DEF Finish, Goto
<1>11. ASSUME NEW c \in Conns, Connect(c) PROVE RunsBegin'
  BY <1>11 DEF Connect
<1>12. ASSUME NEW c \in Conns, Pump(c) PROVE RunsBegin'
  BY <1>12 DEF Pump
<1>13. ASSUME NEW c \in Conns, PumpEnds(c) PROVE RunsBegin'
  BY <1>13 DEF PumpEnds
<1>14. ASSUME NEW c \in Conns, PeerMoves(c) PROVE RunsBegin'
  BY <1>14 DEF PeerMoves
<1>15. QED
  BY <1>0, <1>1, <1>2, <1>3, <1>4, <1>5, <1>6, <1>7, <1>8, <1>9, <1>10, <1>11,
     <1>12, <1>13, <1>14 DEF Next

LEMMA StepHasCause ==
  ASSUME TypeOK, RunsLeft, RunsBegin, LeavingHasCause, FailureLeavesError,
         [Next]_vars
  PROVE  LeavingHasCause'
<1> USE DEF TypeOK, LeavingHasCause, calls, connections
<1>0. CASE UNCHANGED vars
  BY <1>0 DEF vars
<1>1. ASSUME NEW ids \in {{t} : t \in Ids} \cup {Ids}, Stop(ids) PROVE LeavingHasCause'
  BY <1>1 DEF Stop, Clear
<1>2. ASSUME NEW c \in Starters, Insert(c) PROVE LeavingHasCause'
  <2>1. last + 1 \in Runs /\ starting[c] \in Ids /\ last \in Nat
    BY <1>2, RoomForInsert, NoneIsNothing DEF Insert, TypeOK
  <2>2. QED
    BY <1>2, <2>1, NoneIsNothing DEF Insert, Runs
<1>3. ASSUME NEW c \in Starters, NEW t \in Ids, Start(c, t) PROVE LeavingHasCause'
  BY <1>3 DEF Start, StopFirst, Clear
<1>4. ASSUME NEW g \in Runs, Listen(g) PROVE LeavingHasCause'
  BY <1>4 DEF Listen, Goto
<1>5. ASSUME NEW g \in Runs, Accept(g) PROVE LeavingHasCause'
  BY <1>5 DEF Accept, Goto, Forward
<1>6. ASSUME NEW g \in Runs, Handshake(g) PROVE LeavingHasCause'
  BY <1>6 DEF Handshake, Goto, Forward
<1>7. ASSUME NEW g \in Runs, Break(g) PROVE LeavingHasCause'
  BY <1>7 DEF Break, Goto
<1>8. ASSUME NEW g \in Runs, Leave(g) PROVE LeavingHasCause'
  BY <1>8 DEF Leave, Goto, RunsBegin, FailureLeavesError, Runs
<1>9. ASSUME NEW g \in Runs, Report(g) PROVE LeavingHasCause'
  BY <1>9 DEF Report, Goto
<1>10. ASSUME NEW g \in Runs, Finish(g) PROVE LeavingHasCause'
  BY <1>10 DEF Finish, Goto
<1>11. ASSUME NEW c \in Conns, Connect(c) PROVE LeavingHasCause'
  BY <1>11 DEF Connect
<1>12. ASSUME NEW c \in Conns, Pump(c) PROVE LeavingHasCause'
  BY <1>12 DEF Pump
<1>13. ASSUME NEW c \in Conns, PumpEnds(c) PROVE LeavingHasCause'
  BY <1>13 DEF PumpEnds
<1>14. ASSUME NEW c \in Conns, PeerMoves(c) PROVE LeavingHasCause'
  BY <1>14 DEF PeerMoves
<1>15. QED
  BY <1>0, <1>1, <1>2, <1>3, <1>4, <1>5, <1>6, <1>7, <1>8, <1>9, <1>10, <1>11,
     <1>12, <1>13, <1>14 DEF Next

LEMMA StepLeavesError ==
  ASSUME TypeOK, RunsLeft, RunsBegin, LeavingHasCause, FailureLeavesError,
         [Next]_vars
  PROVE  FailureLeavesError'
<1> USE DEF TypeOK, FailureLeavesError, Runs, calls, connections
<1>0. CASE UNCHANGED vars
  BY <1>0 DEF vars
<1>1. ASSUME NEW ids \in {{t} : t \in Ids} \cup {Ids}, Stop(ids) PROVE FailureLeavesError'
  BY <1>1, NoneIsNothing DEF Stop, Clear
<1>2. ASSUME NEW c \in Starters, Insert(c) PROVE FailureLeavesError'
  <2>1. last + 1 \in Runs /\ starting[c] \in Ids /\ last \in Nat
    BY <1>2, RoomForInsert, NoneIsNothing DEF Insert, TypeOK
  <2>2. QED
    BY <1>2, <2>1, NoneIsNothing DEF Insert, Runs
<1>3. ASSUME NEW c \in Starters, NEW t \in Ids, Start(c, t) PROVE FailureLeavesError'
  BY <1>3, NoneIsNothing DEF Start, StopFirst, Clear
<1>4. ASSUME NEW g \in Runs, Listen(g) PROVE FailureLeavesError'
  BY <1>4, NoneIsNothing DEF Listen, Goto
<1>5. ASSUME NEW g \in Runs, Accept(g) PROVE FailureLeavesError'
  BY <1>5, NoneIsNothing DEF Accept, Goto, Forward
<1>6. ASSUME NEW g \in Runs, Handshake(g) PROVE FailureLeavesError'
  BY <1>6, NoneIsNothing DEF Handshake, Goto, Forward
<1>7. ASSUME NEW g \in Runs, Break(g) PROVE FailureLeavesError'
  BY <1>7, NoneIsNothing DEF Break, Goto
<1>8. ASSUME NEW g \in Runs, Leave(g) PROVE FailureLeavesError'
  BY <1>8, NoneIsNothing DEF Leave, Goto
<1>9. ASSUME NEW g \in Runs, Report(g) PROVE FailureLeavesError'
  BY <1>9, NoneIsNothing DEF Report, Goto
<1>10. ASSUME NEW g \in Runs, Finish(g) PROVE FailureLeavesError'
  BY <1>10, NoneIsNothing DEF Finish, Goto, LeavingHasCause
<1>11. ASSUME NEW c \in Conns, Connect(c) PROVE FailureLeavesError'
  BY <1>11, NoneIsNothing DEF Connect
<1>12. ASSUME NEW c \in Conns, Pump(c) PROVE FailureLeavesError'
  BY <1>12, NoneIsNothing DEF Pump
<1>13. ASSUME NEW c \in Conns, PumpEnds(c) PROVE FailureLeavesError'
  BY <1>13, NoneIsNothing DEF PumpEnds
<1>14. ASSUME NEW c \in Conns, PeerMoves(c) PROVE FailureLeavesError'
  BY <1>14, NoneIsNothing DEF PeerMoves
<1>15. QED
  BY <1>0, <1>1, <1>2, <1>3, <1>4, <1>5, <1>6, <1>7, <1>8, <1>9, <1>10, <1>11,
     <1>12, <1>13, <1>14 DEF Next

LEMMA ForwardIsNew ==
  ASSUME TypeOK, RunsBegin, ConnectionsInv,
         NEW g \in Runs, thread[g] # "none", Forward(g), UNCHANGED <<running, last>>
  PROVE  ConnectionsInv'
<1> USE DEF ConnectionsInv
<1>1. PICK c \in Conns : /\ pipe' = [pipe EXCEPT ![c].phase = "connecting"]
                         /\ owner' = [owner EXCEPT ![c] = g]
  BY DEF Forward
<1>2. Sound([pipe[c] EXCEPT !.phase = "connecting"])
  BY PhaseIsFree DEF PipesAreSound, Phases
<1>3. [pipe[c] EXCEPT !.phase = "connecting"].phase = "connecting"
  BY DEF TypeOK, Pipes
<1>4. g \in 1 .. last
  BY NoneIsNothing DEF TypeOK, RunsBegin, Runs
<1>5. \A d \in Conns \ {c} : pipe'[d] = pipe[d] /\ owner'[d] = owner[d]
  BY <1>1 DEF TypeOK
<1>6. pipe'[c] = [pipe[c] EXCEPT !.phase = "connecting"] /\ owner'[c] = g
  BY <1>1 DEF TypeOK
<1>7. QED
  BY <1>2, <1>3, <1>4, <1>5, <1>6 DEF PipesAreSound, OwnersBegan, EndIsComplete

LEMMA StepKeepsPipes ==
  ASSUME TypeOK, RunsLeft, RunsBegin, ConnectionsInv, [Next]_vars
  PROVE  ConnectionsInv'
<1> USE DEF ConnectionsInv, TypeOK, PipesAreSound, OwnersBegan, EndIsComplete, calls,
           connections
<1>0. CASE UNCHANGED vars
  BY <1>0 DEF vars
<1>1. ASSUME NEW ids \in {{t} : t \in Ids} \cup {Ids}, Stop(ids) PROVE ConnectionsInv'
  <2>1. \A g \in Runs : running'[g] => running[g]
    BY <1>1 DEF Stop, Clear
  <2>2. \A g \in 1 .. last : g \in Runs
    BY NoneIsNothing DEF Runs
  <2>3. UNCHANGED <<connections, last>>
    BY <1>1 DEF Stop, Clear
  <2>4. QED
    BY <2>1, <2>2, <2>3
<1>2. ASSUME NEW c \in Starters, Insert(c) PROVE ConnectionsInv'
  <2>1. last + 1 \in Runs /\ last \in Nat
    BY <1>2, RoomForInsert, NoneIsNothing DEF Insert, TypeOK
  <2>2. /\ last' = last + 1 /\ UNCHANGED connections
        /\ running' = [running EXCEPT ![last + 1] = TRUE]
    BY <1>2 DEF Insert
  <2>3. \A g \in 1 .. last : g # last + 1 /\ g \in Runs /\ g \in 1 .. last'
    BY <2>1, <2>2, NoneIsNothing DEF Runs
  <2>4. \A g \in 1 .. last : running'[g] = running[g] /\ g \in 1 .. last'
    BY <2>2, <2>3
  <2>5. QED
    BY <2>2, <2>4
<1>3. ASSUME NEW c \in Starters, NEW t \in Ids, Start(c, t) PROVE ConnectionsInv'
  <2>1. \A g \in Runs : running'[g] => running[g]
    BY <1>3 DEF Start, StopFirst, Clear
  <2>2. \A g \in 1 .. last : g \in Runs
    BY NoneIsNothing DEF Runs
  <2>3. UNCHANGED <<connections, last>>
    BY <1>3 DEF Start, StopFirst, Clear
  <2>4. QED
    BY <2>1, <2>2, <2>3
<1>4. ASSUME NEW g \in Runs, Listen(g) PROVE ConnectionsInv'
  BY <1>4 DEF Listen, Goto
<1>5. ASSUME NEW g \in Runs, Accept(g) PROVE ConnectionsInv'
  <2>1. thread[g] # "none" /\ UNCHANGED <<running, last>>
    BY <1>5 DEF Accept
  <2>2. CASE Forward(g)
    BY <2>1, <2>2, ForwardIsNew
  <2>3. CASE UNCHANGED connections
    BY <2>1, <2>3
  <2>4. QED
    BY <1>5, <2>2, <2>3 DEF Accept
<1>6. ASSUME NEW g \in Runs, Handshake(g) PROVE ConnectionsInv'
  <2>1. thread[g] # "none" /\ UNCHANGED <<running, last>>
    BY <1>6 DEF Handshake
  <2>2. CASE Forward(g)
    BY <2>1, <2>2, ForwardIsNew
  <2>3. CASE UNCHANGED connections
    BY <2>1, <2>3
  <2>4. QED
    BY <1>6, <2>2, <2>3 DEF Handshake
<1>7. ASSUME NEW g \in Runs, Break(g) PROVE ConnectionsInv'
  BY <1>7 DEF Break, Goto
<1>8. ASSUME NEW g \in Runs, Leave(g) PROVE ConnectionsInv'
  BY <1>8 DEF Leave, Goto
<1>9. ASSUME NEW g \in Runs, Report(g) PROVE ConnectionsInv'
  BY <1>9 DEF Report, Goto
<1>10. ASSUME NEW g \in Runs, Finish(g) PROVE ConnectionsInv'
  BY <1>10 DEF Finish, Goto
<1>11. ASSUME NEW c \in Conns, Connect(c) PROVE ConnectionsInv'
  <2>1. PICK p : Sound(p) /\ pipe' = [pipe EXCEPT ![c] = p] /\ p.phase # "done"
    <3>1. PICK phase \in {"pumping", "failed"} : pipe' = [pipe EXCEPT ![c].phase = phase]
      BY <1>11 DEF Connect
    <3>2. [pipe[c] EXCEPT !.phase = phase].phase = phase
      BY DEF TypeOK, Pipes
    <3>3. QED
      BY <3>1, <3>2, PhaseIsFree DEF PipesAreSound, Phases, TypeOK
  <2>2. pipe'[c] = p /\ pipe[c].phase # "unused" /\ \A d \in Conns \ {c} : pipe'[d] = pipe[d]
    BY <1>11, <2>1 DEF Connect, TypeOK, Pumping, Over
  <2>3. QED
    BY <1>11, <2>1, <2>2 DEF Connect
<1>12. ASSUME NEW c \in Conns, Pump(c) PROVE ConnectionsInv'
  <2>1. PICK p : Sound(p) /\ pipe' = [pipe EXCEPT ![c] = p] /\ p.phase # "done"
    BY <1>12, IterateKeepsSound, IteratePhase DEF Pump, Pumping, PipesAreSound
  <2>2. pipe'[c] = p /\ pipe[c].phase # "unused" /\ \A d \in Conns \ {c} : pipe'[d] = pipe[d]
    BY <1>12, <2>1 DEF Pump, TypeOK, Pumping, Over
  <2>3. QED
    BY <1>12, <2>1, <2>2 DEF Pump
<1>13. ASSUME NEW c \in Conns, PumpEnds(c) PROVE ConnectionsInv'
  <2>1. PICK p : Sound(p) /\ pipe' = [pipe EXCEPT ![c] = p] /\ (running[owner[c]] => Complete(p))
    <3>1. Sound([pipe[c] EXCEPT !.phase = "done"])
      BY PhaseIsFree DEF PipesAreSound, Phases
    <3>2. running[owner[c]] => Complete(pipe[c])
      BY <1>13, Numbers DEF PumpEnds, Continues, ChannelEof, Complete, PipesAreSound, Sound, Faithful
    <3>3. running[owner[c]] => Complete([pipe[c] EXCEPT !.phase = "done"])
      BY <3>2 DEF Complete, TypeOK, Pipes
    <3>4. QED
      BY <1>13, <3>1, <3>3 DEF PumpEnds
  <2>2. pipe'[c] = p /\ pipe[c].phase # "unused" /\ \A d \in Conns \ {c} : pipe'[d] = pipe[d]
    BY <1>13, <2>1 DEF PumpEnds, TypeOK, Pumping, Over
  <2>3. QED
    BY <1>13, <2>1, <2>2 DEF PumpEnds
<1>14. ASSUME NEW c \in Conns, PeerMoves(c) PROVE ConnectionsInv'
  <2>1. PICK p : Sound(p) /\ pipe' = [pipe EXCEPT ![c] = p] /\ p.phase # "done"
    BY <1>14, PeersKeepSound, PeersPhase DEF PeerMoves, PipesAreSound, Over
  <2>2. pipe'[c] = p /\ pipe[c].phase # "unused" /\ \A d \in Conns \ {c} : pipe'[d] = pipe[d]
    BY <1>14, <2>1 DEF PeerMoves, TypeOK, Pumping, Over
  <2>3. QED
    BY <1>14, <2>1, <2>2 DEF PeerMoves
<1>15. QED
  BY <1>0, <1>1, <1>2, <1>3, <1>4, <1>5, <1>6, <1>7, <1>8, <1>9, <1>10, <1>11,
     <1>12, <1>13, <1>14 DEF Next

-----------------------------------------------------------------------------
(* With one starter, as when one click follows the other's reply, the table *)
(* names whatever runs.                                                    *)

\* A start that is under way has stopped what ran for its tunnel.
PlaceIsFree ==
  \A c \in Starters : starting[c] # None =>
    \A g \in Runs : running[g] => tunnel[g] # starting[c]

LatestInv == OnlyLatestRuns /\ PlaceIsFree

LEMMA StepKeepsLatest ==
  ASSUME NEW s, Starters = {s}, TypeOK, RunsLeft, RunsBegin, LatestInv, [Next]_vars
  PROVE  LatestInv'
<1> USE DEF LatestInv, OnlyLatestRuns, PlaceIsFree, calls, connections
<1>0. CASE UNCHANGED vars
  BY <1>0 DEF vars
<1>1. ASSUME NEW ids \in {{t} : t \in Ids} \cup {Ids}, Stop(ids) PROVE LatestInv'
  <2>1. \A g \in Runs : running'[g] => running[g]
    BY <1>1 DEF Stop, Clear
  <2>2. QED
    BY <1>1, <2>1 DEF Stop
<1>2. ASSUME NEW c \in Starters, Insert(c) PROVE LatestInv'
  <2>1. last + 1 \in Runs /\ starting[c] \in Ids
    BY <1>2, RoomForInsert DEF Insert, TypeOK
  <2>2. starting'[c] = None
    BY <1>2 DEF Insert, TypeOK
  <2>3. running'[last + 1] /\ tunnel'[last + 1] = starting[c] /\ runtimes'[starting[c]] = last + 1
    BY <1>2, <2>1 DEF Insert, TypeOK
  <2>4. \A g \in Runs \ {last + 1} :
          running'[g] => running[g] /\ tunnel'[g] = tunnel[g] /\ tunnel[g] # starting[c]
    BY <1>2, <2>1 DEF Insert, TypeOK
  <2>5. \A t \in Ids \ {starting[c]} : runtimes'[t] = runtimes[t]
    BY <1>2 DEF Insert, TypeOK
  <2>6. \A g \in Runs \ {last + 1} : running[g] => tunnel[g] \in Ids
    BY DEF RunsBegin, TypeOK, Runs
  <2>7. QED
    BY <2>2, <2>3, <2>4, <2>5, <2>6
<1>3. ASSUME NEW c \in Starters, NEW t \in Ids, Start(c, t) PROVE LatestInv'
  <2>1. \A g \in Runs : running'[g] => running[g] /\ g # runtimes[t]
    BY <1>3, NoneIsNothing DEF Start, StopFirst, Clear
  <2>2. \A g \in Runs : running'[g] => tunnel[g] # t
    BY <2>1
  <2>3. starting'[c] = t /\ UNCHANGED <<runtimes, tunnel>>
    BY <1>3 DEF Start, TypeOK
  <2>4. QED
    BY <2>1, <2>2, <2>3
<1>4. ASSUME NEW g \in Runs, Listen(g) PROVE LatestInv'
  BY <1>4 DEF Listen, Goto
<1>5. ASSUME NEW g \in Runs, Accept(g) PROVE LatestInv'
  BY <1>5 DEF Accept, Goto, Forward
<1>6. ASSUME NEW g \in Runs, Handshake(g) PROVE LatestInv'
  BY <1>6 DEF Handshake, Goto, Forward
<1>7. ASSUME NEW g \in Runs, Break(g) PROVE LatestInv'
  BY <1>7 DEF Break, Goto
<1>8. ASSUME NEW g \in Runs, Leave(g) PROVE LatestInv'
  BY <1>8 DEF Leave, Goto
<1>9. ASSUME NEW g \in Runs, Report(g) PROVE LatestInv'
  BY <1>9 DEF Report, Goto
<1>10. ASSUME NEW g \in Runs, Finish(g) PROVE LatestInv'
  BY <1>10 DEF Finish, Goto, TypeOK
<1>11. ASSUME NEW c \in Conns, Connect(c) PROVE LatestInv'
  BY <1>11 DEF Connect
<1>12. ASSUME NEW c \in Conns, Pump(c) PROVE LatestInv'
  BY <1>12 DEF Pump
<1>13. ASSUME NEW c \in Conns, PumpEnds(c) PROVE LatestInv'
  BY <1>13 DEF PumpEnds
<1>14. ASSUME NEW c \in Conns, PeerMoves(c) PROVE LatestInv'
  BY <1>14 DEF PeerMoves
<1>15. QED
  BY <1>0, <1>1, <1>2, <1>3, <1>4, <1>5, <1>6, <1>7, <1>8, <1>9, <1>10, <1>11,
     <1>12, <1>13, <1>14 DEF Next

-----------------------------------------------------------------------------
(* The theorems.                                                           *)

LEMMA Inductive == IInv /\ [Next]_vars => IInv'
<1> SUFFICES ASSUME IInv, [Next]_vars PROVE IInv'
  OBVIOUS
<1>1. /\ TypeOK /\ RunsLeft /\ RunsBegin /\ LeavingHasCause
      /\ FailureLeavesError /\ ConnectionsInv /\ PipesAreSound
  BY DEF IInv, ConnectionsInv
<1>2. TypeOK' /\ RunsLeft' /\ RunsBegin'
  BY <1>1, StepTyped, StepLeavesRuns, StepBegins
<1>3. LeavingHasCause' /\ FailureLeavesError'
  BY <1>1, StepHasCause, StepLeavesError
<1>4. ConnectionsInv'
  BY <1>1, StepKeepsPipes
<1>5. QED
  BY <1>2, <1>3, <1>4 DEF IInv

LEMMA Invariance == Spec => []IInv
BY InitEstablishes, Inductive, PTL DEF Spec

\* The tables, flags, threads and connections keep their types; a start always
\* finds a number for its run.
THEOREM TypeCorrect == Spec => []TypeOK
<1>1. IInv => TypeOK
  BY DEF IInv
<1>2. QED
  BY <1>1, Invariance, PTL

\* A run that is over was stopped, or its error is there to be shown: the
\* message is stored before the flag is cleared.
THEOREM FailuresLeaveErrors == Spec => []FailureLeavesError
<1>1. IInv => FailureLeavesError
  BY DEF IInv
<1>2. QED
  BY <1>1, Invariance, PTL

\* With one start at a time, only the run the table names goes on.
THEOREM LatestAloneRuns ==
  ASSUME NEW s, Starters = {s}
  PROVE  Spec => []OnlyLatestRuns
<1>1. Init => LatestInv
  BY DEF Init, LatestInv, OnlyLatestRuns, PlaceIsFree
<1>2. IInv /\ LatestInv /\ [Next]_vars => LatestInv'
  BY StepKeepsLatest DEF IInv
<1>3. LatestInv => OnlyLatestRuns
  BY DEF LatestInv
<1>4. QED
  BY <1>1, <1>2, <1>3, Invariance, PTL DEF Spec

\* No pump loses, doubles or invents a byte, or tells the channel of the end
\* of the socket too early, however its reads and writes are cut.
THEOREM PumpsAreFaithful == Spec => []PumpIsFaithful
<1>1. IInv => PumpIsFaithful
  BY DEF IInv, ConnectionsInv, PipesAreSound, Sound, PumpIsFaithful
<1>2. QED
  BY <1>1, Invariance, PTL

\* A connection that ends well while its tunnel runs has delivered what the
\* remote end sent.
THEOREM EndsAreComplete == Spec => []EndIsComplete
<1>1. IInv => EndIsComplete
  BY DEF IInv, ConnectionsInv
<1>2. QED
  BY <1>1, Invariance, PTL
=============================================================================
