----------------------------- MODULE TunnelPump -----------------------------
(***************************************************************************)
(* tunnels.rs, pump: one thread carries the bytes of a TCP socket and of   *)
(* an SSH channel in both directions through two buffers, neither side     *)
(* blocking.  As operators on a record: what an iteration can turn it into.*)
(*                                                                         *)
(* Bytes are counted.  Both buffers are first in, first out, so counts say *)
(* which bytes are where.  The local program sends on the socket, the      *)
(* remote one on the channel; each may end its stream.                     *)
(***************************************************************************)
EXTENDS Naturals

CONSTANTS MaxUp,    \* bound: bytes the local program sends
          MaxDown,  \* bound: bytes the remote program sends
          Cap,      \* a buffer this full is not read into (256 KiB)
          Chunk     \* most bytes of one read (32 KiB)

ASSUME PumpAssumption == MaxUp \in Nat /\ MaxDown \in Nat /\ Cap \in Nat \ {0} /\ Chunk \in Nat \ {0}

Phases == {"unused", "connecting", "pumping", "done", "failed"}

Pipes ==
  [phase : Phases,
   sentUp : 0 .. MaxUp, readUp : 0 .. MaxUp, toSsh : 0 .. MaxUp, gotUp : 0 .. MaxUp,
   sentDown : 0 .. MaxDown, readDown : 0 .. MaxDown, toSocket : 0 .. MaxDown, gotDown : 0 .. MaxDown,
   finUp : BOOLEAN,      \* the local program has ended its stream
   socketEof : BOOLEAN,  \* and the pump has seen it
   eofSent : BOOLEAN,    \* and told the channel
   finDown : BOOLEAN]    \* the remote end of the channel has sent its EOF

Unused ==
  [phase |-> "unused",
   sentUp |-> 0, readUp |-> 0, toSsh |-> 0, gotUp |-> 0,
   sentDown |-> 0, readDown |-> 0, toSocket |-> 0, gotDown |-> 0,
   finUp |-> FALSE, socketEof |-> FALSE, eofSent |-> FALSE, finDown |-> FALSE]

Pumping(p) == p.phase = "pumping"
Over(p) == p.phase \in {"unused", "done", "failed"}

UpTo(n) == {i \in 1 .. Chunk : i <= n}
-----------------------------------------------------------------------------
(* The programs at the two ends.                                           *)

Peers(p) ==
  {[p EXCEPT !.sentUp = @ + 1] : i \in IF p.finUp \/ p.sentUp = MaxUp THEN {} ELSE {1}}
  \cup {[p EXCEPT !.sentDown = @ + 1] : i \in IF p.finDown \/ p.sentDown = MaxDown THEN {} ELSE {1}}
  \cup {[p EXCEPT !.finUp = TRUE], [p EXCEPT !.finDown = TRUE]}
-----------------------------------------------------------------------------
(* The loop.  Every read and write may also end the pump with an error.    *)

Fail(p) == [Unused EXCEPT !.phase = "failed"]

\* libssh2 reports the end of a channel once its data are read.
ChannelEof(p) == p.finDown /\ p.readDown = p.sentDown

\* MUTANT of Continues: what the socket has not taken yet is not waited for.
StopsAtEof(p, running) == running /\ ~ChannelEof(p)

\* MUTANT of Continues: the flag is not looked at.
RunsOn(p, running) == ~ChannelEof(p) \/ p.toSocket > 0

Continues(p, running) == running /\ (~ChannelEof(p) \/ p.toSocket > 0)

\* Read the socket, unless it has ended or the buffer is full.
ReadSocket(p) ==
  LET unread == p.sentUp - p.readUp
  IN  IF p.socketEof \/ p.toSsh >= Cap THEN {p}
      ELSE IF unread = 0 THEN {[p EXCEPT !.socketEof = p.finUp], Fail(p)}
      ELSE {[p EXCEPT !.readUp = @ + n, !.toSsh = @ + n] : n \in UpTo(unread)} \cup {Fail(p)}

\* MUTANT of Ended: the end of the socket is passed on before its data.
EndedEarly(p) == p.socketEof

Ended(p) == p.socketEof /\ p.toSsh = 0

\* MUTANT of Sent: a partial write empties the buffer.
SentAll(p, n) == [p EXCEPT !.toSsh = 0, !.gotUp = @ + n]

Sent(p, n) == [p EXCEPT !.toSsh = @ - n, !.gotUp = @ + n]

\* Write what fits to the channel, and its EOF once the socket has ended and
\* everything is written.
WriteChannel(p) ==
  {[Sent(p, n) EXCEPT !.eofSent = @ \/ Ended(Sent(p, n))] : n \in 0 .. p.toSsh}
  \cup IF p.toSsh > 0 THEN {Fail(p)} ELSE {}

\* Read the channel, unless it has ended or the buffer is full.
ReadChannel(p) ==
  LET unread == p.sentDown - p.readDown
  IN  IF ChannelEof(p) \/ p.toSocket >= Cap THEN {p}
      ELSE IF unread = 0 THEN {p, Fail(p)}
      ELSE {[p EXCEPT !.readDown = @ + n, !.toSocket = @ + n] : n \in UpTo(unread)} \cup {Fail(p)}

\* Write what fits to the socket.
WriteSocket(p) ==
  {[p EXCEPT !.toSocket = @ - n, !.gotDown = @ + n] : n \in 0 .. p.toSocket}
  \cup IF p.toSocket > 0 THEN {Fail(p)} ELSE {}

\* One part of an iteration after another, unless the pump has failed.
Then(pipes, Part(_)) == UNION {IF q.phase = "failed" THEN {q} ELSE Part(q) : q \in pipes}

\* What the peers and a stop do during an iteration, the next one finds.
Iterate(p) == Then(Then(Then(ReadSocket(p), WriteChannel), ReadChannel), WriteSocket)
-----------------------------------------------------------------------------
\* Nothing is lost, doubled or invented on the way, and the channel hears of
\* the end of the socket after its last byte.
Faithful(p) ==
  /\ p.readUp = p.toSsh + p.gotUp /\ p.readUp <= p.sentUp
  /\ p.readDown = p.toSocket + p.gotDown /\ p.readDown <= p.sentDown
  /\ p.eofSent => p.finUp /\ p.gotUp = p.sentUp

\* The local program has received everything the remote one sent.
Complete(p) == p.finDown /\ p.gotDown = p.sentDown
=============================================================================
