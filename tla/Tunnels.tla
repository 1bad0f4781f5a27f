------------------------------- MODULE Tunnels -------------------------------
(***************************************************************************)
(* Tunnels of tunnels.rs: the table RUNTIMES, the calls that start and     *)
(* stop, the thread of every start with its listener, and a thread per     *)
(* forwarded connection running TunnelPump.                                *)
(*                                                                         *)
(* Commands run on threads of their own.  start takes the table's lock     *)
(* twice: to stop the runtime it finds and to insert the new one.  Every   *)
(* start is a run of its own, numbered in the order of insertion.          *)
(***************************************************************************)
EXTENDS TunnelPump, FiniteSets

CONSTANTS Ids,       \* saved tunnels
          Socks,     \* of kind socks: the handshake blocks the listener
          Remote,    \* of kind remote: the listener is on the server
          Starters,  \* threads of commands that call start
          MaxRuns,   \* bound: starts in a behaviour
          Conns,     \* bound: forwarded connections
          None

Runs == 1 .. MaxRuns

ASSUME TunnelsAssumption ==
  /\ Socks \subseteq Ids /\ Remote \subseteq Ids \ Socks
  /\ IsFiniteSet(Starters)
  /\ MaxRuns \in Nat
  /\ None \notin Ids \cup Runs

VARIABLES
  runtimes,  \* RUNTIMES: the run inserted last for each tunnel, or None
  starting,  \* per starter: the tunnel it is starting, between the two locks
  last,      \* how many runs were inserted
  tunnel,    \* the tunnel of each run
  running,   \* Runtime.running of each run
  error,     \* whether Runtime.error of each run holds a message
  thread,    \* where the thread of each run is
  stopped,   \* history: runs a stop was meant for
  owner,     \* the run of each connection
  pipe       \* each connection, a record of TunnelPump

vars == <<runtimes, starting, last, tunnel, running, error, thread, stopped, owner, pipe>>
calls == <<runtimes, starting, last, tunnel, stopped>>
connections == <<owner, pipe>>

Init ==
  /\ runtimes = [t \in Ids |-> None]
  /\ starting = [c \in Starters |-> None]
  /\ last = 0
  /\ tunnel = [g \in Runs |-> None]
  /\ running = [g \in Runs |-> FALSE]
  /\ error = [g \in Runs |-> FALSE]
  /\ thread = [g \in Runs |-> "none"]
  /\ stopped = {}
  /\ owner = [c \in Conns |-> None]
  /\ pipe = [c \in Conns |-> Unused]
-----------------------------------------------------------------------------
(* Calls.                                                                  *)

\* The flags of the runtimes in the table for some tunnels are cleared.
Clear(ids) ==
  LET hit == {runtimes[t] : t \in ids} \ {None}
  IN  /\ running' = [g \in Runs |-> running[g] /\ g \notin hit]
      /\ stopped' = stopped \cup hit

\* stop, and stop_all (the vault is locked or reset).
Stop(ids) ==
  /\ Clear(ids)
  /\ UNCHANGED <<runtimes, starting, last, tunnel, error, thread, connections>>

\* MUTANT of StopFirst: the runtime in the table is left running.
StopNothing(t) == UNCHANGED <<running, stopped>>

StopFirst(t) == Clear({t})

\* start: the tunnel is stopped,
Start(c, t) ==
  /\ starting[c] = None
  /\ last + Cardinality({d \in Starters : starting[d] # None}) < MaxRuns
  /\ StopFirst(t)
  /\ starting' = [starting EXCEPT ![c] = t]
  /\ UNCHANGED <<runtimes, last, tunnel, error, thread, connections>>

\* and a new runtime and its thread take its place.
Insert(c) ==
  /\ starting[c] # None
  /\ LET g == last + 1
     IN  /\ runtimes' = [runtimes EXCEPT ![starting[c]] = g]
         /\ tunnel' = [tunnel EXCEPT ![g] = starting[c]]
         /\ running' = [running EXCEPT ![g] = TRUE]
         /\ thread' = [thread EXCEPT ![g] = "starting"]
         /\ last' = g
  /\ starting' = [starting EXCEPT ![c] = None]
  /\ UNCHANGED <<error, stopped, connections>>
-----------------------------------------------------------------------------
(* The thread of a run.                                                    *)

Listening(g) == thread[g] \in {"serving", "handshake"}
Goto(g, place) == thread' = [thread EXCEPT ![g] = place]

\* The port of a local tunnel is bound, if no thread listens on it already;
\* a remote one connects, however long that takes, and asks for the port.
Listen(g) ==
  /\ thread[g] = "starting"
  /\ \/ /\ tunnel[g] \notin Remote => \A h \in Runs : Listening(h) => tunnel[h] # tunnel[g]
        /\ Goto(g, "serving")
     \/ Goto(g, "failed")
  /\ UNCHANGED <<calls, running, error, connections>>

\* A thread of its own for an accepted connection.
Forward(g) ==
  \E c \in Conns :
    /\ pipe[c] = Unused
    /\ pipe' = [pipe EXCEPT ![c].phase = "connecting"]
    /\ owner' = [owner EXCEPT ![c] = g]

\* A connection is accepted.
Accept(g) ==
  /\ thread[g] = "serving" /\ running[g]
  /\ \/ tunnel[g] \in Socks /\ Goto(g, "handshake") /\ UNCHANGED connections
     \/ tunnel[g] \notin Socks /\ Forward(g) /\ UNCHANGED thread
  /\ UNCHANGED <<calls, running, error>>

\* socks_target has read its requests, or given up; or the server cannot be
\* looked up, which ends the tunnel.
Handshake(g) ==
  /\ thread[g] = "handshake"
  /\ \/ Goto(g, "serving") /\ Forward(g)
     \/ Goto(g, "serving") /\ UNCHANGED connections
     \/ Goto(g, "failed") /\ UNCHANGED connections
  /\ UNCHANGED <<calls, running, error>>

\* The listener fails, or the server of a connection to a local tunnel cannot
\* be looked up.
Break(g) ==
  /\ thread[g] = "serving" /\ running[g]
  /\ Goto(g, "failed")
  /\ UNCHANGED <<calls, running, error, connections>>

\* The flag is seen cleared: the listener is closed.
Leave(g) ==
  /\ thread[g] = "serving" /\ ~running[g]
  /\ Goto(g, "leaving")
  /\ UNCHANGED <<calls, running, error, connections>>

\* The message of a failure is stored,
Report(g) ==
  /\ thread[g] = "failed"
  /\ error' = [error EXCEPT ![g] = TRUE]
  /\ Goto(g, "leaving")
  /\ UNCHANGED <<calls, running, connections>>

\* MUTANT of Finish: the flag may be cleared before the message is stored.
FinishEarly(g) ==
  /\ thread[g] \in {"failed", "leaving"}
  /\ running' = [running EXCEPT ![g] = FALSE]
  /\ IF thread[g] = "leaving" THEN Goto(g, "ended") ELSE UNCHANGED thread
  /\ UNCHANGED <<calls, error, connections>>

\* and the flag is cleared last.
Finish(g) ==
  /\ thread[g] = "leaving"
  /\ running' = [running EXCEPT ![g] = FALSE]
  /\ Goto(g, "ended")
  /\ UNCHANGED <<calls, error, connections>>
-----------------------------------------------------------------------------
(* The thread of a connection, and the programs at its ends.               *)

\* The server, or the target of a remote tunnel, is connected to or not.
Connect(c) ==
  /\ pipe[c].phase = "connecting"
  /\ \E phase \in {"pumping", "failed"} : pipe' = [pipe EXCEPT ![c].phase = phase]
  /\ UNCHANGED <<calls, running, error, thread, owner>>

Pump(c) ==
  /\ Pumping(pipe[c]) /\ Continues(pipe[c], running[owner[c]])
  /\ \E p \in Iterate(pipe[c]) : pipe' = [pipe EXCEPT ![c] = p]
  /\ UNCHANGED <<calls, running, error, thread, owner>>

\* The loop ends and the channel is closed.
PumpEnds(c) ==
  /\ Pumping(pipe[c]) /\ ~Continues(pipe[c], running[owner[c]])
  /\ pipe' = [pipe EXCEPT ![c].phase = "done"]
  /\ UNCHANGED <<calls, running, error, thread, owner>>

PeerMoves(c) ==
  /\ ~Over(pipe[c])
  /\ \E p \in Peers(pipe[c]) : pipe' = [pipe EXCEPT ![c] = p]
  /\ UNCHANGED <<calls, running, error, thread, owner>>
-----------------------------------------------------------------------------
Next ==
  \/ \E ids \in {{t} : t \in Ids} \cup {Ids} : Stop(ids)
  \/ \E c \in Starters : Insert(c) \/ \E t \in Ids : Start(c, t)
  \/ \E g \in Runs : \/ Listen(g) \/ Accept(g) \/ Handshake(g) \/ Break(g)
                     \/ Leave(g) \/ Report(g) \/ Finish(g)
  \/ \E c \in Conns : Connect(c) \/ Pump(c) \/ PumpEnds(c) \/ PeerMoves(c)

\* Threads run; connecting and every read of the handshake have timeouts, and
\* the pump never blocks, so it comes back to its condition.  Nobody has to
\* connect, send, or call, and no read or write has to succeed or fail.
Fairness ==
  /\ \A c \in Starters : WF_vars(Insert(c))
  /\ \A g \in Runs : WF_vars(Listen(g) \/ Handshake(g) \/ Leave(g) \/ Report(g) \/ Finish(g))
  /\ \A c \in Conns : WF_vars(Connect(c) \/ PumpEnds(c))

Spec == Init /\ [][Next]_vars /\ Fairness
-----------------------------------------------------------------------------
TypeOK ==
  /\ runtimes \in [Ids -> Runs \cup {None}]
  /\ starting \in [Starters -> Ids \cup {None}]
  /\ last \in 0 .. MaxRuns
  /\ tunnel \in [Runs -> Ids \cup {None}]
  /\ running \in [Runs -> BOOLEAN]
  /\ error \in [Runs -> BOOLEAN]
  /\ thread \in [Runs -> {"none", "starting", "serving", "handshake", "failed", "leaving", "ended"}]
  /\ stopped \subseteq Runs
  /\ owner \in [Conns -> Runs \cup {None}]
  /\ pipe \in [Conns -> Pipes]

(***************************************************************************)
(* A tunnel that is not running and that nobody stopped has its error: a   *)
(* status read between the last steps of its thread does not show a failed *)
(* tunnel as one that was stopped.                                         *)
(***************************************************************************)
FailureLeavesError ==
  \A g \in 1 .. last : ~running[g] /\ g \notin stopped => error[g]

(***************************************************************************)
(* Only the run that the table names can be running, so that stop reaches  *)
(* whatever runs and a status tells of it.                                 *)
(***************************************************************************)
OnlyLatestRuns == \A g \in Runs : running[g] => runtimes[tunnel[g]] = g

(***************************************************************************)
(* No byte is lost, doubled or invented between a socket and its channel,  *)
(* and the channel is told that the socket has ended only after the        *)
(* socket's last byte.                                                     *)
(***************************************************************************)
PumpIsFaithful == \A c \in Conns : Faithful(pipe[c])

(***************************************************************************)
(* A connection that ends without an error while its tunnel runs has       *)
(* delivered everything the remote end sent.                               *)
(***************************************************************************)
EndIsComplete ==
  \A c \in Conns : pipe[c].phase = "done" /\ running[owner[c]] => Complete(pipe[c])

(***************************************************************************)
(* A run whose flag is cleared, by a stop or by its own failure, ends:     *)
(* its thread, its listener and all of its connections, whatever the       *)
(* programs at the two ends do.                                            *)
(***************************************************************************)
StopEnds ==
  \A g \in Runs :
    g <= last /\ ~running[g]
      ~> thread[g] = "ended" /\ \A c \in Conns : owner[c] = g => Over(pipe[c])

(***************************************************************************)
(* Tunnels remain active until they are stopped (main.ts): a tunnel that   *)
(* is stopped has no run that goes on.                                     *)
(***************************************************************************)
StopReachesEveryRun ==
  [][\A t \in Ids : Stop({t}) => \A g \in Runs : tunnel[g] = t => ~running'[g]]_vars
=============================================================================
