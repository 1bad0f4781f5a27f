----------------------------- MODULE RemoteExec -----------------------------
(***************************************************************************)
(* ssh.rs: one command on a cached connection, exec_with_input_limited_    *)
(* timeout, and the remote process it starts.  The call opens a channel,   *)
(* writes its input, reads until the end of the output and takes the exit  *)
(* status; it can be cancelled, time out, or lose the connection at any    *)
(* step.  A process whose channel is gone sees the end of its input and    *)
(* goes on.  Commands of the same client come one after the other.         *)
(***************************************************************************)
EXTENDS Crontab

CONSTANTS Clients,
          Payload,      \* the lines of scripts and of other input
          Password,     \* the line with the stored sudo password
          MaxOutput,    \* bound of a bounded script's output
          DefaultLimit, \* bound of every output
          Produced      \* bound: how much output is counted

ASSUME RemoteExecAssumption ==
  /\ MaxOutput \in Nat /\ DefaultLimit \in Nat /\ Produced \in Nat
  /\ Payload \in Seq(ToSet(Payload)) /\ Password \notin ToSet(Payload)

VARIABLES call,       \* the call of each client
          proc,       \* the process the call has started
          strays,     \* processes whose channel is gone
          cancelled,  \* the flag of each client's operation
          host,       \* what the remote user may do, and the right password
          crontab     \* the remote user's crontab

\* What a process runs: the probes, the command of a job (which reads its
\* input or not), and crontab.
Programs == {"id", "sudo -n true", "command", "reader", "crontab -l", "crontab -"}
Readers == {"reader", "crontab -"}

\* How it becomes root: not at all, by sudo -n, by a shell that reads the
\* password before it starts sudo, by a sudo that reads it itself.
Ways == {"none", "free", "wrapper", "asking"}

Idle == [at |-> "idle", program |-> "id", way |-> "none", input |-> << >>, has |-> FALSE,
         limit |-> 0, kept |-> 0]

NoProcess == [phase |-> "none", program |-> "id", way |-> "none", stdin |-> << >>, eof |-> FALSE,
              offered |-> {}, read |-> << >>, whole |-> << >>, out |-> 0, fresh |-> FALSE,
              says |-> "nothing", told |-> FALSE, ok |-> FALSE, root |-> FALSE]

Processing(p) == p.phase \notin {"none", "exited"}
-----------------------------------------------------------------------------
(* The remote process: what sshd, sudo, sh and crontab do.                 *)

Launched(program, way, input) ==
  [NoProcess EXCEPT !.phase = CASE way = "wrapper" -> "password"
                                [] way = "asking" -> "asking"
                                [] OTHER -> "running",
                    !.program = program, !.way = way, !.whole = input]

\* A process ends well or not, and the server sends the exit status; or a
\* signal ends it or the server closes the channel, and no status is sent.
Exits(p, says) == [p EXCEPT !.phase = "exited", !.says = says, !.fresh = TRUE]
Succeeds(p, says) == [Exits(p, says) EXCEPT !.told = TRUE, !.ok = TRUE]
Fails(p, says) == [Exits(p, says) EXCEPT !.told = TRUE, !.ok = FALSE]
Killed(p) == [Exits(p, "nothing") EXCEPT !.told = FALSE, !.ok = FALSE]

\* libssh2 answers 0 until it has been told: Channel::exit_status is no error
\* then, and the -1 of unwrap_or never comes.
ExitStatus(p) == IF p.told /\ ~p.ok THEN 1 ELSE 0

\* The line the shell gives to sudo -v, or sudo reads itself.
Offered(p) == [p EXCEPT !.stdin = Tail(@), !.offered = @ \cup {Head(p.stdin)}]

Authenticates(p) ==
  IF p.stdin = << >> THEN IF p.eof THEN {Fails(p, "rejected")} ELSE {}
  ELSE IF Head(p.stdin) = Password /\ host.right
       THEN {[Offered(p) EXCEPT !.phase = "running"]}
       ELSE {IF p.way = "asking" THEN Offered(p) ELSE Fails(Offered(p), "rejected")}

\* sudo -n refuses whoever is not allowed to go without a password, and may
\* refuse after a validated password too.
Refused(p) == IF p.way \in {"free", "wrapper"} THEN {Fails(p, "nothing")} ELSE {}

Rooted(p) ==
  \/ host.root
  \/ p.way \in {"wrapper", "asking"}
  \/ host.passwordless /\ (p.way = "free" \/ p.program = "sudo -n true")

SaysMore(p) == [p EXCEPT !.out = IF @ < Produced THEN @ + 1 ELSE @, !.fresh = TRUE]
ReadsLine(p) == [p EXCEPT !.stdin = Tail(@), !.read = Append(@, Head(p.stdin))]
Listed(p, lines) == [p EXCEPT !.read = lines]
AsUser(p) == [p EXCEPT !.root = Rooted(p)]
AnyWords == {"nothing", "permission", "rejected"}

Identifies(p) == {Succeeds(p, IF host.root THEN "root" ELSE "nothing")}
Probes(p) == {IF Rooted(p) THEN Succeeds(p, "nothing") ELSE Fails(p, "nothing")}

\* A failing "crontab -l" cannot be told from an empty crontab ("|| true").
Lists(p) == {Succeeds(Listed(p, lines), "nothing") : lines \in {crontab, << >>}}

\* Any command may fail, and may say words that sudo says, or that it lacks
\* permission.
Fares(p) == {SaysMore(p)} \cup {Fails(AsUser(p), s) : s \in AnyWords}
Obeys(p) == Fares(p) \cup {Succeeds(AsUser(p), s) : s \in AnyWords}

\* A reader ends well only at the end of its input.
Consumes(p) ==
  (IF p.stdin # << >> THEN {ReadsLine(p)} ELSE IF p.eof THEN {Succeeds(AsUser(p), "nothing")} ELSE {})
    \cup (IF p.program = "reader" THEN Fares(p) ELSE {Fails(p, "nothing")})

Computes(p) ==
  CASE p.program = "id" -> Identifies(p)
    [] p.program = "sudo -n true" -> Probes(p)
    [] p.program = "crontab -l" -> Lists(p)
    [] p.program = "command" -> Obeys(p)
    [] p.program \in Readers -> Consumes(p)

Proceeds(p) ==
  CASE p.phase \in {"password", "asking"} -> Authenticates(p)
    [] p.phase = "running" -> Refused(p) \cup (IF p.way # "free" \/ Rooted(p) THEN Computes(p) ELSE {})

Moves(p) == Proceeds(p) \cup {Killed(p)}

\* crontab installs what it has read.
Effect(p) ==
  crontab' = IF p.program = "crontab -" /\ p.phase = "exited" /\ p.ok THEN p.read ELSE crontab
-----------------------------------------------------------------------------
(* The call.                                                               *)

CallIs(c, at) == call[c].at = at
SetCall(c, at) == call' = [call EXCEPT ![c].at = at]
Checked(c) == ~cancelled[c]

\* A process whose channel is dropped.
Orphan(p) == [p EXCEPT !.eof = TRUE]

Opens(c) ==
  /\ CallIs(c, "ready") /\ Checked(c)
  /\ SetCall(c, IF call[c].has THEN "input" ELSE "read")
  /\ proc' = [proc EXCEPT ![c] = Launched(call[c].program, call[c].way, call[c].input)]
  /\ UNCHANGED <<strays, cancelled, host, crontab>>

\* The flag is looked at before the first byte, not in between.
StartsInput(c) ==
  /\ CallIs(c, "input") /\ Checked(c)
  /\ SetCall(c, "write")
  /\ UNCHANGED <<proc, strays, cancelled, host, crontab>>

Writes(c) ==
  /\ CallIs(c, "write") /\ call[c].input # << >>
  /\ call' = [call EXCEPT ![c].input = Tail(@)]
  /\ proc' = [proc EXCEPT ![c].stdin = Append(@, Head(call[c].input))]
  /\ UNCHANGED <<strays, cancelled, host, crontab>>

SendsEof(c) ==
  /\ CallIs(c, "write") /\ call[c].input = << >>
  /\ SetCall(c, "read")
  /\ proc' = [proc EXCEPT ![c].eof = TRUE]
  /\ UNCHANGED <<strays, cancelled, host, crontab>>

\* MUTANT of Looked: the flag is only looked at before the loop.
LookedOnce(c) == TRUE

\* The flag, at the head of the loop; the look before the loop is its first.
Looked(c) == Checked(c)

\* append_output keeps what fits.
Kept(limit, out) == IF out < limit THEN out ELSE limit

Reads(c) ==
  /\ CallIs(c, "read") /\ Looked(c) /\ proc[c].fresh
  /\ call' = [call EXCEPT ![c].kept = Kept(call[c].limit, proc[c].out)]
  /\ proc' = [proc EXCEPT ![c].fresh = FALSE]
  /\ UNCHANGED <<strays, cancelled, host, crontab>>

\* The end of the output, and the channel is closed.
Closes(c) ==
  /\ CallIs(c, "read") /\ Checked(c)
  /\ proc[c].phase = "exited" /\ ~proc[c].fresh
  /\ SetCall(c, "ok")
  /\ UNCHANGED <<proc, strays, cancelled, host, crontab>>

\* The flag is found set, a call of libssh2 fails or times out, or there was
\* no output for too long.  The channel is dropped; blocking mode is restored.
Errs(c) ==
  /\ call[c].at \in {"ready", "input", "write", "read"}
  /\ SetCall(c, "error")
  /\ strays' = strays \cup (IF Processing(proc[c]) THEN {Orphan(proc[c])} ELSE {})
  /\ proc' = [proc EXCEPT ![c] = NoProcess]
  /\ UNCHANGED <<cancelled, host, crontab>>

Calls(c) ==
  Opens(c) \/ StartsInput(c) \/ Writes(c) \/ SendsEof(c) \/ Reads(c)
    \/ Closes(c) \/ Errs(c)

Runs(c) ==
  /\ Processing(proc[c])
  /\ \E p \in Moves(proc[c]) : proc' = [proc EXCEPT ![c] = p] /\ Effect(p)
  /\ UNCHANGED <<call, strays, cancelled, host>>

RunsOn ==
  /\ \E p \in strays : \E q \in Moves(p) :
       /\ strays' = (strays \ {p}) \cup (IF Processing(q) THEN {q} ELSE {})
       /\ Effect(q)
  /\ UNCHANGED <<call, proc, cancelled, host>>

Cancels(c) ==
  /\ ~cancelled[c]
  /\ cancelled' = [cancelled EXCEPT ![c] = TRUE]
  /\ UNCHANGED <<call, proc, strays, host, crontab>>
=============================================================================
