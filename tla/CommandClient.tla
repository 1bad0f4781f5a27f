---------------------------- MODULE CommandClient ----------------------------
(***************************************************************************)
(* The path of a labelled command through the program: invokeCommand in    *)
(* the webview (app/command-client.ts, one JavaScript thread), the two     *)
(* independent messages it may send (the command itself and its cancel     *)
(* request, which the runtime may start in either order), the backend      *)
(* thread that runs the command between begin_operation and                *)
(* finish_operation, and the reply.                                        *)
(*                                                                         *)
(* An operation identifier is a fresh UUID and is used for one invocation  *)
(* only; a retry after a credential or host-key prompt is a new            *)
(* invocation.  Identifiers are compared only for equality, so they are    *)
(* numbered here in the order in which they are issued.                    *)
(***************************************************************************)
EXTENDS OperationRegistry

CONSTANTS MaxCalls, \* bound: how many invocations a behaviour makes
          Threads,  \* worker threads of the runtime that runs commands
          Prompts,  \* what a failed call may ask for: a password, a host key
          None      \* no operation

ASSUME ClientAssumption ==
  /\ MaxCalls \in Nat /\ Ops = 1 .. MaxCalls
  /\ Threads \in Nat \ {0}
  /\ None \notin Ops
  /\ Prompts \cap {"unused", "waiting", "retried", "applied", "failed",
                 "ok", "cancelled"} = {}

VARIABLES
  active,     \* the frontend's single activeOperation
  call,       \* what each invokeCommand is doing
  abandoned,  \* operation.cancelled, set by cancelCurrentOperation
  mayRetry,   \* retryWithMasterPassword and retryWithHostKey of each call
  issued,     \* how many operations were started; the last one is this one
  cancels,    \* cancel_operation messages not yet processed
  thread,     \* where the backend thread of each command stands
  held,       \* the flag each running command obtained from begin_operation
  reply,      \* the outcome on its way back to the frontend
  delivered,  \* history: cancel requests the registry has processed
  forgotten   \* history: cancelled operations whose pending entry was pruned

frontend == <<active, call, abandoned, mayRetry, issued>>
backend == <<thread, held>>
history == <<delivered, forgotten>>
vars == <<registryVars, frontend, backend, cancels, reply, history>>

Failures == Prompts \cup {"failed"}
Outcomes == Failures \cup {"ok", "cancelled"}
CallStates == Prompts \cup  \* asking the user, after which it may retry
  {"unused", "waiting", "retried", "applied", "failed", "cancelled"}
ThreadStates == {"none", "queued", "running", "stopping"}

Running == {o \in Ops : thread[o] \in {"running", "stopping"}}
Fresh(o) == o = issued + 1

Init ==
  /\ RegistryInit
  /\ active = None
  /\ call = [o \in Ops |-> "unused"]
  /\ abandoned = {}
  /\ mayRetry = [o \in Ops |-> {}]
  /\ issued = 0
  /\ cancels = {}
  /\ thread = [o \in Ops |-> "none"]
  /\ held = [o \in Ops |-> 0]
  /\ reply = [o \in Ops |-> {}]
  /\ delivered = {}
  /\ forgotten = {}
-----------------------------------------------------------------------------
(* The webview.                                                            *)

\* cancelCurrentOperation: mark the call, free the slot, tell the backend.
CancelCurrent ==
  IF active = None
  THEN UNCHANGED <<abandoned, cancels>>
  ELSE /\ abandoned' = abandoned \cup {active}
       /\ cancels' = cancels \cup {active}

\* The part of invokeCommand up to its first await, for a labelled command.
StartCall(o, retries) ==
  /\ Fresh(o)
  /\ CancelCurrent
  /\ active' = o
  /\ mayRetry' = [mayRetry EXCEPT ![o] = retries]
  /\ issued' = o
  /\ thread' = [thread EXCEPT ![o] = "queued"]

Invoke(o) ==
  /\ StartCall(o, Prompts)
  /\ call' = [call EXCEPT ![o] = "waiting"]
  /\ UNCHANGED <<registryVars, held, reply, history>>

\* The user leaves the view or presses Cancel, or a timeout that first
\* compares the operation's identifier fires.
UserCancel ==
  /\ active # None
  /\ CancelCurrent
  /\ active' = None
  /\ UNCHANGED <<registryVars, call, mayRetry, issued, backend, reply, history>>

\* The check made after the await, on success and on failure alike.
Superseded(o) == o \in abandoned \/ active # o

\* MUTANT of Settle: the finally block does not free the slot.
SettleHeld(o, state) ==
  /\ call' = [call EXCEPT ![o] = state]
  /\ UNCHANGED active

\* The finally block: free the slot if it is still this call's.
Settle(o, state) ==
  /\ call' = [call EXCEPT ![o] = state]
  /\ active' = IF active = o THEN None ELSE active

\* MUTANT of Resume: the reply is applied without looking at the slot.
ResumeUnchecked(o, outcome) ==
  \/ outcome = "ok" /\ Settle(o, "applied")
  \/ outcome # "ok" /\ Superseded(o) /\ Settle(o, "cancelled")
  \/ outcome \in mayRetry[o] /\ ~Superseded(o) /\ Settle(o, outcome)
  \/ outcome \notin mayRetry[o] \cup {"ok"} /\ ~Superseded(o) /\ Settle(o, "failed")

\* How the awaiting call goes on with the backend's outcome.
Resume(o, outcome) ==
  \/ Superseded(o) /\ Settle(o, "cancelled")
  \/ /\ ~Superseded(o)
     /\ \/ outcome = "ok" /\ Settle(o, "applied")
        \/ outcome \in mayRetry[o] /\ Settle(o, outcome)
        \/ outcome \notin mayRetry[o] \cup {"ok"} /\ Settle(o, "failed")

ReceiveReply(o) ==
  /\ call[o] = "waiting" /\ thread[o] = "none"
  /\ \E outcome \in reply[o] : Resume(o, outcome)
  /\ reply' = [reply EXCEPT ![o] = {}]
  /\ UNCHANGED <<registryVars, abandoned, mayRetry, issued, cancels, backend,
                 history>>

\* recoverAndRetry, the prompt answered: the command is invoked again as a
\* new operation n, without the right to ask the same question twice.
Retry(o, n) ==
  /\ call[o] \in Prompts
  /\ StartCall(n, mayRetry[o] \ {call[o]})
  /\ call' = [call EXCEPT ![o] = "retried", ![n] = "waiting"]
  /\ UNCHANGED <<registryVars, held, reply, history>>

\* recoverAndRetry, the prompt dismissed.
Dismiss(o) ==
  /\ call[o] \in Prompts
  /\ call' = [call EXCEPT ![o] = "cancelled"]
  /\ UNCHANGED <<registryVars, active, abandoned, mayRetry, issued, cancels,
                 backend, reply, history>>
-----------------------------------------------------------------------------
(* The backend.                                                            *)

FreeThread == Cardinality(Running) < Threads

\* A cancel request gets a thread and runs cancel_operation.
HandleCancel(o) ==
  /\ o \in cancels
  /\ FreeThread
  /\ CancelOperation(o)
  /\ cancels' = cancels \ {o}
  /\ delivered' = delivered \cup {o}
  /\ forgotten' = forgotten \cup
       {p \in delivered : IsPending(registry[p]) /\ registry'[p] = Absent}
  /\ UNCHANGED <<frontend, backend, reply>>

\* The command gets a thread and fails before begin_operation: the server's
\* row is gone (with_client) or the request is malformed (terminal::start).
RejectCommand(o) ==
  /\ thread[o] = "queued"
  /\ FreeThread
  /\ thread' = [thread EXCEPT ![o] = "none"]
  /\ reply' = [reply EXCEPT ![o] = {"failed"}]
  /\ UNCHANGED <<registryVars, frontend, cancels, held, history>>

\* The command gets a thread; with_client calls begin_operation.
BeginCommand(o) ==
  /\ thread[o] = "queued"
  /\ FreeThread
  /\ BeginOperation(o)
  /\ thread' = [thread EXCEPT ![o] = "running"]
  /\ held' = [held EXCEPT ![o] = registry'[o].flag]
  /\ UNCHANGED <<frontend, cancels, reply, history>>

\* MUTANT of Outcome: success is reported without the last look at the flag.
OutcomeUnchecked(o) == {"ok"} \cup Failures

\* What the command's body can end with: success only if the last
\* ensure_not_cancelled passed; the error of any earlier check or step.
Outcome(o) ==
  Failures \cup (IF NotCancelled(o, held[o]) THEN {"ok"} ELSE {"cancelled"})

\* The body of the command and its last ensure_not_cancelled.
RunCommand(o) ==
  /\ thread[o] = "running"
  /\ \E outcome \in Outcome(o) : reply' = [reply EXCEPT ![o] = {outcome}]
  /\ thread' = [thread EXCEPT ![o] = "stopping"]
  /\ UNCHANGED <<registryVars, frontend, cancels, held, history>>

\* finish_operation on the way out; the reply can be seen from now on.
EndCommand(o) ==
  /\ thread[o] = "stopping"
  /\ FinishOperation(o, held[o])
  /\ thread' = [thread EXCEPT ![o] = "none"]
  /\ UNCHANGED <<frontend, cancels, held, reply, history>>

-----------------------------------------------------------------------------
Next ==
  \/ UserCancel
  \/ \E o \in Ops :
       \/ Invoke(o)
       \/ ReceiveReply(o)
       \/ Dismiss(o)
       \/ HandleCancel(o)
       \/ RejectCommand(o)
       \/ BeginCommand(o)
       \/ RunCommand(o)
       \/ EndCommand(o)
  \/ \E o, n \in Ops : Retry(o, n)

(***************************************************************************)
(* Fairness.  Threads are scheduled, every wait of a command has a timeout *)
(* (connection, idle and probe timeouts of ssh.rs) and the webview's event *)
(* loop resumes an await whose promise settled.  Users owe nothing.        *)
(***************************************************************************)
Fairness ==
  \A o \in Ops :
    /\ WF_vars(RunCommand(o)) /\ WF_vars(EndCommand(o))
    /\ WF_vars(ReceiveReply(o))
    /\ SF_vars(BeginCommand(o))

Spec == Init /\ [][Next]_vars
FairSpec == Spec /\ Fairness
-----------------------------------------------------------------------------
TypeOK ==
  /\ RegistryTypeOK
  /\ active \in Ops \cup {None}
  /\ call \in [Ops -> CallStates]
  /\ abandoned \subseteq Ops
  /\ mayRetry \in [Ops -> SUBSET Prompts]
  /\ issued \in 0 .. MaxCalls
  /\ cancels \subseteq Ops
  /\ thread \in [Ops -> ThreadStates]
  /\ held \in [Ops -> Nat]
  /\ reply \in [Ops -> SUBSET Outcomes]
  /\ delivered \subseteq Ops
  /\ forgotten \subseteq Ops

(***************************************************************************)
(* The registry holds an active entry for exactly the commands that run,   *)
(* and that entry carries the flag the command looks at: no exit path      *)
(* leaks an entry, no prune takes one away from a running command, and no  *)
(* cancel request can reach a flag nobody reads.                           *)
(***************************************************************************)
RegistryMatchesThreads ==
  \A o \in Ops :
    /\ (Present(o) /\ ~IsPending(registry[o])) <=> o \in Running
    /\ o \in Running => registry[o].flag = held[o]

(***************************************************************************)
(* A cancel request the registry has processed is never lost to the race   *)
(* with the command it cancels: the command that starts later finds the    *)
(* pending entry, the one that runs already sees its flag, unless pruning  *)
(* forgot the request.  And only an operation the frontend abandoned is    *)
(* ever cancelled.                                                         *)
(***************************************************************************)
CancelReachesCommand ==
  \A o \in Ops :
    /\ o \in delivered \ forgotten =>
         /\ thread[o] = "queued" => registry[o].flag \in raised[o]
         /\ thread[o] = "running" => held[o] \in raised[o]
    /\ thread[o] = "running" /\ held[o] \in raised[o] => o \in abandoned

(***************************************************************************)
(* However many cancel requests arrive for commands that never start, the  *)
(* registry keeps at most MaxPending of them.                              *)
(***************************************************************************)
PendingBounded == Cardinality(Pending(registry)) <= MaxPending

(***************************************************************************)
(* The frontend applies a result only if no command was started after it:  *)
(* replies that overtake each other cannot roll a view back.               *)
(***************************************************************************)
OnlyLatestApplies ==
  [][\A o \in Ops :
       call[o] # "applied" /\ call'[o] = "applied" => issued = o]_vars

(***************************************************************************)
(* A backend command whose cancel request was processed before its last    *)
(* check does not report success, whatever the frontend then does with it. *)
(***************************************************************************)
NoSuccessAfterCancel ==
  [][\A o \in Ops :
       o \in delivered \ forgotten /\ thread[o] = "running"
         => "ok" \notin reply'[o]]_vars

(***************************************************************************)
(* The operation indicator does not stay forever: an operation that holds  *)
(* the frontend's slot eventually gives it up, even if nobody cancels it.  *)
(***************************************************************************)
SlotIsFreed == \A o \in Ops : (active = o) ~> (active # o)
=============================================================================
