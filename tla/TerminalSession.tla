--------------------------- MODULE TerminalSession ---------------------------
(***************************************************************************)
(* One terminal of terminal.rs: the entry of the session map, the mpsc     *)
(* mailbox through which the commands of the main thread reach the session *)
(* thread, that thread's loop over a non-blocking SSH channel, and the     *)
(* counter of input bytes both sides share.  Sessions have fresh UUIDs and *)
(* share nothing but the map's mutex, so one of them stands for all.       *)
(*                                                                         *)
(* Bytes have no content here but the number under which they were         *)
(* accepted: a chunk is the numbers from "from" (exclusive) to "to".       *)
(***************************************************************************)
EXTENDS Naturals, Sequences

CONSTANTS Capacity,    \* MAX_PENDING_INPUT_BYTES
          MaxFailures, \* MAX_KEEPALIVE_FAILURES
          Lengths,     \* how long the data of one terminal_input may be
          Sizes,       \* sizes the webview asks for
          MinSize,     \* the smallest size a pty gets
          MaxInputs,   \* bound: calls of terminal_input in a behaviour
          MaxResizes   \* bound: resizes asked for in a behaviour

ASSUME TerminalAssumption ==
  /\ Capacity \in Nat /\ MaxFailures \in Nat \ {0}
  /\ Lengths \subseteq Nat /\ Sizes \subseteq Nat /\ MinSize \in Nat
  /\ MaxInputs \in Nat /\ MaxResizes \in Nat

VARIABLES
  entry,     \* the session is in the map of sessions
  pc,        \* where start, then the session thread, stands
  mailbox,   \* the mpsc channel
  queue,     \* pending_input: chunks, the first from its offset on
  wanted,    \* pending_resize, 0 for None
  retrying,  \* retrying_input_write
  failures,  \* keepalive_failures
  pending,   \* pending_input_bytes, shared with every input call
  caller,    \* the terminal_input the main thread is in
  inputs,    \* how many calls of terminal_input were made
  size,      \* the size the remote pty was given, 0 at first
  asked,     \* history: the resizes asked for, clamped
  sent,      \* history: how many bytes were accepted
  took       \* history: the bytes of the last write the channel took

thread == <<queue, wanted, retrying, failures>>
main == <<caller, inputs>>
remote == <<size, took>>
vars == <<entry, pc, mailbox, thread, pending, main, remote, asked, sent>>

Alive == pc # "exited"   \* the receiver of the mailbox exists
Ending == {"closing", "removed", "exited"}
Steps == {"none", "inserted", "drain", "resize", "write", "poll"} \cup Ending
Idle == [step |-> "idle", length |-> 0]

Init ==
  /\ entry = FALSE /\ pc = "none"
  /\ mailbox = <<>> /\ queue = <<>>
  /\ wanted = 0 /\ retrying = FALSE /\ failures = 0
  /\ pending = 0 /\ caller = Idle /\ inputs = 0
  /\ size = 0 /\ asked = <<>>
  /\ sent = 0 /\ took = [from |-> 0, to |-> 0]
-----------------------------------------------------------------------------
(* start, once the channel is open: insert the session, look at the        *)
(* operation's flag again, spawn the thread.                               *)

Insert ==
  /\ pc = "none"
  /\ entry' = TRUE
  /\ pc' = "inserted"
  /\ UNCHANGED <<mailbox, thread, pending, main, remote, asked, sent>>

Spawn ==
  /\ pc = "inserted"
  /\ pc' = "drain"
  /\ UNCHANGED <<entry, mailbox, thread, pending, main, remote, asked, sent>>

Cancelled ==
  /\ pc = "inserted"
  /\ entry' = FALSE
  /\ pc' = "exited"
  /\ mailbox' = <<>>
  /\ UNCHANGED <<thread, pending, main, remote, asked, sent>>
-----------------------------------------------------------------------------
(* The commands of the webview, one at a time on the main thread.          *)

Message(kind, n, cols) == [kind |-> kind, from |-> sent, to |-> sent + n, size |-> cols]

Lookup(n) ==
  /\ caller = Idle /\ entry /\ inputs < MaxInputs
  /\ inputs' = inputs + 1
  /\ caller' = [step |-> "found", length |-> n]
  /\ UNCHANGED <<entry, pc, mailbox, thread, pending, remote, asked, sent>>

\* reserve_input_bytes; the call fails when the queue is full.
Reserve ==
  /\ caller.step = "found"
  /\ IF pending + caller.length <= Capacity
     THEN pending' = pending + caller.length /\ caller' = [caller EXCEPT !.step = "reserved"]
     ELSE caller' = Idle /\ UNCHANGED pending
  /\ UNCHANGED <<entry, pc, mailbox, thread, inputs, remote, asked, sent>>

\* sender.send; it fails, and gives the bytes back, once the thread is gone.
Send ==
  /\ caller.step = "reserved"
  /\ caller' = Idle
  /\ IF Alive
     THEN /\ mailbox' = Append(mailbox, Message("input", caller.length, 0))
          /\ sent' = sent + caller.length
          /\ UNCHANGED pending
     ELSE /\ pending' = pending - caller.length
          /\ UNCHANGED <<mailbox, sent>>
  /\ UNCHANGED <<entry, pc, thread, inputs, remote, asked>>

\* cols.max(20) and rows.max(5), which the session thread applies.
Clamp(cols) == IF cols < MinSize THEN MinSize ELSE cols

Resize(cols) ==
  /\ caller = Idle /\ entry /\ Alive
  /\ Len(asked) < MaxResizes
  /\ asked' = Append(asked, Clamp(cols))
  /\ mailbox' = Append(mailbox, Message("resize", 0, cols))
  /\ UNCHANGED <<entry, pc, thread, pending, main, remote, sent>>

CloseSent == \E i \in DOMAIN mailbox : mailbox[i].kind = "close"

\* close; more of them make no difference.
Close ==
  /\ caller = Idle /\ entry /\ Alive /\ ~CloseSent
  /\ mailbox' = Append(mailbox, Message("close", 0, 0))
  /\ UNCHANGED <<entry, pc, thread, pending, main, remote, asked, sent>>

\* close_server and close_all, on another thread: the entry goes first.
CloseServer ==
  /\ entry
  /\ entry' = FALSE
  /\ mailbox' = IF Alive THEN Append(mailbox, Message("close", 0, 0)) ELSE mailbox
  /\ UNCHANGED <<pc, thread, pending, main, remote, asked, sent>>
-----------------------------------------------------------------------------
(* The session thread.                                                     *)

\* MUTANT of Enqueue: input without a byte is queued like any other.
EnqueueEmpty(chunk) == queue' = Append(queue, chunk)

Enqueue(chunk) ==
  queue' = IF chunk.from < chunk.to THEN Append(queue, chunk) ELSE queue

\* MUTANT of Want: a size that waits already is not replaced.
WantFirst(cols) == wanted' = IF wanted = 0 THEN Clamp(cols) ELSE wanted

Want(cols) == wanted' = Clamp(cols)

\* MUTANT of End: a close is put off until the input is written, and lost.
EndWhenWritten == pc' = IF queue = <<>> THEN "closing" ELSE "resize"

\* closed = true, and out of both loops.
End == pc' = "closing"

\* One turn of the loop that empties the mailbox.
Receive ==
  /\ pc = "drain" /\ mailbox # <<>>
  /\ mailbox' = Tail(mailbox)
  /\ LET m == Head(mailbox)
     IN  CASE m.kind = "input"  -> /\ Enqueue([from |-> m.from, to |-> m.to])
                                   /\ UNCHANGED <<pc, wanted>>
           [] m.kind = "resize" -> Want(m.size) /\ UNCHANGED <<pc, queue>>
           [] m.kind = "close"  -> End /\ UNCHANGED <<queue, wanted>>
  /\ UNCHANGED <<entry, retrying, failures, pending, main, remote, asked, sent>>

Drained ==
  /\ pc = "drain" /\ mailbox = <<>>
  /\ pc' = "resize"
  /\ UNCHANGED <<entry, mailbox, thread, pending, main, remote, asked, sent>>

\* MUTANT of MaySendResize: a write that waits to be retried is disregarded.
MaySendResizeAlways == wanted # 0

MaySendResize == ~retrying /\ wanted # 0

SkipResize ==
  /\ pc = "resize" /\ ~MaySendResize
  /\ pc' = "write"
  /\ UNCHANGED <<entry, mailbox, thread, pending, main, remote, asked, sent>>

ResizeTaken ==
  /\ pc = "resize" /\ MaySendResize
  /\ size' = wanted /\ wanted' = 0
  /\ pc' = "write"
  /\ UNCHANGED <<entry, mailbox, queue, retrying, failures, pending, main, took,
                 asked, sent>>

\* A retryable error starts the loop again, another one ends the session.
ResizeNotTaken ==
  /\ pc = "resize" /\ MaySendResize
  /\ pc' \in {"drain", "closing"}
  /\ UNCHANGED <<entry, mailbox, thread, pending, main, remote, asked, sent>>

SkipWrite ==
  /\ pc = "write" /\ queue = <<>>
  /\ pc' = "poll"
  /\ UNCHANGED <<entry, mailbox, thread, pending, main, remote, asked, sent>>

\* MUTANT of Advance: the offset of a chunk written in part is not moved.
AdvanceWhole(upTo) ==
  queue' = IF upTo = Head(queue).to THEN Tail(queue) ELSE queue

\* The offset moves on; the chunk is done when all of it was taken.
Advance(upTo) ==
  queue' = IF upTo = Head(queue).to
           THEN Tail(queue)
           ELSE [queue EXCEPT ![1].from = upTo]

\* MUTANT of Release: the whole of the chunk is given back each time.
ReleaseWhole(upTo) == pending' = pending - (Head(queue).to - Head(queue).from)

\* fetch_sub of what was written.
Release(upTo) == pending' = pending - (upTo - Head(queue).from)

\* The channel takes a part of the first chunk, at least one byte.
WriteTaken ==
  /\ pc = "write" /\ queue # <<>>
  /\ \E upTo \in Head(queue).from + 1 .. Head(queue).to :
       /\ took' = [from |-> Head(queue).from, to |-> upTo]
       /\ Advance(upTo)
       /\ Release(upTo)
  /\ retrying' = FALSE
  /\ pc' = "poll"
  /\ UNCHANGED <<entry, mailbox, wanted, failures, main, size, asked, sent>>

\* It takes nothing: back to the top, and the same write is tried again.
WriteBlocked ==
  /\ pc = "write" /\ queue # <<>>
  /\ retrying' = TRUE
  /\ pc' = "drain"
  /\ UNCHANGED <<entry, mailbox, queue, wanted, failures, pending, main, remote,
                 asked, sent>>

WriteFails ==
  /\ pc = "write" /\ queue # <<>>
  /\ pc' = "closing"
  /\ UNCHANGED <<entry, mailbox, thread, pending, main, remote, asked, sent>>

\* Read what is there, send a keepalive when one is due, look for the end.
Poll ==
  /\ pc = "poll"
  /\ \/ pc' = "drain" /\ failures' \in {failures, 0}
     \/ /\ failures' = failures + 1
        /\ pc' = IF failures' >= MaxFailures THEN "closing" ELSE "drain"
  /\ UNCHANGED <<entry, mailbox, queue, wanted, retrying, pending, main, remote,
                 asked, sent>>

\* A read error, or the remote side closed the channel.
PollEnds ==
  /\ pc = "poll"
  /\ pc' = "closing"
  /\ UNCHANGED <<entry, mailbox, thread, pending, main, remote, asked, sent>>

\* MUTANT of Remove: the entry of a session that ended by itself stays.
RemoveKept ==
  /\ pc = "closing"
  /\ pc' = "removed"
  /\ UNCHANGED <<entry, mailbox, thread, pending, main, remote, asked, sent>>

\* After the loop: the channel is closed and the entry removed ...
Remove ==
  /\ pc = "closing"
  /\ entry' = FALSE
  /\ pc' = "removed"
  /\ UNCHANGED <<mailbox, thread, pending, main, remote, asked, sent>>

\* ... terminal-closed is emitted, and the thread ends with its receiver.
Exit ==
  /\ pc = "removed"
  /\ pc' = "exited"
  /\ mailbox' = <<>>
  /\ UNCHANGED <<entry, thread, pending, main, remote, asked, sent>>
-----------------------------------------------------------------------------
Start == Insert \/ Spawn \/ Cancelled

Command ==
  \/ \E n \in Lengths : Lookup(n)
  \/ Reserve
  \/ Send
  \/ \E cols \in Sizes : Resize(cols)
  \/ Close
  \/ CloseServer

Thread ==
  \/ Receive \/ Drained
  \/ SkipResize \/ ResizeTaken \/ ResizeNotTaken
  \/ SkipWrite \/ WriteTaken \/ WriteBlocked \/ WriteFails
  \/ Poll \/ PollEnds
  \/ Remove \/ Exit

Next == Start \/ Command \/ Thread

Spec == Init /\ [][Next]_vars

(***************************************************************************)
(* The session thread and start are scheduled; nothing is owed by the      *)
(* user, by the remote host or by the network.                             *)
(***************************************************************************)
FairSpec == Spec /\ WF_vars(Spawn \/ Cancelled) /\ WF_vars(Thread)
-----------------------------------------------------------------------------
Commands == [kind : {"input", "resize", "close"}, from : Nat, to : Nat, size : Nat]
Chunks == [from : Nat, to : Nat]

TypeOK ==
  /\ entry \in BOOLEAN /\ retrying \in BOOLEAN
  /\ pc \in Steps
  /\ mailbox \in Seq(Commands)
  /\ queue \in Seq(Chunks)
  /\ wanted \in Nat /\ failures \in 0 .. MaxFailures
  /\ pending \in Nat
  /\ caller \in [step : {"idle", "found", "reserved"}, length : Nat]
  /\ inputs \in 0 .. MaxInputs
  /\ size \in Nat /\ asked \in Seq(Nat)
  /\ sent \in Nat /\ took \in Chunks

Reserved == IF caller.step = "reserved" THEN caller.length ELSE 0

(***************************************************************************)
(* The shared counter is exact as long as the thread lives: it counts what *)
(* was reserved and not sent yet plus what was sent and not written yet.   *)
(* A counter that loses or invents bytes would close the terminal to input *)
(* for good, or let the queue grow without limit.                          *)
(***************************************************************************)
InputAccounted == Alive => pending = Reserved + (sent - took.to)

(***************************************************************************)
(* The session map holds no entry of a session whose thread is gone, which *)
(* nobody could close or write to any more.                                *)
(***************************************************************************)
EntryIsLive == entry => pc \notin {"none", "removed", "exited"}

(***************************************************************************)
(* While a write waits to be retried, libssh2 must see that very write     *)
(* next: no resize, read or keepalive goes out before it, and the bytes it *)
(* is retried with are the same.                                           *)
(***************************************************************************)
RetriesSameWrite ==
  [][retrying /\ Alive =>
       /\ size' = size /\ failures' = failures
       /\ pc' = "poll" => ~retrying'
       /\ retrying' => queue # <<>> /\ queue' # <<>> /\ Head(queue') = Head(queue)]_vars

(***************************************************************************)
(* The terminal implements the bounded, ordered, loss-free pipe: keyboard  *)
(* input reaches the channel in order, once, and not after the loop ended. *)
(***************************************************************************)
Pipe == INSTANCE InputPipe WITH open <- pc \notin Ending
ImplementsPipe == Pipe!Spec

(***************************************************************************)
(* A close reaches a session whatever state its channel is in: even while  *)
(* the remote host takes no input, the session ends and leaves the map.    *)
(***************************************************************************)
CloseEnds == CloseSent ~> pc = "exited"

(***************************************************************************)
(* If the remote host keeps taking what it is offered again and again,     *)
(* every accepted byte is written (as the pipe is ordered, it is enough    *)
(* that writing goes on until nothing is left) and the pty gets the size   *)
(* asked for last (clamped), unless the session ends.                      *)
(***************************************************************************)
RemoteTakes == SF_vars(WriteTaken) /\ SF_vars(ResizeTaken)
LastAsked == asked # <<>> => size = asked[Len(asked)]
InputDelivered ==
  RemoteTakes =>
    []<>(sent = took.to \/ pc \in {"removed", "exited"}) \/ []<><<WriteTaken>>_vars
ResizeDelivered == RemoteTakes => <>[](LastAsked \/ pc = "exited")
=============================================================================
