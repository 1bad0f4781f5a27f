--------------------------- MODULE Terminal_proofs ---------------------------
(***************************************************************************)
(* Proofs about one terminal, for any capacity, input, sizes and limits.   *)
(***************************************************************************)
EXTENDS TerminalSession, TLAPS

-----------------------------------------------------------------------------
(* The inductive invariant.                                                *)

\* The chunks and the messages, in the order in which they will be written,
\* lie one after the other between what was written and what was accepted.
InOrder(s) ==
  /\ \A i \in DOMAIN s : s[i].from <= s[i].to /\ s[i].to <= sent /\ took.to <= s[i].from
  /\ \A i, j \in DOMAIN s : i < j => s[i].to <= s[j].from

\* A resize or a close carries no byte.
Signals == \A i \in DOMAIN mailbox : mailbox[i].kind # "input" => mailbox[i].from = mailbox[i].to

Ordered ==
  /\ Signals
  /\ took.from <= took.to /\ took.to <= sent
  /\ InOrder(queue) /\ InOrder(mailbox)
  /\ \A i \in DOMAIN queue, j \in DOMAIN mailbox : queue[i].to <= mailbox[j].from

\* Nothing lies between one and the next: no byte is left out.
Adjacent(s) == \A i \in 1 .. Len(s) - 1 : s[i].to = s[i + 1].from
QueueEnd == IF queue = <<>> THEN took.to ELSE queue[Len(queue)].to

Contiguous ==
  /\ Adjacent(queue)
  /\ queue # <<>> => queue[1].from = took.to
  /\ Alive =>
       /\ Adjacent(mailbox)
       /\ mailbox = <<>> => QueueEnd = sent
       /\ mailbox # <<>> => mailbox[1].from = QueueEnd /\ mailbox[Len(mailbox)].to = sent

\* The counter covers what is reserved and never exceeds the capacity.
Bounded == Reserved <= pending /\ pending <= Capacity

Settled ==
  /\ failures < MaxFailures \/ pc \in Ending
  /\ retrying => queue # <<>>

IInv ==
  TypeOK /\ InputAccounted /\ EntryIsLive /\ Ordered /\ Contiguous /\ Bounded /\ Settled

LEMMA EmptySequence == ASSUME NEW S PROVE <<>> \in Seq(S) /\ Len(<<>>) = 0 /\ DOMAIN <<>> = {}
  OBVIOUS

LEMMA InitEstablishes == Init => IInv
<1> SUFFICES ASSUME Init PROVE IInv
  OBVIOUS
<1>1. TypeOK
  <2>1. mailbox \in Seq(Commands) /\ queue \in Seq(Chunks) /\ asked \in Seq(Nat)
    BY EmptySequence DEF Init
  <2>2. caller \in [step : {"idle", "found", "reserved"}, length : Nat] /\ took \in Chunks
    BY DEF Init, Idle, Chunks
  <2>3. failures \in 0 .. MaxFailures /\ inputs \in 0 .. MaxInputs
    BY TerminalAssumption DEF Init, TerminalAssumption
  <2>4. QED
    BY <2>1, <2>2, <2>3 DEF Init, TypeOK, Steps
<1>2. InputAccounted /\ EntryIsLive /\ Bounded /\ Settled
  BY TerminalAssumption DEF TerminalAssumption, Init, InputAccounted, Alive, Reserved, Idle,
                            EntryIsLive, Bounded, Settled
<1>3. Ordered /\ Contiguous
  BY EmptySequence DEF Init, Ordered, Signals, InOrder, Contiguous, Adjacent, QueueEnd
<1>4. QED
  BY <1>1, <1>2, <1>3 DEF IInv

-----------------------------------------------------------------------------
(* The steps that move no byte: the queue, the mailbox and the counter     *)
(* stay, or the thread ends with its mailbox.                              *)

Still ==
  /\ UNCHANGED <<queue, pending, took, sent, caller>>
  /\ UNCHANGED mailbox \/ (mailbox' = <<>> /\ pc' = "exited")
  /\ pc = "exited" => pc' = "exited"

LEMMA StillKeepsBytes ==
  ASSUME IInv, Still
  PROVE  InputAccounted' /\ Ordered' /\ Contiguous' /\ Bounded'
<1> USE DEF IInv, Still
<1>1. InputAccounted'
  BY DEF InputAccounted, Alive, Reserved
<1>2. Ordered'
  BY DEF Ordered, InOrder, Signals
<1>3. Contiguous'
  BY DEF Contiguous, Adjacent, QueueEnd, Alive
<1>4. Bounded'
  BY DEF Bounded, Reserved
<1>5. QED
  BY <1>1, <1>2, <1>3, <1>4

StillStep ==
  \/ Insert \/ Spawn \/ Cancelled
  \/ Drained \/ SkipResize \/ ResizeTaken \/ ResizeNotTaken
  \/ SkipWrite \/ WriteBlocked \/ WriteFails \/ Poll \/ PollEnds
  \/ Remove \/ Exit

LEMMA StillStepsPreserve ==
  ASSUME IInv, StillStep
  PROVE  IInv'
<1>1. Still
  BY DEF StillStep, Still, Insert, Spawn, Cancelled, Drained, SkipResize, ResizeTaken,
         ResizeNotTaken, SkipWrite, WriteBlocked, WriteFails, Poll, PollEnds, Remove, Exit,
         thread, main, remote
<1>2. InputAccounted' /\ Ordered' /\ Contiguous' /\ Bounded'
  BY <1>1, StillKeepsBytes
<1>3. EntryIsLive'
  BY DEF IInv, EntryIsLive, StillStep, Insert, Spawn, Cancelled, Drained, SkipResize,
         ResizeTaken, ResizeNotTaken, SkipWrite, WriteBlocked, WriteFails, Poll, PollEnds,
         Remove, Exit
<1>4. Settled'
  BY TerminalAssumption DEF TerminalAssumption, IInv, TypeOK, Settled, Ending, StillStep, Insert, Spawn, Cancelled, Drained,
         SkipResize, ResizeTaken, ResizeNotTaken, SkipWrite, WriteBlocked, WriteFails,
         Poll, PollEnds, Remove, Exit, thread
<1>5. TypeOK'
  <2>1. mailbox' \in Seq(Commands) /\ pending' \in Nat /\ UNCHANGED <<queue, took, sent, caller>>
    BY <1>1, EmptySequence DEF IInv, TypeOK, Still
  <2>2. pc' \in Steps /\ entry' \in BOOLEAN /\ retrying' \in BOOLEAN
    BY DEF IInv, TypeOK, Steps, Ending, StillStep, Insert, Spawn, Cancelled, Drained,
         SkipResize, ResizeTaken, ResizeNotTaken, SkipWrite, WriteBlocked, WriteFails,
         Poll, PollEnds, Remove, Exit, thread
  <2>3. failures' \in 0 .. MaxFailures
    BY TerminalAssumption DEF TerminalAssumption, IInv, TypeOK, Settled, Ending, StillStep, Insert, Spawn, Cancelled, Drained,
         SkipResize, ResizeTaken, ResizeNotTaken, SkipWrite, WriteBlocked, WriteFails,
         Poll, PollEnds, Remove, Exit, thread
  <2>4. wanted' \in Nat /\ size' \in Nat /\ UNCHANGED <<asked, inputs>>
    BY DEF IInv, TypeOK, Settled, Ending, StillStep, Insert, Spawn, Cancelled, Drained,
         SkipResize, ResizeTaken, ResizeNotTaken, SkipWrite, WriteBlocked, WriteFails,
         Poll, PollEnds, Remove, Exit, thread, main, remote
  <2>5. QED
    BY <2>1, <2>2, <2>3, <2>4 DEF IInv, TypeOK
<1>6. QED
  BY <1>2, <1>3, <1>4, <1>5 DEF IInv

-----------------------------------------------------------------------------
(* Sequences of messages and chunks.                                       *)

LEMMA AppendFacts ==
  ASSUME NEW S, NEW s \in Seq(S), NEW e \in S
  PROVE  /\ Append(s, e) \in Seq(S) /\ Append(s, e) # <<>>
         /\ Len(s) \in Nat /\ Len(Append(s, e)) = Len(s) + 1
         /\ DOMAIN s = 1 .. Len(s) /\ DOMAIN Append(s, e) = 1 .. Len(s) + 1
         /\ \A i \in 1 .. Len(s) : Append(s, e)[i] = s[i]
         /\ Append(s, e)[Len(s) + 1] = e
  OBVIOUS

LEMMA TailFacts ==
  ASSUME NEW S, NEW s \in Seq(S), s # <<>>
  PROVE  /\ Tail(s) \in Seq(S) /\ Head(s) = s[1] /\ s[1] \in S
         /\ Len(s) \in Nat /\ Len(s) >= 1 /\ Len(Tail(s)) = Len(s) - 1
         /\ DOMAIN s = 1 .. Len(s) /\ DOMAIN Tail(s) = 1 .. Len(s) - 1
         /\ \A i \in 1 .. Len(s) - 1 : Tail(s)[i] = s[i + 1]
  OBVIOUS

LEMMA EmptyTail ==
  ASSUME NEW S, NEW s \in Seq(S), s # <<>>
  PROVE  Tail(s) = <<>> <=> Len(s) = 1
<1>1. Tail(s) \in Seq(S) /\ Len(Tail(s)) = Len(s) - 1 /\ Len(s) \in Nat
  BY TailFacts
<1>2. \A t \in Seq(S) : t = <<>> <=> Len(t) = 0
  OBVIOUS
<1>3. Tail(s) = <<>> <=> Len(Tail(s)) = 0
  BY <1>1, <1>2
<1>4. QED
  BY <1>1, <1>3

\* What the type invariant says of the numbers in the sequences.
LEMMA Numbers ==
  ASSUME TypeOK
  PROVE  /\ \A i \in DOMAIN mailbox : mailbox[i].to \in Nat /\ mailbox[i].from \in Nat
         /\ \A i \in DOMAIN queue : queue[i].to \in Nat /\ queue[i].from \in Nat
         /\ took.to \in Nat /\ took.from \in Nat /\ sent \in Nat
<1>1. /\ \A i \in DOMAIN mailbox : mailbox[i] \in Commands
      /\ \A i \in DOMAIN queue : queue[i] \in Chunks
  BY DEF TypeOK
<1>2. QED
  BY <1>1 DEF TypeOK, Commands, Chunks

-----------------------------------------------------------------------------
(* The steps of the main thread.                                           *)

\* A message that carries the next bytes keeps the order and the contiguity.
LEMMA PostKeepsOrder ==
  ASSUME IInv, Alive, NEW m \in Commands, m.from = sent, m.to >= sent,
         m.kind # "input" => m.from = m.to,
         mailbox' = Append(mailbox, m), sent' = m.to,
         UNCHANGED <<queue, took, pc>>
  PROVE  mailbox' \in Seq(Commands) /\ sent' \in Nat /\ Ordered' /\ Contiguous'
<1> USE DEF IInv, TypeOK
<1>1. /\ m.to \in Nat /\ m.from \in Nat
      /\ \A i \in DOMAIN mailbox : mailbox[i].to \in Nat /\ mailbox[i].from \in Nat
      /\ \A i \in DOMAIN queue : queue[i].to \in Nat /\ queue[i].from \in Nat
      /\ took.to \in Nat /\ took.from \in Nat /\ sent \in Nat
  BY Numbers DEF Commands
<1>2. mailbox' \in Seq(Commands) /\ sent' \in Nat
  BY <1>1, AppendFacts
<1>3. /\ Len(mailbox) \in Nat /\ Len(mailbox') = Len(mailbox) + 1 /\ mailbox' # <<>>
      /\ DOMAIN mailbox = 1 .. Len(mailbox) /\ DOMAIN mailbox' = 1 .. Len(mailbox) + 1
      /\ \A i \in 1 .. Len(mailbox) : mailbox'[i] = mailbox[i]
      /\ mailbox'[Len(mailbox) + 1] = m
  BY AppendFacts
<1>4. Ordered'
  <2>1. took.from <= took.to /\ took.to <= sent /\ InOrder(queue) /\ InOrder(mailbox)
    BY DEF Ordered
  <2>2. InOrder(queue)'
    BY <1>1, <2>1 DEF InOrder
  <2>3. InOrder(mailbox)'
    <3>1. \A i \in 1 .. Len(mailbox) + 1 : i \in 1 .. Len(mailbox) \/ i = Len(mailbox) + 1
      BY <1>3
    <3>2. \A i \in DOMAIN mailbox' : mailbox'[i].from <= mailbox'[i].to
                                   /\ mailbox'[i].to <= sent' /\ took.to <= mailbox'[i].from
      BY <1>1, <1>3, <2>1, <3>1 DEF InOrder
    <3>3. \A i, j \in DOMAIN mailbox' : i < j => i \in 1 .. Len(mailbox)
      BY <1>3
    <3>4. \A i, j \in DOMAIN mailbox' : i < j => mailbox'[i].to <= mailbox'[j].from
      BY <1>1, <1>3, <2>1, <3>1, <3>3 DEF InOrder
    <3>5. QED
      BY <3>2, <3>4 DEF InOrder
  <2>4. \A i \in DOMAIN queue, j \in DOMAIN mailbox' : queue[i].to <= mailbox'[j].from
    BY <1>1, <1>3, <2>1 DEF Ordered, InOrder
  <2>5. Signals'
    <3>1. \A i \in DOMAIN mailbox' : i \in DOMAIN mailbox \/ mailbox'[i] = m
      BY <1>3
    <3>2. QED
      BY <1>3, <3>1 DEF Ordered, Signals
  <2>6. (took.from <= took.to /\ took.to <= sent)'
    BY <1>1, <2>1
  <2>7. (\A i \in DOMAIN queue, j \in DOMAIN mailbox : queue[i].to <= mailbox[j].from)'
    BY <2>4
  <2>8. QED
    BY <2>2, <2>3, <2>5, <2>6, <2>7 DEF Ordered
<1>5. Contiguous'
  <2>1. Adjacent(mailbox)'
    BY <1>1, <1>3 DEF Contiguous, Adjacent, Alive
  <2>2. mailbox'[1].from = QueueEnd' /\ mailbox'[Len(mailbox')].to = sent'
    <3>1. CASE mailbox = <<>>
      BY <3>1, <1>3, EmptySequence DEF Contiguous, QueueEnd, Alive
    <3>2. CASE mailbox # <<>>
      BY <3>2, <1>3 DEF Contiguous, QueueEnd, Alive
    <3>3. QED
      BY <3>1, <3>2
  <2>3. QED
    BY <2>1, <2>2, <1>3 DEF Contiguous, Adjacent, Alive
<1>6. QED
  BY <1>2, <1>4, <1>5

LEMMA LookupPreserves == ASSUME IInv, NEW n \in Lengths, Lookup(n) PROVE IInv'
<1>1. TypeOK'
  BY TerminalAssumption DEF TerminalAssumption, IInv, TypeOK, Lookup, thread, remote
<1>2. InputAccounted' /\ Bounded'
  BY DEF IInv, InputAccounted, Bounded, Alive, Reserved, Lookup, Idle, remote
<1>3. EntryIsLive' /\ Settled' /\ Ordered' /\ Contiguous'
  BY DEF IInv, EntryIsLive, Settled, Ordered, Signals, InOrder, Contiguous, Adjacent, QueueEnd,
         Alive, Lookup, thread, remote
<1>4. QED
  BY <1>1, <1>2, <1>3 DEF IInv

LEMMA ReservePreserves == ASSUME IInv, Reserve PROVE IInv'
<1>1. pending \in Nat /\ caller.length \in Nat
  BY DEF IInv, TypeOK
<1>2. \/ /\ pending' = pending + caller.length /\ pending' <= Capacity
         /\ caller' = [step |-> "reserved", length |-> caller.length]
      \/ pending' = pending /\ caller' = Idle
  BY DEF Reserve, IInv, TypeOK
<1>3. caller.step = "found" /\ UNCHANGED <<pc, took, sent>>
  BY DEF Reserve, remote
<1>4. pending' \in Nat /\ caller' \in [step : {"idle", "found", "reserved"}, length : Nat]
  BY <1>1, <1>2 DEF Idle
<1>5. TypeOK'
  BY <1>4 DEF IInv, TypeOK, Reserve, thread, remote
<1>6. InputAccounted' /\ Bounded'
  BY <1>1, <1>2, <1>3, Numbers DEF IInv, InputAccounted, Bounded, Alive, Reserved, Idle
<1>7. EntryIsLive' /\ Settled' /\ Ordered' /\ Contiguous'
  BY DEF IInv, EntryIsLive, Settled, Ordered, Signals, InOrder, Contiguous, Adjacent, QueueEnd,
         Alive, Reserve, thread, remote
<1>8. QED
  BY <1>5, <1>6, <1>7 DEF IInv

LEMMA SendPreserves == ASSUME IInv, Send PROVE IInv'
<1>1. CASE Alive
  <2> DEFINE m == Message("input", caller.length, 0)
  <2>1. /\ m \in Commands /\ m.from = sent /\ m.to = sent + caller.length
        /\ caller.length \in Nat /\ m.kind = "input"
    BY DEF IInv, TypeOK, Commands, Message
  <2>2. /\ mailbox' = Append(mailbox, m) /\ sent' = m.to /\ m.to >= sent
        /\ UNCHANGED <<queue, took, pc>>
    BY <1>1, <2>1 DEF Send, thread, remote, IInv, TypeOK
  <2> HIDE DEF m
  <2>3. mailbox' \in Seq(Commands) /\ sent' \in Nat /\ Ordered' /\ Contiguous'
    BY <1>1, <2>1, <2>2, PostKeepsOrder
  <2>4. TypeOK'
    BY <1>1, <2>3 DEF IInv, TypeOK, Send, Idle, thread, remote
  <2>5. InputAccounted' /\ Bounded'
    BY <1>1, <2>1, <2>2 DEF IInv, TypeOK, Chunks, InputAccounted, Bounded, Alive, Reserved,
                            Send, Idle, remote
  <2>6. EntryIsLive' /\ Settled'
    BY DEF IInv, EntryIsLive, Settled, Send, thread
  <2>7. QED
    BY <2>3, <2>4, <2>5, <2>6 DEF IInv
<1>2. CASE ~Alive
  <2>1. TypeOK'
    BY <1>2, TerminalAssumption DEF TerminalAssumption, IInv, TypeOK, Bounded, Reserved, Send,
                                    Idle, thread, remote
  <2>2. InputAccounted' /\ Bounded'
    BY <1>2, TerminalAssumption DEF TerminalAssumption, IInv, TypeOK, InputAccounted, Bounded,
                                    Alive, Reserved, Send, Idle
  <2>3. EntryIsLive' /\ Settled' /\ Ordered' /\ Contiguous'
    BY <1>2 DEF IInv, EntryIsLive, Settled, Ordered, Signals, InOrder, Contiguous, Adjacent, QueueEnd,
                Alive, Send, thread, remote
  <2>4. QED
    BY <2>1, <2>2, <2>3 DEF IInv
<1>3. QED
  BY <1>1, <1>2

\* A message without bytes: a resize, a close.
LEMMA SignalPreserves ==
  ASSUME IInv, Alive, NEW kind \in {"resize", "close"}, NEW cols \in Nat,
         mailbox' = Append(mailbox, Message(kind, 0, cols)),
         entry' \in BOOLEAN, entry' => entry, asked' \in Seq(Nat),
         UNCHANGED <<pc, thread, pending, main, remote, sent>>
  PROVE  IInv'
<1> DEFINE m == Message(kind, 0, cols)
<1>1. m \in Commands /\ m.from = sent /\ m.to = sent /\ sent \in Nat
  BY DEF IInv, TypeOK, Commands, Message
<1>2. mailbox' = Append(mailbox, m)
  OBVIOUS
<1> HIDE DEF m
<1>3. mailbox' \in Seq(Commands) /\ Ordered' /\ Contiguous'
  BY <1>1, <1>2, PostKeepsOrder DEF thread, remote
<1>4. TypeOK'
  BY <1>3 DEF IInv, TypeOK, thread, main, remote
<1>5. InputAccounted' /\ Bounded' /\ EntryIsLive' /\ Settled'
  BY DEF IInv, InputAccounted, Bounded, Alive, Reserved, EntryIsLive, Settled, thread, main,
         remote
<1>6. QED
  BY <1>3, <1>4, <1>5 DEF IInv

LEMMA ResizePreserves == ASSUME IInv, NEW cols \in Sizes, Resize(cols) PROVE IInv'
<1>1. cols \in Nat /\ Clamp(cols) \in Nat
  BY TerminalAssumption DEF TerminalAssumption, Clamp
<1>2. asked' \in Seq(Nat)
  BY <1>1, AppendFacts DEF IInv, TypeOK, Resize
<1>3. QED
  BY <1>1, <1>2, SignalPreserves DEF Resize, IInv, TypeOK

LEMMA ClosePreserves == ASSUME IInv, Close PROVE IInv'
BY SignalPreserves DEF Close, IInv, TypeOK

LEMMA CloseServerPreserves == ASSUME IInv, CloseServer PROVE IInv'
<1>1. Alive
  BY DEF IInv, EntryIsLive, CloseServer, Alive
<1>2. QED
  BY <1>1, SignalPreserves DEF CloseServer, IInv, TypeOK

-----------------------------------------------------------------------------
(* The steps of the session thread that move bytes.                        *)

LEMMA ReceivePreserves == ASSUME IInv, Receive PROVE IInv'
<1> DEFINE m == Head(mailbox)
           chunk == [from |-> m.from, to |-> m.to]
           Moved ==
             /\ InOrder(queue)' /\ Adjacent(queue)'
             /\ queue' # <<>> => queue'[1].from = took.to
             /\ \A i \in DOMAIN queue', j \in DOMAIN mailbox' : queue'[i].to <= mailbox'[j].from
             /\ QueueEnd' = m.to /\ queue' \in Seq(Chunks)
             /\ queue # <<>> => queue' # <<>>
<1> USE DEF IInv
<1>1. /\ mailbox' = Tail(mailbox) /\ mailbox # <<>> /\ pc = "drain" /\ Alive
      /\ mailbox \in Seq(Commands) /\ queue \in Seq(Chunks)
      /\ UNCHANGED <<entry, retrying, failures, pending, main, remote, asked, sent>>
  BY DEF Receive, Alive, TypeOK
<1>2. /\ mailbox' \in Seq(Commands) /\ m = mailbox[1] /\ m \in Commands
      /\ Len(mailbox) \in Nat /\ Len(mailbox) >= 1 /\ Len(mailbox') = Len(mailbox) - 1
      /\ DOMAIN mailbox = 1 .. Len(mailbox) /\ DOMAIN mailbox' = 1 .. Len(mailbox) - 1
      /\ \A i \in 1 .. Len(mailbox) - 1 : mailbox'[i] = mailbox[i + 1]
      /\ mailbox' = <<>> <=> Len(mailbox) = 1
      /\ \A j \in DOMAIN mailbox' : \E i \in DOMAIN mailbox : i = j + 1 /\ mailbox'[j] = mailbox[i]
  <2>1. /\ mailbox' \in Seq(Commands) /\ m = mailbox[1] /\ m \in Commands
        /\ Len(mailbox) \in Nat /\ Len(mailbox) >= 1 /\ Len(mailbox') = Len(mailbox) - 1
        /\ DOMAIN mailbox = 1 .. Len(mailbox) /\ DOMAIN mailbox' = 1 .. Len(mailbox) - 1
        /\ \A i \in 1 .. Len(mailbox) - 1 : mailbox'[i] = mailbox[i + 1]
        /\ mailbox' = <<>> <=> Len(mailbox) = 1
    BY <1>1, TailFacts, EmptyTail
  <2>2. \A j \in DOMAIN mailbox' : \E i \in DOMAIN mailbox : i = j + 1 /\ mailbox'[j] = mailbox[i]
    BY <2>1
  <2>3. QED
    BY <2>1, <2>2
<1>3. /\ m.from \in Nat /\ m.to \in Nat /\ m.size \in Nat
      /\ m.kind \in {"input", "resize", "close"} /\ chunk \in Chunks
  BY <1>2 DEF Commands, Chunks
<1>4. /\ m.from <= m.to /\ m.to <= sent /\ took.to <= m.from /\ m.from = QueueEnd
      /\ m.kind # "input" => m.from = m.to
      /\ \A i \in DOMAIN queue : queue[i].to <= m.from
      /\ \A j \in 1 .. Len(mailbox) - 1 : m.to <= mailbox'[j].from
      /\ mailbox' = <<>> => m.to = sent
      /\ mailbox' # <<>> => mailbox'[1].from = m.to
                          /\ mailbox'[Len(mailbox')].to = sent
  <2>1. /\ m.from <= m.to /\ m.to <= sent /\ took.to <= m.from /\ m.from = QueueEnd
        /\ m.kind # "input" => m.from = m.to
        /\ \A i \in DOMAIN queue : queue[i].to <= m.from
    BY <1>1, <1>2 DEF Ordered, Signals, InOrder, Contiguous
  <2>2. ASSUME NEW j \in 1 .. Len(mailbox) - 1 PROVE m.to <= mailbox'[j].from
    <3>1. 1 \in DOMAIN mailbox /\ j + 1 \in DOMAIN mailbox /\ 1 < j + 1
      BY <1>2
    <3>2. InOrder(mailbox) /\ mailbox'[j] = mailbox[j + 1]
      BY <1>2 DEF Ordered
    <3>3. QED
      BY <1>2, <3>1, <3>2 DEF InOrder
  <2>3. mailbox' = <<>> => m.to = sent
    BY <1>1, <1>2 DEF Contiguous
  <2>4. mailbox' # <<>> => mailbox'[1].from = m.to /\ mailbox'[Len(mailbox')].to = sent
    BY <1>1, <1>2 DEF Contiguous, Adjacent
  <2>5. QED
    BY <2>1, <2>2, <2>3, <2>4
<1>5. \/ m.from < m.to /\ queue' = Append(queue, chunk)
      \/ m.from = m.to /\ queue' = queue
  <2>1. CASE m.kind = "input"
    <3>1. Enqueue(chunk)
      BY <2>1 DEF Receive
    <3>2. QED
      BY <1>3, <1>4, <3>1 DEF Enqueue
  <2>2. CASE m.kind # "input"
    BY <1>3, <1>4, <2>2 DEF Receive
  <2>3. QED
    BY <2>1, <2>2
<1>6. /\ pc' \in {"drain", "closing"} /\ wanted' \in Nat
  BY <1>3, TerminalAssumption DEF TerminalAssumption, Receive, End, Want, Clamp, TypeOK
<1> HIDE DEF m, chunk
<1>7. /\ Len(queue) \in Nat /\ DOMAIN queue = 1 .. Len(queue)
      /\ \A i \in DOMAIN queue : queue[i].to \in Nat /\ queue[i].from \in Nat
      /\ \A i \in DOMAIN mailbox : mailbox[i].to \in Nat /\ mailbox[i].from \in Nat
      /\ sent \in Nat /\ took.to \in Nat /\ UNCHANGED <<sent, took, caller>>
  BY <1>1, Numbers DEF main, remote
<1>8. ASSUME m.from < m.to, queue' = Append(queue, chunk) PROVE Moved
  <2>1. /\ queue' \in Seq(Chunks) /\ queue' # <<>> /\ Len(queue') = Len(queue) + 1
        /\ DOMAIN queue' = 1 .. Len(queue) + 1
        /\ \A i \in 1 .. Len(queue) : queue'[i] = queue[i]
        /\ queue'[Len(queue) + 1] = chunk /\ chunk.from = m.from /\ chunk.to = m.to
    BY <1>1, <1>3, <1>8, AppendFacts DEF chunk
  <2>2. \A i \in 1 .. Len(queue) + 1 : i \in 1 .. Len(queue) \/ i = Len(queue) + 1
    BY <1>7
  <2>3. InOrder(queue)'
    <3>1. \A i \in DOMAIN queue' : queue'[i].from <= queue'[i].to
                                  /\ queue'[i].to <= sent /\ took.to <= queue'[i].from
      BY <1>3, <1>4, <1>7, <2>1, <2>2 DEF Ordered, InOrder
    <3>2. \A i, j \in DOMAIN queue' : i < j => i \in 1 .. Len(queue)
      BY <1>7, <2>1
    <3>3. \A i, j \in DOMAIN queue' : i < j => queue'[i].to <= queue'[j].from
      BY <1>3, <1>4, <1>7, <2>1, <2>2, <3>2 DEF Ordered, InOrder
    <3>4. QED
      BY <1>7, <3>1, <3>3 DEF InOrder
  <2>4. \A i \in DOMAIN queue', j \in DOMAIN mailbox' : queue'[i].to <= mailbox'[j].from
    <3>1. \A i \in 1 .. Len(queue), j \in DOMAIN mailbox' : queue[i].to <= mailbox'[j].from
      BY <1>2, <1>7 DEF Ordered
    <3>2. QED
      BY <1>2, <1>4, <1>7, <2>1, <2>2, <3>1
  <2>5. Adjacent(queue)' /\ (queue' # <<>> => queue'[1].from = took.to)
    <3>1. CASE queue = <<>>
      BY <3>1, <1>4, <1>7, <2>1, EmptySequence DEF Adjacent, QueueEnd
    <3>2. CASE queue # <<>>
      <4>1. Len(queue) >= 1 /\ m.from = queue[Len(queue)].to
        BY <3>2, <1>1, <1>4, TailFacts DEF QueueEnd
      <4>2. queue'[Len(queue)].to = queue'[Len(queue) + 1].from
        BY <1>7, <2>1, <4>1
      <4>3. \A i \in 1 .. Len(queue) - 1 : queue'[i].to = queue'[i + 1].from
        BY <1>7, <2>1 DEF Contiguous, Adjacent
      <4>4. \A i \in 1 .. Len(queue) : i \in 1 .. Len(queue) - 1 \/ i = Len(queue)
        <5>1. \A n \in Nat : \A i \in 1 .. n : i \in 1 .. n - 1 \/ i = n
          OBVIOUS
        <5>2. Len(queue) \in Nat
          BY <1>7
        <5>3. QED
          BY <5>1, <5>2
      <4>5. QED
        <5>1. Adjacent(queue)'
          <6>1. \A i \in 1 .. Len(queue) : queue'[i].to = queue'[i + 1].from
            BY <4>2, <4>3, <4>4
          <6>2. Len(queue') - 1 = Len(queue)
            BY <1>7, <2>1
          <6>3. QED
            BY <6>1, <6>2 DEF Adjacent
        <5>2. queue'[1].from = took.to
          BY <3>2, <1>7, <2>1, <4>1 DEF Contiguous
        <5>3. QED
          BY <5>1, <5>2
    <3>3. QED
      BY <3>1, <3>2
  <2>6. QueueEnd' = m.to
    BY <2>1 DEF QueueEnd
  <2>7. queue' \in Seq(Chunks) /\ queue' # <<>>
    BY <2>1
  <2>8. QED
    BY <2>3, <2>4, <2>5, <2>6, <2>7
<1>9. ASSUME m.from = m.to, queue' = queue PROVE Moved
  <2>1. QueueEnd' = m.to
    BY <1>4, <1>7, <1>9 DEF QueueEnd
  <2>2. InOrder(queue)' /\ Adjacent(queue)' /\ (queue' # <<>> => queue'[1].from = took.to)
    BY <1>7, <1>9 DEF Ordered, InOrder, Contiguous, Adjacent
  <2>3. \A i \in DOMAIN queue', j \in DOMAIN mailbox' : queue'[i].to <= mailbox'[j].from
    BY <1>2, <1>7, <1>9 DEF Ordered
  <2>4. QED
    BY <1>1, <1>9, <2>1, <2>2, <2>3
<1> HIDE DEF Moved
<1>10. Moved
  BY <1>5, <1>8, <1>9
<1>11. InOrder(mailbox)' /\ Adjacent(mailbox)' /\ Signals'
  <2>1. InOrder(mailbox)'
    <3>1. InOrder(mailbox)
      BY DEF Ordered
    <3>2. \A j \in DOMAIN mailbox' : mailbox'[j].from <= mailbox'[j].to
                                   /\ mailbox'[j].to <= sent /\ took.to <= mailbox'[j].from
      BY <1>2, <3>1 DEF InOrder
    <3>3. ASSUME NEW i \in DOMAIN mailbox', NEW j \in DOMAIN mailbox', i < j
          PROVE  mailbox'[i].to <= mailbox'[j].from
      <4>1. i + 1 \in DOMAIN mailbox /\ j + 1 \in DOMAIN mailbox /\ i + 1 < j + 1
        BY <1>2, <3>3
      <4>2. mailbox'[i] = mailbox[i + 1] /\ mailbox'[j] = mailbox[j + 1]
        BY <1>2
      <4>3. QED
        BY <3>1, <4>1, <4>2 DEF InOrder
    <3>4. QED
      BY <1>7, <3>2, <3>3 DEF InOrder
  <2>2. Adjacent(mailbox)' /\ Signals'
    BY <1>1, <1>2, <1>7 DEF Ordered, Signals, Contiguous, Adjacent
  <2>3. QED
    BY <2>1, <2>2
<1>12. Ordered' /\ Contiguous'
  BY <1>4, <1>7, <1>10, <1>11 DEF Ordered, Contiguous, Moved
<1>13. TypeOK'
  BY <1>1, <1>2, <1>6, <1>10 DEF Moved, TypeOK, Steps, Ending, main, remote
<1>14. InputAccounted' /\ Bounded' /\ EntryIsLive' /\ Settled'
  BY <1>1, <1>6, <1>7, <1>10 DEF Moved, InputAccounted, Bounded, EntryIsLive, Settled, Alive, Reserved,
                              Ending
<1>15. QED
  BY <1>12, <1>13, <1>14

LEMMA WriteTakenPreserves == ASSUME IInv, WriteTaken PROVE IInv'
<1> USE DEF IInv
<1>1. PICK upTo \in Head(queue).from + 1 .. Head(queue).to :
        /\ took' = [from |-> Head(queue).from, to |-> upTo]
        /\ Advance(upTo) /\ Release(upTo)
  BY DEF WriteTaken
<1>2. /\ queue # <<>> /\ queue \in Seq(Chunks) /\ Alive
      /\ pc' = "poll" /\ retrying' = FALSE
      /\ UNCHANGED <<entry, mailbox, wanted, failures, main, size, asked, sent>>
  BY DEF WriteTaken, TypeOK, Alive
<1>3. /\ Tail(queue) \in Seq(Chunks) /\ Head(queue) = queue[1] /\ queue[1] \in Chunks
      /\ Len(queue) \in Nat /\ Len(queue) >= 1 /\ Len(Tail(queue)) = Len(queue) - 1
      /\ DOMAIN queue = 1 .. Len(queue) /\ DOMAIN Tail(queue) = 1 .. Len(queue) - 1
      /\ \A i \in 1 .. Len(queue) - 1 : Tail(queue)[i] = queue[i + 1]
      /\ Tail(queue) = <<>> <=> Len(queue) = 1
  BY <1>2, TailFacts, EmptyTail
<1>4. /\ \A i \in DOMAIN queue : queue[i].to \in Nat /\ queue[i].from \in Nat
      /\ \A i \in DOMAIN mailbox : mailbox[i].to \in Nat /\ mailbox[i].from \in Nat
      /\ sent \in Nat /\ took.to \in Nat /\ took.from \in Nat
  BY Numbers
<1>5. /\ upTo \in Nat /\ queue[1].from < upTo /\ upTo <= queue[1].to /\ queue[1].to <= sent
      /\ took.to = queue[1].from /\ took'.from = took.to /\ took'.to = upTo /\ took' \in Chunks
  <2>1. queue[1].from \in Nat /\ queue[1].to \in Nat /\ upTo \in queue[1].from + 1 .. queue[1].to
    BY <1>1, <1>3 DEF Chunks
  <2>. upTo \in Nat /\ queue[1].from < upTo /\ upTo <= queue[1].to
    BY <2>1
  <2>. took' \in Chunks
    BY <1>1, <1>3, <2>1 DEF Chunks
  <2>2. queue[1].to <= sent /\ took.to = queue[1].from
    BY <1>2, <1>3 DEF Ordered, InOrder, Contiguous
  <2>3. QED
    BY <1>1, <1>3, <2>1, <2>2
\* What is left of the queue begins where the write ended.
<1> DEFINE Left ==
      /\ queue' \in Seq(Chunks)
      /\ InOrder(queue)' /\ Adjacent(queue)'
      /\ queue' # <<>> => queue'[1].from = upTo
      /\ \A i \in DOMAIN queue', j \in DOMAIN mailbox : queue'[i].to <= mailbox[j].from
      /\ QueueEnd' = QueueEnd
<1>6. ASSUME upTo = queue[1].to PROVE Left
  <2>1. queue' = Tail(queue)
    BY <1>1, <1>3, <1>6 DEF Advance
  <2>2. \A i \in DOMAIN queue' : i + 1 \in DOMAIN queue /\ queue'[i] = queue[i + 1]
    BY <1>3, <2>1
  <2>3. InOrder(queue)'
    <3>1. InOrder(queue)
      BY DEF Ordered
    <3>2. ASSUME NEW i \in DOMAIN queue' PROVE upTo <= queue[i + 1].from
      <4>1. 1 \in DOMAIN queue /\ i + 1 \in DOMAIN queue /\ 1 < i + 1
        BY <1>3, <2>1, <2>2
      <4>2. QED
        BY <1>6, <3>1, <4>1 DEF InOrder
    <3>3. \A i \in DOMAIN queue' : queue'[i].from <= queue'[i].to
                                 /\ queue'[i].to <= sent /\ upTo <= queue'[i].from
      BY <2>2, <3>1, <3>2 DEF InOrder
    <3>4. ASSUME NEW i \in DOMAIN queue', NEW j \in DOMAIN queue', i < j
          PROVE  queue'[i].to <= queue'[j].from
      <4>1. i + 1 \in DOMAIN queue /\ j + 1 \in DOMAIN queue /\ i + 1 < j + 1
        BY <1>3, <2>1, <3>4
      <4>2. QED
        BY <2>2, <3>1, <4>1 DEF InOrder
    <3>5. QED
      BY <1>2, <1>5, <3>3, <3>4 DEF InOrder
  <2>4. \A i \in DOMAIN queue', j \in DOMAIN mailbox : queue'[i].to <= mailbox[j].from
    BY <2>2 DEF Ordered
  <2>5. Adjacent(queue)'
    <3>1. ASSUME NEW i \in 1 .. Len(queue') - 1 PROVE queue'[i].to = queue'[i + 1].from
      <4>1. i \in DOMAIN queue' /\ i + 1 \in DOMAIN queue' /\ i + 1 \in 1 .. Len(queue) - 1
        BY <1>3, <2>1
      <4>2. queue[i + 1].to = queue[i + 1 + 1].from
        BY <4>1 DEF Contiguous, Adjacent
      <4>3. QED
        BY <2>2, <4>1, <4>2
    <3>2. QED
      BY <3>1 DEF Adjacent
  <2>6. CASE Len(queue) = 1
    BY <1>2, <1>3, <1>5, <1>6, <2>1, <2>3, <2>4, <2>5, <2>6 DEF QueueEnd
  <2>7. CASE Len(queue) > 1
    <3>1. queue' # <<>> /\ 1 \in DOMAIN queue' /\ Len(queue) - 1 \in DOMAIN queue'
      BY <1>3, <2>1, <2>7
    <3>2. queue'[1] = queue[2] /\ queue'[Len(queue')] = queue[Len(queue)]
      BY <1>3, <2>1, <2>2, <3>1
    <3>3. queue[2].from = queue[1].to
      BY <1>3, <2>7 DEF Contiguous, Adjacent
    <3>4. QED
      BY <1>2, <1>3, <1>6, <2>1, <2>3, <2>4, <2>5, <3>1, <3>2, <3>3 DEF QueueEnd
  <2>8. QED
    BY <1>3, <2>6, <2>7
<1>7. ASSUME upTo # queue[1].to PROVE Left
  <2>1. queue' = [queue EXCEPT ![1].from = upTo]
    BY <1>1, <1>3, <1>7 DEF Advance
  <2> DEFINE rest == [queue[1] EXCEPT !.from = upTo]
  <2>a. rest \in Chunks /\ rest.from = upTo /\ rest.to = queue[1].to
    BY <1>3, <1>5 DEF Chunks
  <2>b. queue' = [queue EXCEPT ![1] = rest]
    BY <2>1
  <2> HIDE DEF rest
  <2>2. /\ queue' \in Seq(Chunks) /\ queue' # <<>> /\ Len(queue') = Len(queue)
        /\ DOMAIN queue' = DOMAIN queue
    BY <1>2, <1>3, <2>a, <2>b
  <2>3. /\ queue'[1].from = upTo /\ queue'[1].to = queue[1].to
        /\ \A i \in 2 .. Len(queue) : queue'[i] = queue[i]
        /\ \A i \in DOMAIN queue : queue'[i].to = queue[i].to
    BY <1>2, <1>3, <2>a, <2>b
  <2>4. \A i \in DOMAIN queue : i = 1 \/ i \in 2 .. Len(queue)
    BY <1>3
  <2>5. InOrder(queue)'
    <3>1. InOrder(queue)
      BY DEF Ordered
    <3>2. ASSUME NEW i \in 2 .. Len(queue) PROVE upTo <= queue[i].from
      <4>1. 1 \in DOMAIN queue /\ i \in DOMAIN queue /\ 1 < i
        BY <1>3
      <4>2. queue[1].to <= queue[i].from
        BY <3>1, <4>1 DEF InOrder
      <4>3. QED
        BY <1>4, <1>5, <4>1, <4>2
    <3>3. \A i \in DOMAIN queue' : queue'[i].from <= queue'[i].to
                                 /\ queue'[i].to <= sent /\ upTo <= queue'[i].from
      BY <1>3, <1>5, <2>2, <2>3, <2>4, <3>1, <3>2 DEF InOrder
    <3>4. ASSUME NEW i \in DOMAIN queue', NEW j \in DOMAIN queue', i < j
          PROVE  queue'[i].to <= queue'[j].from
      <4>1. j \in 2 .. Len(queue) /\ i \in DOMAIN queue
        BY <1>3, <2>2, <3>4
      <4>2. QED
        BY <2>2, <2>3, <3>1, <3>4, <4>1 DEF InOrder
    <3>5. QED
      BY <1>2, <1>5, <3>3, <3>4 DEF InOrder
  <2>6. \A i \in DOMAIN queue', j \in DOMAIN mailbox : queue'[i].to <= mailbox[j].from
    BY <2>2, <2>3 DEF Ordered
  <2>7. Adjacent(queue)'
    <3>1. ASSUME NEW i \in 1 .. Len(queue') - 1 PROVE queue'[i].to = queue'[i + 1].from
      <4>1. i \in DOMAIN queue /\ i + 1 \in 2 .. Len(queue) /\ i \in 1 .. Len(queue) - 1
        BY <1>3, <2>2
      <4>2. QED
        BY <2>3, <4>1 DEF Contiguous, Adjacent
    <3>2. QED
      BY <3>1 DEF Adjacent
  <2>8. QueueEnd' = QueueEnd
    BY <1>2, <1>3, <2>2, <2>3 DEF QueueEnd
  <2>9. QED
    BY <2>2, <2>3, <2>5, <2>6, <2>7, <2>8
<1>8. Left
  BY <1>6, <1>7
<1> HIDE DEF Left
<1>9. InOrder(mailbox)' /\ Signals' /\ Adjacent(mailbox)'
  <2>1. \A i \in DOMAIN mailbox : upTo <= mailbox[i].from
    BY <1>2, <1>3, <1>4, <1>5 DEF Ordered
  <2>2. QED
    BY <1>2, <1>5, <2>1 DEF Ordered, InOrder, Signals, Contiguous, Adjacent
<1>10. Ordered' /\ Contiguous'
  BY <1>2, <1>4, <1>5, <1>8, <1>9 DEF Left, Ordered, Contiguous, Alive
<1>11. pending' = pending - (upTo - took.to) /\ pending \in Nat /\ Capacity \in Nat
  BY <1>1, <1>3, <1>5, TerminalAssumption DEF Release, TerminalAssumption, TypeOK
<1>12. InputAccounted' /\ Bounded' /\ pending' \in Nat
  <2>1. Reserved \in Nat /\ Reserved' = Reserved
    BY <1>2 DEF Reserved, TypeOK, main
  <2>2. pending = Reserved + (sent - took.to) /\ pending <= Capacity /\ sent' = sent
    BY <1>2 DEF InputAccounted, Bounded
  <2>3. pending' = Reserved + (sent - upTo) /\ upTo <= sent /\ took.to < upTo
    <3>1. upTo <= sent /\ took.to < upTo /\ upTo \in Nat
      BY <1>3, <1>4, <1>5
    <3>2. QED
      BY <1>4, <1>11, <2>1, <2>2, <3>1
  <2>4. pending' \in Nat /\ Reserved <= pending' /\ pending' <= Capacity
    BY <1>4, <1>5, <1>11, <2>1, <2>2, <2>3
  <2>5. QED
    BY <1>2, <1>5, <2>1, <2>3, <2>4 DEF InputAccounted, Bounded
<1>13. TypeOK' /\ EntryIsLive' /\ Settled'
  BY <1>2, <1>5, <1>8, <1>12 DEF Left, TypeOK, Steps, EntryIsLive, Settled, Ending, main, Alive, WriteTaken
<1>14. QED
  BY <1>10, <1>12, <1>13

-----------------------------------------------------------------------------
(* The theorems.                                                           *)

LEMMA StepPreserves == IInv /\ [Next]_vars => IInv'
<1> SUFFICES ASSUME IInv, [Next]_vars PROVE IInv'
  OBVIOUS
<1>1. CASE Start
  BY <1>1, StillStepsPreserve DEF Start, StillStep
<1>2. CASE Command
  BY <1>2, LookupPreserves, ReservePreserves, SendPreserves, ResizePreserves, ClosePreserves,
     CloseServerPreserves DEF Command
<1>3. CASE Thread
  BY <1>3, StillStepsPreserve, ReceivePreserves, WriteTakenPreserves DEF Thread, StillStep
<1>4. CASE UNCHANGED vars
  BY <1>4 DEF vars, thread, main, remote, IInv, TypeOK, InputAccounted, EntryIsLive, Ordered,
              Signals, InOrder, Contiguous, Adjacent, QueueEnd, Bounded, Settled, Alive,
              Reserved
<1>5. QED
  BY <1>1, <1>2, <1>3, <1>4 DEF Next

\* The inductive invariant holds throughout.
THEOREM InvariantHolds == Spec => []IInv
BY InitEstablishes, StepPreserves, PTL DEF Spec

\* The variables keep their types (terminal.rs, start and its session thread).
THEOREM TypeCorrect == Spec => []TypeOK
<1>1. IInv => TypeOK
  BY DEF IInv
<1>2. QED
  BY <1>1, InvariantHolds, PTL

\* The shared counter is exact while the session thread lives, however its
\* partial writes interleave with the input of the main thread.
THEOREM CounterIsExact == Spec => []InputAccounted
<1>1. IInv => InputAccounted
  BY DEF IInv
<1>2. QED
  BY <1>1, InvariantHolds, PTL

\* No entry of the session map outlives the session's thread.
THEOREM EntriesAreLive == Spec => []EntryIsLive
<1>1. IInv => EntryIsLive
  BY DEF IInv
<1>2. QED
  BY <1>1, InvariantHolds, PTL

-----------------------------------------------------------------------------
(* Refinement: the terminal is a bounded, ordered, loss-free pipe.         *)

LEMMA WriteDelivers == ASSUME IInv, WriteTaken PROVE Pipe!Deliver
<1>1. PICK upTo \in Head(queue).from + 1 .. Head(queue).to :
        took' = [from |-> Head(queue).from, to |-> upTo]
  BY DEF WriteTaken
<1>2. /\ queue # <<>> /\ Head(queue) = queue[1] /\ 1 \in DOMAIN queue
      /\ queue[1].from \in Nat /\ queue[1].to \in Nat /\ sent \in Nat
  BY TailFacts, Numbers DEF IInv, TypeOK, WriteTaken
<1>3. queue[1].from = took.to /\ queue[1].to <= sent
  BY <1>2 DEF IInv, Contiguous, Ordered, InOrder
<1>4. took'.from = took.to /\ took'.to \in took.to + 1 .. sent
  BY <1>1, <1>2, <1>3
<1>5. pc = "write" /\ pc' = "poll" /\ sent' = sent
  BY DEF WriteTaken
<1>6. QED
  BY <1>4, <1>5 DEF Pipe!Deliver, Ending

LEMMA SendAccepts == ASSUME IInv, Send PROVE Pipe!Accept \/ UNCHANGED Pipe!pipe
<1>1. CASE Alive
  <2>1. /\ sent' = sent + caller.length /\ UNCHANGED <<took, pc>> /\ caller.length \in Nat
        /\ pending <= Capacity /\ pending = caller.length + (sent - took.to)
    BY <1>1 DEF Send, IInv, TypeOK, Bounded, InputAccounted, Reserved, remote
  <2>2. sent \in Nat /\ took.to \in Nat /\ Capacity \in Nat
    BY Numbers, TerminalAssumption DEF IInv, TerminalAssumption
  <2>3. sent' >= sent /\ sent' - took.to <= Capacity
    BY <2>1, <2>2
  <2>4. QED
    BY <2>1, <2>3 DEF Pipe!Accept
<1>2. CASE ~Alive
  BY <1>2 DEF Send, Pipe!pipe, remote
<1>3. QED
  BY <1>1, <1>2

LEMMA OthersCloseOrStutter ==
  ASSUME UNCHANGED <<sent, took>>, pc \in Ending => pc' \in Ending
  PROVE  Pipe!Close \/ UNCHANGED Pipe!pipe
BY DEF Pipe!Close, Pipe!pipe

LEMMA StepRefines ==
  IInv /\ [Next]_vars => [Pipe!Accept \/ Pipe!Deliver \/ Pipe!Close]_(Pipe!pipe)
<1> SUFFICES ASSUME IInv, [Next]_vars
             PROVE  Pipe!Accept \/ Pipe!Deliver \/ Pipe!Close \/ UNCHANGED Pipe!pipe
  OBVIOUS
<1>1. CASE WriteTaken
  BY <1>1, WriteDelivers
<1>2. CASE Send
  BY <1>2, SendAccepts
<1>3. CASE StillStep
  BY <1>3, OthersCloseOrStutter DEF StillStep, Insert, Spawn, Cancelled, Drained, SkipResize,
     ResizeTaken, ResizeNotTaken, SkipWrite, WriteBlocked, WriteFails, Poll, PollEnds, Remove,
     Exit, Ending, remote
<1>4. CASE Receive
  BY <1>4, OthersCloseOrStutter DEF Receive, Ending, remote
<1>5. CASE \/ \E n \in Lengths : Lookup(n)
           \/ Reserve
           \/ \E cols \in Sizes : Resize(cols)
           \/ Close
           \/ CloseServer
  BY <1>5, OthersCloseOrStutter DEF Lookup, Reserve, Resize, Close, CloseServer, remote
<1>6. CASE UNCHANGED vars
  BY <1>6, OthersCloseOrStutter DEF vars, remote
<1>7. QED
  BY <1>1, <1>2, <1>3, <1>4, <1>5, <1>6 DEF Next, Start, Command, Thread, StillStep

\* Keyboard input reaches the channel in the order in which it was accepted,
\* each byte once, never more than Capacity bytes on their way, and nothing
\* once the loop ended (terminal.rs, input and the session thread).
THEOREM TerminalIsAPipe == Spec => ImplementsPipe
<1>1. Init => Pipe!Init
  BY DEF Init, Pipe!Init, Ending
<1>2. QED
  BY <1>1, InvariantHolds, StepRefines, PTL DEF Spec, ImplementsPipe, Pipe!Spec

-----------------------------------------------------------------------------
(* Retries.                                                                *)

\* A write that waits to be retried never lets the loop get as far as the
\* read and the keepalive.
NoPollBeforeRetry == retrying => pc # "poll"

\* Whoever receives a chunk while others wait puts it behind them; the loop
\* that empties the mailbox goes on or ends.
LEMMA ReceiveKeepsHead ==
  ASSUME IInv, Receive
  PROVE  /\ queue # <<>> => queue' # <<>> /\ Head(queue') = Head(queue)
         /\ pc' \in {"drain", "closing"}
<1> DEFINE m == Head(mailbox)
           chunk == [from |-> m.from, to |-> m.to]
<1>1. m \in Commands /\ queue \in Seq(Chunks)
  BY TailFacts DEF IInv, TypeOK, Receive
<1>2. chunk \in Chunks /\ m.kind \in {"input", "resize", "close"}
  BY <1>1 DEF Commands, Chunks
<1>3. queue' = queue \/ queue' = Append(queue, chunk)
  BY <1>2 DEF Receive, Enqueue
<1> HIDE DEF chunk
<1>4. ASSUME queue # <<>>
      PROVE  Head(Append(queue, chunk)) = Head(queue) /\ Append(queue, chunk) # <<>>
  <2>1. /\ Append(queue, chunk) \in Seq(Chunks) /\ Append(queue, chunk) # <<>>
        /\ \A i \in 1 .. Len(queue) : Append(queue, chunk)[i] = queue[i]
    BY <1>1, <1>2, AppendFacts
  <2>2. Len(queue) \in Nat /\ Len(queue) >= 1 /\ Head(queue) = queue[1]
    BY <1>1, <1>4, TailFacts
  <2>3. Head(Append(queue, chunk)) = Append(queue, chunk)[1]
    BY <2>1, TailFacts
  <2>4. QED
    BY <2>1, <2>2, <2>3
<1>5. pc' \in {"drain", "closing"}
  BY <1>2 DEF Receive, End
<1>6. QED
  BY <1>3, <1>4, <1>5

LEMMA StepKeepsRetry == IInv /\ NoPollBeforeRetry /\ [Next]_vars => NoPollBeforeRetry'
<1> SUFFICES ASSUME IInv, NoPollBeforeRetry, [Next]_vars PROVE NoPollBeforeRetry'
  OBVIOUS
<1> USE DEF NoPollBeforeRetry, IInv, Settled
<1>1. CASE Start
  BY <1>1 DEF Start, Insert, Spawn, Cancelled, thread
<1>2. CASE Command
  BY <1>2 DEF Command, Lookup, Reserve, Send, Resize, Close, CloseServer, thread
<1>3. CASE Thread
  BY <1>3, ReceiveKeepsHead
     DEF Thread, Drained, SkipResize, ResizeTaken, ResizeNotTaken, SkipWrite,
         WriteTaken, WriteBlocked, WriteFails, Poll, PollEnds, Remove, Exit, thread
<1>4. CASE UNCHANGED vars
  BY <1>4 DEF vars, thread
<1>5. QED
  BY <1>1, <1>2, <1>3, <1>4 DEF Next

\* What libssh2 requires of a write that it answered with "again": the very
\* same bytes are offered next, and no resize or keepalive goes out before
\* (terminal.rs, the loop of the session thread).
THEOREM RetryIsTheSameWrite == Spec => RetriesSameWrite
<1> DEFINE Same ==
      retrying /\ Alive =>
        /\ size' = size /\ failures' = failures
        /\ pc' = "poll" => ~retrying'
        /\ retrying' => queue # <<>> /\ queue' # <<>> /\ Head(queue') = Head(queue)
<1>1. IInv /\ NoPollBeforeRetry /\ [Next]_vars => [Same]_vars
  <2> SUFFICES ASSUME IInv, NoPollBeforeRetry, Next, retrying PROVE Same
    OBVIOUS
  <2>1. queue # <<>> /\ pc # "poll"
    BY DEF IInv, Settled, NoPollBeforeRetry
  <2>2. CASE Start
    BY <2>1, <2>2 DEF Start, Insert, Spawn, Cancelled, thread, remote
  <2>3. CASE Command
    BY <2>1, <2>3 DEF Command, Lookup, Reserve, Send, Resize, Close, CloseServer, thread, remote
  <2>4. CASE Receive
    BY <2>1, <2>4, ReceiveKeepsHead DEF Receive, remote
  <2>5. CASE WriteTaken
    BY <2>1, <2>5 DEF WriteTaken
  <2>6. CASE \/ Drained \/ SkipResize \/ ResizeTaken \/ ResizeNotTaken
             \/ SkipWrite \/ WriteBlocked \/ WriteFails
             \/ Poll \/ PollEnds \/ Remove \/ Exit
    BY <2>1, <2>6 DEF Drained, SkipResize, MaySendResize, ResizeTaken, ResizeNotTaken, SkipWrite,
       WriteBlocked, WriteFails, Poll, PollEnds, Remove, Exit, thread, remote
  <2>7. QED
    BY <2>2, <2>3, <2>4, <2>5, <2>6 DEF Next, Thread
<1>2. Init => NoPollBeforeRetry
  BY DEF Init, NoPollBeforeRetry
<1>3. QED
  BY <1>1, <1>2, InvariantHolds, StepKeepsRetry, PTL DEF Spec, RetriesSameWrite
=============================================================================
