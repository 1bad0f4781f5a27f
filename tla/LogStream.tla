----------------------------- MODULE LogStream -----------------------------
(***************************************************************************)
(* log_stream.rs and the log viewer of main.ts: a log that is followed.    *)
(* The viewer makes an identifier, starts a stream under it, shows what    *)
(* comes in events of that identifier, and closes streams it no longer     *)
(* wants.  A stream has a connection and a thread of its own; the thread   *)
(* reads bytes, decodes them and emits the text.                           *)
(*                                                                         *)
(* The user follows, pauses, leaves the view and comes back at any time;   *)
(* replies of commands and events of threads come in any relative order.   *)
(***************************************************************************)
EXTENDS Naturals, Sequences

Sequence == INSTANCE SequencesExt

CONSTANTS Streams,   \* identifiers, each used once
          Outputs,   \* bounds: what may be printed to each, as characters,
          LogHosts,  \* what it allows its user,
          MaxEvents, \* how far output runs ahead of the viewer
          NoStream

ASSUME LogStreamAssumption == NoStream \notin Streams

VARIABLES viewer,     \* the viewer: its identifier, and whether it is on screen
          following,  \* where each startLogFollowing stands, by its identifier
          awaited,    \* the stream whose close it waits for
          ahead,      \* those that waited when its own start was sent
          stream,     \* each stream of log_stream.rs
          closeAsked, \* streams with a message in their close channel
          closing,    \* close_log_stream commands under way
          bus,        \* events of the viewer's stream, in order; others do nothing
          seen,       \* history: what the viewer has shown of its stream,
          watched     \* and the stream whose output it has shown to the end

logVars == <<viewer, following, awaited, ahead, stream, closeAsked, closing, bus, seen, watched>>
-----------------------------------------------------------------------------
(* emit_utf8 and flush_utf8.  A byte is the lead of a character of so many *)
(* bytes, a continuation, or in no text; a character is its bytes.         *)

Width == [ascii |-> 1, lead2 |-> 2, lead3 |-> 3, cont |-> 0, never |-> 0]
ByteKinds == DOMAIN Width
Replacement == <<"replacement">>

Smaller(m, n) == IF m < n THEN m ELSE n

\* str::from_utf8 at the beginning of some bytes: a character, an error of so
\* many bytes, or a character whose end has not come yet (no error_len).
FirstUnit(bytes) ==
  LET width == Width[bytes[1]]
      within == Smaller(width, Len(bytes))
      good == CHOOSE n \in 0 .. within :
                /\ n = 0 <=> width = 0
                /\ \A i \in 2 .. n : bytes[i] = "cont"
                /\ n < within => bytes[n + 1] # "cont" \/ width = 0
  IN  CASE width = 0 -> [kind |-> "error", size |-> 1]
        [] width > 0 /\ good = width -> [kind |-> "char", size |-> good]
        [] good < width /\ good = Len(bytes) -> [kind |-> "cut", size |-> good]
        [] good < width /\ good < Len(bytes) -> [kind |-> "error", size |-> good]

\* MUTANT of Stops: what has no end yet is taken for an error.
StopsAtNothing(bytes) == bytes = << >>

Stops(bytes) == bytes = << >> \/ FirstUnit(bytes).kind = "cut"

\* The loop of emit_utf8: the text, and the bytes it keeps for the next read.
Drained[bytes \in Seq(ByteKinds)] ==
  IF Stops(bytes) THEN [text |-> << >>, kept |-> bytes]
  ELSE LET unit == FirstUnit(bytes)
           more == Drained[SubSeq(bytes, unit.size + 1, Len(bytes))]
           char == IF unit.kind = "char" THEN SubSeq(bytes, 1, unit.size) ELSE Replacement
       IN  [text |-> <<char>> \o more.text, kept |-> more.kept]

\* flush_utf8
Flushed(bytes) == IF bytes = << >> THEN << >> ELSE <<Replacement>>

\* What is printed is given in the pieces that from_utf8 makes of it: whole
\* characters, bytes of no character, and beginnings of characters, which
\* end where the next byte continues nothing.  All bytes are of this form.
Pieces(said) ==
  /\ said \in Seq(Seq(ByteKinds) \ {<< >>})
  /\ \A i \in DOMAIN said : FirstUnit(said[i]).size = Len(said[i])
  /\ \A i \in DOMAIN said : FirstUnit(said[i]).kind = "cut" /\ i < Len(said) => said[i + 1][1] # "cont"

ASSUME OutputsAssumption == \A s \in Streams : \A said \in Outputs[s] : Pieces(said)
-----------------------------------------------------------------------------
(* State.                                                                  *)

NotStarted == [phase |-> "none", left |-> << >>, kept |-> << >>, said |-> << >>]

LogInit ==
  /\ viewer = [id |-> NoStream, current |-> TRUE]
  /\ following = [s \in Streams |-> "unused"]
  /\ awaited = [s \in Streams |-> NoStream]
  /\ ahead = [s \in Streams |-> {}]
  /\ stream = [s \in Streams |-> NotStarted]
  /\ closeAsked = {} /\ closing = {} /\ bus = << >>
  /\ seen = << >> /\ watched = NoStream

LogTypeOK ==
  /\ viewer.id \in Streams \cup {NoStream} /\ viewer.current \in BOOLEAN
  /\ following \in [Streams -> {"unused", "stopping", "started", "over"}]
  /\ awaited \in [Streams -> Streams \cup {NoStream}]
  /\ \A s \in Streams : stream[s].phase \in {"none", "starting", "live", "gone", "refused"}
  /\ closeAsked \subseteq Streams /\ closing \subseteq Streams
  /\ watched \in Streams \cup {NoStream}

SetPhase(s, phase) == stream' = [stream EXCEPT ![s].phase = phase]
-----------------------------------------------------------------------------
(* The viewer.                                                             *)

\* Whatever comes of the stream before is ignored from now on.
Unwatched == bus' = << >> /\ seen' = << >> /\ watched' = NoStream

\* stopLogViewer: the identifier is dropped at once, then the stream closed.
DropStream ==
  /\ closing' = closing \cup ({viewer.id} \ {NoStream})
  /\ Unwatched

\* The viewer takes the identifier before it sends the command, so that no
\* early output is lost.
SendStart(s) ==
  /\ viewer' = [viewer EXCEPT !.id = s]
  /\ SetPhase(s, "starting")
  /\ ahead' = [ahead EXCEPT ![s] = {t \in Streams \ {s} : following[t] = "stopping"}]
  /\ Unwatched

\* startLogFollowing, on a switch that is turned on or a target that changes;
\* it waits for the close of the stream before.
Follow(s) ==
  /\ viewer.current /\ following[s] = "unused"
  /\ IF viewer.id = NoStream
     THEN /\ SendStart(s)
          /\ following' = [following EXCEPT ![s] = "started"]
          /\ UNCHANGED <<awaited, closing>>
     ELSE /\ viewer' = [viewer EXCEPT !.id = NoStream]
          /\ DropStream
          /\ following' = [following EXCEPT ![s] = "stopping"]
          /\ awaited' = [awaited EXCEPT ![s] = viewer.id]
          /\ UNCHANGED <<ahead, stream>>
  /\ UNCHANGED closeAsked

AfterStop(s) ==
  /\ following[s] = "stopping" /\ awaited[s] \notin closing
  /\ SendStart(s)
  /\ following' = [following EXCEPT ![s] = "started"]
  /\ UNCHANGED <<awaited, closeAsked, closing>>

\* MUTANT of StillWanted: only the view is asked for.
StillWantedHere(s) == viewer.current

StillWanted(s) == viewer.current /\ viewer.id = s

\* The reply of a start needs a network round trip: it comes after those of
\* close_log_stream, which only takes a lock, that were sent before.
Replied(s) == following[s] = "started" /\ \A t \in ahead[s] : following[t] # "stopping"

\* The reply of start_log_stream: a stream nobody wants any more is closed.
Started(s) ==
  /\ Replied(s) /\ stream[s].phase \in {"live", "gone"}
  /\ following' = [following EXCEPT ![s] = "over"]
  /\ closing' = IF StillWanted(s) THEN closing ELSE closing \cup {s}
  /\ UNCHANGED <<viewer, awaited, ahead, stream, closeAsked, bus, seen, watched>>

\* It fails, and stops the viewer even if another stream has come since.
StartFailed(s) ==
  /\ Replied(s) /\ stream[s].phase = "refused"
  /\ following' = [following EXCEPT ![s] = "over"]
  /\ viewer' = [viewer EXCEPT !.id = IF @ = s THEN NoStream ELSE @]
  /\ UNCHANGED <<awaited, ahead, stream, closeAsked, closing, bus, seen, watched>>

Pause ==
  /\ viewer.current
  /\ viewer' = [viewer EXCEPT !.id = NoStream]
  /\ DropStream
  /\ UNCHANGED <<following, awaited, ahead, stream, closeAsked>>

\* Another view, another server; a stream goes with the view.
LeaveView ==
  /\ viewer.current
  /\ viewer' = [viewer EXCEPT !.current = FALSE, !.id = NoStream]
  /\ DropStream
  /\ UNCHANGED <<following, awaited, ahead, stream, closeAsked>>

ReturnToView ==
  /\ ~viewer.current
  /\ viewer' = [viewer EXCEPT !.current = TRUE]
  /\ UNCHANGED <<following, awaited, ahead, stream, closeAsked, closing, bus, seen, watched>>

\* log-stream-output and log-stream-closed.
Deliver ==
  LET event == Head(bus)
  IN  /\ bus # << >>
      /\ bus' = Tail(bus)
      /\ seen' = seen \o event.text
      /\ viewer' = IF event.ends = "no" THEN viewer ELSE [viewer EXCEPT !.id = NoStream]
      /\ watched' = IF event.ends = "eof" THEN viewer.id ELSE NoStream
      /\ UNCHANGED <<following, awaited, ahead, stream, closeAsked, closing>>
-----------------------------------------------------------------------------
(* log_stream.rs                                                           *)

\* The probe tells how the logs can be read: as the user, by a sudo that asks
\* for nothing, or with the stored password, which is validated first.
MayRead(host) ==
  \/ host.readable \/ host.root
  \/ host.passwordless
  \/ host.secret /\ host.right

\* The command runs; the stream gets its entry and its thread.
OpensStream(s) ==
  /\ stream[s].phase = "starting" /\ \E host \in LogHosts : MayRead(host)
  /\ \E said \in Outputs[s] :
       stream' = [stream EXCEPT ![s].phase = "live", ![s].said = said, ![s].left = Sequence!FlattenSeq(said)]
  /\ UNCHANGED <<viewer, following, awaited, ahead, closeAsked, closing, bus, seen, watched>>

StartFails(s) ==
  /\ stream[s].phase = "starting"
  /\ SetPhase(s, "refused")
  /\ UNCHANGED <<viewer, following, awaited, ahead, closeAsked, closing, bus, seen, watched>>

Emit(s, text, ends) ==
  bus' = IF viewer.id # s \/ (text = << >> /\ ends = "no") THEN bus
         ELSE Append(bus, [text |-> text, ends |-> ends])

\* The loop looks at the close channel first.
ReadsOutput(s) ==
  /\ stream[s].phase = "live" /\ s \notin closeAsked /\ stream[s].left # << >>
  /\ Len(bus) < MaxEvents
  /\ \E n \in 1 .. Len(stream[s].left) :
       LET d == Drained[stream[s].kept \o SubSeq(stream[s].left, 1, n)]
       IN  /\ stream' = [stream EXCEPT ![s].left = SubSeq(@, n + 1, Len(@)), ![s].kept = d.kept]
           /\ Emit(s, d.text, "no")
  /\ UNCHANGED <<viewer, following, awaited, ahead, closeAsked, closing, seen, watched>>

\* The loop is left: a close message, the end of the output, a read error or
\* keepalives that fail three times in a row.  What is left is flushed, the
\* channel closed, the entry removed, the end announced.
EndsStream(s) ==
  /\ stream[s].phase = "live"
  /\ \E ends \in {"asked", "eof", "lost"} :
       /\ ends = "asked" <=> s \in closeAsked
       /\ ends = "eof" => stream[s].left = << >>
       /\ Emit(s, Flushed(stream[s].kept), ends)
  /\ stream' = [stream EXCEPT ![s].phase = "gone", ![s].left = << >>, ![s].kept = << >>]
  /\ closeAsked' = closeAsked \ {s}
  /\ UNCHANGED <<viewer, following, awaited, ahead, closing, seen, watched>>

\* close: without an entry there is nobody to tell.
Close(s) ==
  /\ s \in closing
  /\ closing' = closing \ {s}
  /\ closeAsked' = IF stream[s].phase = "live" THEN closeAsked \cup {s} ELSE closeAsked
  /\ UNCHANGED <<viewer, following, awaited, ahead, stream, bus, seen, watched>>

\* close_server and close_all: disconnecting, deleting or changing a server,
\* and the end of the program.
CloseServer ==
  /\ closeAsked' = closeAsked \cup {s \in Streams : stream[s].phase = "live"}
  /\ closeAsked' # closeAsked
  /\ UNCHANGED <<viewer, following, awaited, ahead, stream, closing, bus, seen, watched>>

LogNext ==
  \/ \E s \in Streams :
       \/ Follow(s) \/ AfterStop(s) \/ Started(s) \/ StartFailed(s)
       \/ OpensStream(s) \/ StartFails(s)
       \/ ReadsOutput(s) \/ EndsStream(s) \/ Close(s)
  \/ Pause \/ LeaveView \/ ReturnToView \/ Deliver \/ CloseServer

LogSpec == LogInit /\ [][LogNext]_logVars
-----------------------------------------------------------------------------
\* No stream outlives the wish for it: one that runs is what the viewer
\* shows on screen, or a close is on its way, or its start has not been
\* answered yet.  Stopping, restarting and leaving race with starting, whose
\* stream log_stream::close does not know before it has its entry.
NoOrphanStream ==
  \A s \in Streams : stream[s].phase = "live" =>
    \/ viewer.id = s /\ viewer.current
    \/ s \in closing \/ s \in closeAsked
    \/ following[s] = "started"

\* What the server prints: every character as it is, every other run of
\* bytes as one replacement.
Readable(said) ==
  [i \in DOMAIN said |-> IF FirstUnit(said[i]).kind = "char" THEN said[i] ELSE Replacement]

\* The viewer shows what the server printed, however the bytes are cut into
\* reads: never a character that was not there while the stream runs, and
\* all of it when it has shown a stream up to the end of its output.
ShowsWhatWasSaid ==
  \A s \in Streams :
    /\ viewer.id = s /\ stream[s].phase = "live" => Sequence!IsPrefix(seen, Readable(stream[s].said))
    /\ watched = s => seen = Readable(stream[s].said)
=============================================================================
