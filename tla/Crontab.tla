------------------------------- MODULE Crontab -------------------------------
(***************************************************************************)
(* providers.rs: how a cron job is found in a crontab and how its line is  *)
(* changed.  A line carries an identifier of ours as a comment at its end, *)
(* or it is named by its position.  Pure: RemoteWork runs it.              *)
(***************************************************************************)
EXTENDS Naturals, SequencesExt

CONSTANTS Texts,     \* what lines say: schedule and command
          Comments   \* those that are no jobs: comments and assignments

\* Identifiers of jobs that Serverbox wrote, and of positions.
NoMark == [kind |-> "none", n |-> 0]
Uuid(n) == [kind |-> "uuid", n |-> n]
Place(n) == [kind |-> "line", n |-> n]

\* A line: its text, whether "# SERVERBOX_DISABLED" stands before it, and
\* the identifier at its end.
CronLine(text, off, mark) == [text |-> text, off |-> off, mark |-> mark]
Marks == [kind : {"uuid", "line"}, n : Nat] \cup {NoMark}
CronLines == [text : Texts, off : BOOLEAN, mark : Marks]

\* cron_line_id
LineId(line, i) == IF line.mark = NoMark THEN Place(i) ELSE line.mark

\* Positions as the code counts them, from zero.
At(lines, i) == LineId(lines[i], i - 1)
Answering(lines, id) == {i \in DOMAIN lines : At(lines, i) = id}

\* parse_user_crontab: what the view offers for editing.
Jobs(lines) == {i \in DOMAIN lines : lines[i].text \notin Comments}

\* MUTANT of ShownId: jobs are counted, instead of lines.
ShownIdAmongJobs(lines, i) == LineId(lines[i], Cardinality({k \in Jobs(lines) : k < i}))

\* The identifier that the view sends back.
ShownId(lines, i) == At(lines, i)

\* The loops of replace_cron_line and cron_action: every line that answers
\* to the identifier becomes what New makes of it, the others stay.
Changed(lines, id, New(_)) ==
  FlattenSeq([i \in DOMAIN lines |-> IF At(lines, i) = id THEN New(lines[i]) ELSE <<lines[i]>>])

\* cron_job_line, with which replace_cron_line replaces the old line.
Saved(lines, id, text, off) ==
  LET New(line) == <<CronLine(text, off, id)>>
  IN  Changed(lines, id, New)

\* A new job goes to the end.
Added(lines, id, text) == Append(lines, CronLine(text, FALSE, id))

Switched(lines, id, off) ==
  LET New(line) == <<[line EXCEPT !.off = off]>>
  IN  Changed(lines, id, New)

Deleted(lines, id) ==
  LET New(line) == << >>
  IN  Changed(lines, id, New)
=============================================================================
