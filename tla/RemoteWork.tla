----------------------------- MODULE RemoteWork -----------------------------
(***************************************************************************)
(* What the program does on a server over RemoteExec: commands that need   *)
(* root (ssh.rs, execute_privileged and its siblings), commands tried as   *)
(* the user first, scripts with bounded output, commands in a row, and     *)
(* edits of the user's crontab (providers.rs, tier3.rs).                   *)
(*                                                                         *)
(* A job is a plan of stages; a privileged stage asks who the user is,     *)
(* then whether sudo needs a password, then runs its command the way that  *)
(* follows.  Others may change the crontab at any time.                    *)
(***************************************************************************)
EXTENDS RemoteExec

CONSTANTS Scenarios,   \* bounds: the jobs, the host, the crontab to start with
                       \* and how often others change it,
          OtherText    \* what they add

VARIABLES job,      \* what each client does
          others,   \* how often others may still change the crontab
          entered,  \* history: lines that were in the crontab,
          meant,    \* what the lines said which a user chose to edit,
          spoilt    \* an edit hit a crontab that was not the one meant

remote == <<call, proc, strays, cancelled, host, crontab>>
history == <<entered, meant, spoilt>>
vars == <<remote, job, others, history>>

Stage(access, program, bounded) == [access |-> access, program |-> program, bounded |-> bounded]

Command == Stage("privileged", "command", FALSE)
Input == Stage("privileged", "reader", FALSE)
Script == Stage("privileged", "reader", TRUE)

\* execute_privileged: services, packages, accounts, firewall, quick actions.
PlanPrivileged == <<Command>>
\* signal_process, compose_action, run_log_command: as the user, then as root.
PlanFallback == <<Stage("direct", "command", FALSE), Command>>
\* create_user: the account, then its password.
PlanUser == <<Command, Input>>
\* docker_collection: a bounded script, as the user and then as root.
PlanScript == <<Stage("direct", "reader", TRUE), Script>>
\* save_cron_job and cron_action.
PlanCron == <<Stage("cron", "crontab -l", FALSE)>>

Plans == {<< >>, PlanPrivileged, PlanFallback, PlanUser, PlanScript, PlanCron}

StartLines == UNION {ToSet(s.crontab) : s \in Scenarios}

\* What a crontab consists of is no password; an identifier of ours names one
\* job, and that of a new job is new.
ASSUME RemoteWorkAssumption ==
  /\ OtherText \in Texts /\ Password \notin CronLines
  /\ \A s \in Scenarios : /\ s.plans \in [Clients -> Plans] /\ s.others \in Nat
                          /\ s.crontab \in Seq(CronLines)
  /\ \A line, twin \in StartLines :
       line.mark = twin.mark /\ line.mark.kind = "uuid" => line.text = twin.text
  /\ \A line \in StartLines : line.mark # Uuid(0)

FirstStep(stage) ==
  CASE stage.access = "direct" -> "direct"
    [] stage.access = "privileged" -> "id"
    [] stage.access = "cron" -> "list"

NewJob(plan) == [plan |-> plan, step |-> "idle", edit |-> "none", id |-> NoMark, text |-> OtherText,
                 seen |-> << >>, listed |-> << >>]

Init ==
  /\ \E s \in Scenarios : /\ job = [c \in Clients |-> NewJob(s.plans[c])]
                          /\ host = s.host /\ crontab = s.crontab
                          /\ entered = ToSet(s.crontab) /\ others = s.others
  /\ call = [c \in Clients |-> Idle]
  /\ proc = [c \in Clients |-> NoProcess]
  /\ strays = {}
  /\ cancelled = [c \in Clients |-> FALSE]
  /\ meant = {} /\ spoilt = FALSE

Steps == {"direct", "id", "sudo", "main", "list", "install"}
Busy(c) == job[c].step \in Steps

TypeOK ==
  /\ \A c \in Clients : job[c].step \in Steps \cup {"idle", "done", "failed"}
  /\ \A c \in Clients : call[c].at \in {"idle", "ready", "input", "write", "read", "ok", "error"}
  /\ \A p \in strays \cup {proc[c] : c \in Clients} :
       /\ p.phase \in {"none", "password", "asking", "running", "exited"}
       /\ p.program \in Programs /\ p.way \in Ways /\ p.out \in 0 .. Produced
  /\ cancelled \in [Clients -> BOOLEAN]
  /\ others \in Nat /\ spoilt \in BOOLEAN
-----------------------------------------------------------------------------
(* The calls a job makes.                                                  *)

\* A call without input, with the limit every call has.
Plain(program, way) ==
  [Idle EXCEPT !.at = "ready", !.program = program, !.way = way, !.limit = DefaultLimit]
With(x, input) == [x EXCEPT !.input = input, !.has = TRUE]

\* MUTANT of Limit: a script's output is cut off at its bound.
LimitExact(stage) == IF stage.bounded THEN MaxOutput ELSE DefaultLimit

\* One more than the bound, so that more can be told from exactly so much.
Limit(stage) == IF stage.bounded THEN MaxOutput + 1 ELSE DefaultLimit

\* MUTANT of PasswordWay: sudo reads the password in front of any input.
PasswordWayAsking(stage) == "asking"

\* A command that reads its input gets a shell that takes the password off
\* it; another one can leave its input to sudo.
PasswordWay(stage) == IF stage.program \in Readers THEN "wrapper" ELSE "asking"

\* The command itself, in one of the ways.
Main(stage, way) ==
  LET x == [Plain(stage.program, way) EXCEPT !.limit = Limit(stage)]
      first == IF way \in {"wrapper", "asking"} THEN <<Password>> ELSE << >>
  IN  IF stage.program \in Readers THEN With(x, first \o Payload)
      ELSE IF first # << >> THEN With(x, first) ELSE x

FirstCall(stage) ==
  CASE stage.access = "direct" -> Main(stage, "none")
    [] stage.access = "privileged" -> Plain("id", "none")
    [] stage.access = "cron" -> Plain("crontab -l", "none")

Returned(c) == call[c].at \in {"ok", "error"}
Succeeded(c) == CallIs(c, "ok") /\ ExitStatus(proc[c]) = 0
TheStage(c) == Head(job[c].plan)

\* The next call; what the last one ran has exited, or is a stray.
Make(c, x) ==
  /\ call' = [call EXCEPT ![c] = x]
  /\ proc' = [proc EXCEPT ![c] = NoProcess]

\* The job goes to a step and makes a call, or ends with its operation.
Continue(c, step, x) ==
  /\ job' = [job EXCEPT ![c].step = step]
  /\ Make(c, x)
  /\ UNCHANGED cancelled
End(c, outcome) ==
  /\ job' = [job EXCEPT ![c] = [NewJob(<< >>) EXCEPT !.step = outcome]]
  /\ Make(c, Idle)
  /\ cancelled' = [cancelled EXCEPT ![c] = FALSE]

\* with_client returns no success when the flag is set meanwhile.
Done(c) == End(c, IF cancelled[c] THEN "failed" ELSE "done")

NextStage(c) ==
  LET plan == Tail(job[c].plan)
  IN  /\ job' = [job EXCEPT ![c].plan = plan, ![c].step = FirstStep(Head(plan))]
      /\ Make(c, FirstCall(Head(plan)))
      /\ UNCHANGED cancelled
-----------------------------------------------------------------------------
(* Privileged commands.                                                    *)

\* An error of "id -u" counts as "not root".
AfterId(c) ==
  /\ job[c].step = "id" /\ Returned(c)
  /\ IF Succeeded(c) /\ proc[c].says = "root"
     THEN Continue(c, "main", Main(TheStage(c), "none"))
     ELSE Continue(c, "sudo", Plain("sudo -n true", "none"))
  /\ UNCHANGED <<strays, host, crontab, others, history>>

AfterSudo(c) ==
  /\ job[c].step = "sudo" /\ Returned(c)
  /\ CASE CallIs(c, "error") -> End(c, "failed")
       [] Succeeded(c) -> Continue(c, "main", Main(TheStage(c), "free"))
       [] host.secret -> Continue(c, "main", Main(TheStage(c), PasswordWay(TheStage(c))))
       [] OTHER -> End(c, "failed")
  /\ UNCHANGED <<strays, host, crontab, others, history>>

\* validate_script_output
WithinBound(c) == TheStage(c).bounded => call[c].kept <= MaxOutput

\* sudo_password_was_rejected goes by what the output says, whoever says it.
Rejected(c) == call[c].way \in {"wrapper", "asking"} /\ proc[c].says = "rejected"

\* MUTANT of Accepted: the exit status is not asked for.
AcceptedWithOutput(c) == CallIs(c, "ok") /\ ~Rejected(c) /\ WithinBound(c)

Accepted(c) == Succeeded(c) /\ ~Rejected(c) /\ WithinBound(c)

AfterMain(c) ==
  /\ job[c].step = "main" /\ Returned(c)
  /\ IF ~Accepted(c) THEN End(c, "failed")
     ELSE IF Len(job[c].plan) > 1 THEN NextStage(c)
     ELSE Done(c)
  /\ UNCHANGED <<strays, host, crontab, others, history>>

\* As the user; as root if it was refused, or says so.
AfterDirect(c) ==
  /\ job[c].step = "direct" /\ Returned(c)
  /\ CASE Accepted(c) -> Done(c)
       [] CallIs(c, "ok") /\ WithinBound(c) /\ ExitStatus(proc[c]) # 0 /\ proc[c].says = "permission" -> NextStage(c)
       [] OTHER -> End(c, "failed")
  /\ UNCHANGED <<strays, host, crontab, others, history>>
-----------------------------------------------------------------------------
(* Edits of the crontab.                                                   *)

\* What the file becomes.  A job that is saved keeps its identifier, also
\* one that is a position; a new one gets an identifier of its own.
Edited(c, lines) ==
  CASE job[c].edit = "add" -> Added(lines, Uuid(0), job[c].text)
    [] job[c].edit = "save" -> Saved(lines, job[c].id, job[c].text, FALSE)
    [] job[c].edit = "enable" -> Switched(lines, job[c].id, FALSE)
    [] job[c].edit = "disable" -> Switched(lines, job[c].id, TRUE)
    [] job[c].edit = "delete" -> Deleted(lines, job[c].id)

Found(c, lines) == job[c].edit = "add" \/ Answering(lines, job[c].id) # {}

\* Exit status and output of "crontab -l" are taken as they come.
AfterList(c) ==
  LET lines == proc[c].read
  IN  /\ job[c].step = "list" /\ Returned(c)
      /\ IF CallIs(c, "ok") /\ Found(c, lines)
         THEN /\ job' = [job EXCEPT ![c].step = "install", ![c].listed = lines]
              /\ Make(c, With(Plain("crontab -", "none"), Edited(c, lines)))
              /\ UNCHANGED cancelled
         ELSE End(c, "failed")
      /\ UNCHANGED <<strays, host, crontab, others, history>>

AfterInstall(c) ==
  /\ job[c].step = "install" /\ Returned(c)
  /\ IF Succeeded(c) THEN Done(c) ELSE End(c, "failed")
  /\ UNCHANGED <<strays, host, crontab, others, history>>

After(c) ==
  AfterId(c) \/ AfterSudo(c) \/ AfterMain(c) \/ AfterDirect(c) \/ AfterList(c) \/ AfterInstall(c)

\* The edit of a job that the view shows, and a new job.
EditShown(c, e, i) ==
  [job[c] EXCEPT !.edit = e, !.id = ShownId(crontab, i), !.seen = crontab, !.text = crontab[i].text]
AddNew(c) == [job[c] EXCEPT !.edit = "add", !.seen = crontab]

\* What the user may ask for.
Requests(c) ==
  IF job[c].plan # PlanCron THEN {job[c]}
  ELSE {EditShown(c, e, i) : e \in {"save", "enable", "disable", "delete"}, i \in Jobs(crontab)}
       \cup {AddNew(c)}

Begin(c) ==
  /\ job[c].step = "idle" /\ job[c].plan # << >>
  /\ \E j \in Requests(c) :
       /\ job' = [job EXCEPT ![c] = [j EXCEPT !.step = FirstStep(Head(j.plan))]]
       /\ meant' = meant \cup (IF j.edit \in {"none", "add"} THEN {} ELSE {j.text})
       /\ entered' = entered
  /\ call' = [call EXCEPT ![c] = FirstCall(TheStage(c))]
  /\ UNCHANGED <<proc, strays, cancelled, host, crontab, others, spoilt>>

\* Another program adds a line at the top, or takes the first one away.
ChangeCrontab ==
  /\ others > 0
  /\ others' = others - 1
  /\ \/ crontab' = <<CronLine(OtherText, FALSE, NoMark)>> \o crontab
     \/ crontab # << >> /\ crontab' = Tail(crontab)
  /\ entered' = (entered \cup ToSet(crontab')) \ (ToSet(crontab) \ ToSet(crontab'))
  /\ UNCHANGED <<call, proc, strays, cancelled, host, job, meant, spoilt>>

\* The edit a crontab process carries out is not the one that was meant:
\* its input was cut off; the crontab has changed since it was listed, or,
\* for a job named by its position, since it was shown; or the identifier
\* names several lines.
Astray(p) ==
  p.program = "crontab -" /\
  ~ \E c \in Clients : /\ job[c].step = "install" /\ p.read = p.whole /\ p = proc[c]
                       /\ crontab = job[c].listed
                       /\ job[c].edit # "add" => Cardinality(Answering(crontab, job[c].id)) <= 1
                       /\ job[c].id.kind = "line" => job[c].listed = job[c].seen

Process ==
  \/ /\ \E c \in Clients : Runs(c) /\ spoilt' = (spoilt \/ (Astray(proc[c]) /\ crontab' # crontab))
     /\ UNCHANGED <<job, others, entered, meant>>
  \/ /\ RunsOn
     /\ spoilt' = (spoilt \/ crontab' # crontab)
     /\ UNCHANGED <<job, others, entered, meant>>

Next ==
  \/ \E c \in Clients : \/ Begin(c) \/ After(c)
                        \/ Calls(c) /\ UNCHANGED <<job, others, history>>
                        \/ Busy(c) /\ Cancels(c) /\ UNCHANGED <<job, others, history>>
  \/ Process
  \/ ChangeCrontab

Fairness == \A c \in Clients : WF_vars(After(c)) /\ WF_vars(Calls(c) /\ UNCHANGED <<job, others, history>>)

Spec == Init /\ [][Next]_vars /\ Fairness
-----------------------------------------------------------------------------
\* The password and the input of a command come over one channel and do not
\* mix: sudo is never offered a line of the input as a password, also when
\* the stored one is wrong, and no command reads the password
\* (sudo_password_command).
PasswordStaysApart ==
  \A p \in strays \cup {proc[c] : c \in Clients} :
    p.offered \subseteq {Password} /\ Password \notin ToSet(p.read)

\* A stage that is taken for a success: what a bounded script said is there in
\* full (validate_script_output); and, if the server said how the command
\* ended, it ran to its end, as root where that was asked for, and had read
\* all of its input.  Of a command that a signal ended, or whose channel was
\* closed without a status, exec learns 0 and Ok promises nothing but the
\* former (Channel::exit_status in exec_with_input_limited_timeout).
OkIsWhole ==
  [][\A c \in Clients :
       job[c].step \in {"direct", "main"} /\ Returned(c) /\ job'[c].step \notin {"failed", job[c].step}
         /\ (job[c].step = "direct" => job'[c].step = "done")
       => /\ TheStage(c).bounded => call[c].kept = proc[c].out
          /\ proc[c].told => /\ proc[c].ok /\ (job[c].step = "main" => proc[c].root)
                             /\ TheStage(c).program \in Readers => proc[c].read = Payload]_vars

\* Lines of the crontab that nobody chose to edit are still there, as they
\* were, after any edits that hit the crontab they were meant for.
CronLinesKept ==
  ~spoilt => \A line \in entered : line.text \in meant \/ line \in ToSet(crontab)

\* A job that is cancelled comes to an end, whatever the server does, also
\* if its command never stops talking: exec looks at the flag in its loop.
CancelEnds == \A c \in Clients : cancelled[c] ~> ~Busy(c)
=============================================================================
