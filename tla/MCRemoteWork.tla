---------------------------- MODULE MCRemoteWork ----------------------------
EXTENDS RemoteWork, TLC

CONSTANTS c1, c2, backup, report, comment, other, p1, p2, secret

MCTexts == {backup, report, comment, other}
MCPayload == <<p1, p2>>

Hosts == [root : BOOLEAN, passwordless : BOOLEAN, secret : BOOLEAN, right : BOOLEAN]
AnyHost == {h \in Hosts : (h.root => ~h.passwordless) /\ (h.right => h.secret)
                          /\ (h.root \/ h.passwordless => ~h.secret)}
Unmarked == <<CronLine(backup, FALSE, NoMark)>>
Marked == <<CronLine(comment, FALSE, NoMark)>> \o Unmarked \o <<CronLine(report, TRUE, Uuid(1))>>
NoRoot == [root |-> FALSE, passwordless |-> FALSE, secret |-> FALSE, right |-> FALSE]

Scenario(plan, other_plan, h, lines, n) ==
  [plans |-> (c1 :> plan) @@ (c2 :> other_plan), host |-> h, crontab |-> lines, others |-> n]

\* One client with any job on any host; two that edit one crontab, empty at first,
\* or one and another program.
MCScenarios ==
  {Scenario(plan, << >>, h, << >>, 0) :
     plan \in {PlanPrivileged, PlanFallback, PlanUser, PlanScript}, h \in AnyHost}
  \cup {Scenario(PlanCron, PlanCron, NoRoot, << >>, 0), Scenario(PlanCron, << >>, NoRoot, Marked, 1)}
=============================================================================
