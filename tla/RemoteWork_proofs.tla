-------------------------- MODULE RemoteWork_proofs --------------------------
(***************************************************************************)
(* Proofs about jobs on a server, for any clients, plans, hosts, crontabs  *)
(* and bounds.                                                             *)
(***************************************************************************)
EXTENDS RemoteWork, SequenceTheorems, FiniteSetTheorems, WellFoundedInduction, TLAPS

-----------------------------------------------------------------------------
(* Sequences.                                                              *)

\* The least of the numbers of a set.
LEMMA Least ==
  ASSUME NEW T \in SUBSET Nat, T # {}
  PROVE  \E n \in T : \A m \in T : n <= m
<1>1. PICK n \in T : \A m \in T : <<m, n>> \notin OpToRel(<, Nat)
  BY NatLessThanWellFounded, WFMin
<1>2. \A m \in T : ~(m < n)
  BY <1>1 DEF OpToRel
<1>3. QED
  BY <1>2

\* Joined so far: the function by which FlattenSeq is defined.
Joins(f, ss, n) ==
  f = [i \in 1 .. n |-> IF i = 1 THEN ss[i] ELSE f[i - 1] \o ss[i]]

LEMMA JoinsExists ==
  ASSUME NEW S, NEW ss \in Seq(Seq(S)), NEW N \in Nat, N <= Len(ss)
  PROVE  \E f : Joins(f, ss, N)
<1> DEFINE Bad == {n \in 0 .. N : ~ \E f : Joins(f, ss, n)}
<1>1. SUFFICES ASSUME Bad # {} PROVE FALSE
  <2>1. N \in 0 .. N
    OBVIOUS
  <2>2. QED
    BY <2>1
<1>2. PICK n \in Bad : \A m \in Bad : n <= m
  <2>1. Bad \in SUBSET Nat
    OBVIOUS
  <2> HIDE DEF Bad
  <2> QED
    BY <1>1, <2>1, Least
<1>3. n \in 0 .. N /\ ~ \E f : Joins(f, ss, n)
  OBVIOUS
<1>4. CASE n = 0
  <2>1. Joins([i \in 1 .. 0 |-> ss[i]], ss, 0)
    BY DEF Joins
  <2>2. QED
    BY <1>3, <1>4, <2>1
<1>5. CASE n # 0
  <2>1. n - 1 \in 0 .. N /\ n - 1 \notin Bad
    BY <1>2, <1>3, <1>5
  <2>2. PICK f : Joins(f, ss, n - 1)
    BY <2>1
  <2> DEFINE g == [i \in 1 .. n |-> IF i = n THEN IF n = 1 THEN ss[n] ELSE f[n - 1] \o ss[n] ELSE f[i]]
  <2>3. ASSUME NEW i \in 1 .. n
        PROVE  g[i] = IF i = 1 THEN ss[i] ELSE g[i - 1] \o ss[i]
    <3>1. CASE i = n
      BY <1>3, <3>1
    <3>2. CASE i # n
      <4>1. i \in 1 .. n - 1 /\ (i # 1 => i - 1 \in 1 .. n - 1)
        BY <1>3, <3>2
      <4>2. f[i] = IF i = 1 THEN ss[i] ELSE f[i - 1] \o ss[i]
        BY <2>2, <4>1 DEF Joins
      <4>3. g[i] = f[i] /\ (i # 1 => g[i - 1] = f[i - 1])
        BY <1>3, <3>2, <4>1
      <4>4. QED
        BY <4>2, <4>3
    <3>3. QED
      BY <3>1, <3>2
  <2>4. Joins(g, ss, n)
    <3>1. DOMAIN g = 1 .. n /\ g = [i \in 1 .. n |-> g[i]]
      OBVIOUS
    <3> HIDE DEF g
    <3>2. [i \in 1 .. n |-> g[i]] = [i \in 1 .. n |-> IF i = 1 THEN ss[i] ELSE g[i - 1] \o ss[i]]
      BY <2>3
    <3>3. QED
      BY <3>1, <3>2 DEF Joins
  <2>5. QED
    BY <1>3, <2>4
<1>6. QED
  BY <1>4, <1>5

LEMMA FlattenSeqIsJoin ==
  ASSUME NEW S, NEW ss \in Seq(Seq(S)), ss # << >>
  PROVE  \E f : Joins(f, ss, Len(ss)) /\ FlattenSeq(ss) = f[Len(ss)]
<1> DEFINE n == Len(ss)
           flatten == CHOOSE f : f = [i \in 1 .. n |-> IF i = 1 THEN ss[i] ELSE f[i - 1] \o ss[i]]
<1>1. n \in Nat /\ n # 0
  OBVIOUS
<1>2. \E f : f = [i \in 1 .. n |-> IF i = 1 THEN ss[i] ELSE f[i - 1] \o ss[i]]
  <2>1. \E f : Joins(f, ss, Len(ss))
    BY <1>1, JoinsExists
  <2>2. QED
    BY <2>1 DEF Joins
<1>3. Joins(flatten, ss, n)
  BY <1>2 DEF Joins
<1>4. FlattenSeq(ss) = flatten[n]
  BY <1>1 DEF FlattenSeq
<1>5. QED
  BY <1>3, <1>4

LEMMA ElementsOfConcat ==
  ASSUME NEW S, NEW s \in Seq(S), NEW t \in Seq(S)
  PROVE  /\ s \o t \in Seq(S)
         /\ \A e : e \in ToSet(s \o t) <=> e \in ToSet(s) \/ e \in ToSet(t)
<1>1. /\ Len(s) \in Nat /\ Len(t) \in Nat /\ s \o t \in Seq(S)
      /\ DOMAIN s = 1 .. Len(s) /\ DOMAIN t = 1 .. Len(t)
      /\ DOMAIN (s \o t) = 1 .. Len(s) + Len(t)
      /\ \A i \in 1 .. Len(s) : (s \o t)[i] = s[i]
      /\ \A i \in 1 .. Len(t) : (s \o t)[Len(s) + i] = t[i]
  OBVIOUS
<1>2. ASSUME NEW i \in 1 .. Len(s) + Len(t)
      PROVE  (s \o t)[i] \in ToSet(s) \/ (s \o t)[i] \in ToSet(t)
  <2>1. CASE i <= Len(s)
    BY <1>1, <2>1 DEF ToSet
  <2>2. CASE i > Len(s)
    <3>1. i - Len(s) \in 1 .. Len(t) /\ i = Len(s) + (i - Len(s))
      BY <1>1, <2>2
    <3>2. (s \o t)[i] = t[i - Len(s)]
      BY <1>1, <3>1
    <3>3. QED
      BY <1>1, <3>1, <3>2 DEF ToSet
  <2>3. QED
    BY <1>1, <2>1, <2>2
<1>3. ASSUME NEW i \in 1 .. Len(s) PROVE s[i] \in ToSet(s \o t)
  <2>1. i \in DOMAIN (s \o t) /\ s[i] = (s \o t)[i]
    BY <1>1
  <2>2. QED
    BY <2>1 DEF ToSet
<1>4. ASSUME NEW i \in 1 .. Len(t) PROVE t[i] \in ToSet(s \o t)
  <2>1. Len(s) + i \in DOMAIN (s \o t) /\ t[i] = (s \o t)[Len(s) + i]
    BY <1>1
  <2>2. QED
    BY <2>1 DEF ToSet
<1>5. QED
  BY <1>1, <1>2, <1>3, <1>4 DEF ToSet

\* A line that goes from the front of one sequence to the end of another.
LEMMA Handover ==
  ASSUME NEW S, NEW s \in Seq(S), NEW t \in Seq(S), t # << >>
  PROVE  Append(s, Head(t)) \o Tail(t) = s \o t
<1>1. /\ Head(t) \in S /\ Tail(t) \in Seq(S) /\ <<Head(t)>> \in Seq(S)
      /\ t = <<Head(t)>> \o Tail(t)
  OBVIOUS
<1>2. Append(s, Head(t)) = s \o <<Head(t)>>
  BY <1>1, AppendIsConcat
<1>3. (s \o <<Head(t)>>) \o Tail(t) = s \o (<<Head(t)>> \o Tail(t))
  BY <1>1, ConcatAssociative
<1>4. QED
  BY <1>1, <1>2, <1>3

LEMMA TailOfConcat ==
  ASSUME NEW S, NEW s \in Seq(S), NEW t \in Seq(S), s # << >>
  PROVE  Head(s \o t) = Head(s) /\ Tail(s \o t) = Tail(s) \o t
  OBVIOUS


\* What FlattenSeq gives has the elements of its parts.
LEMMA FlattenSeqElements ==
  ASSUME NEW S, NEW ss \in Seq(Seq(S))
  PROVE  /\ FlattenSeq(ss) \in Seq(S)
         /\ \A e : e \in ToSet(FlattenSeq(ss)) <=> \E i \in DOMAIN ss : e \in ToSet(ss[i])
<1> DEFINE N == Len(ss)
<1>1. N \in Nat /\ DOMAIN ss = 1 .. N /\ \A i \in 1 .. N : ss[i] \in Seq(S)
  OBVIOUS
<1>2. CASE ss = << >>
  BY <1>2 DEF FlattenSeq, ToSet
<1>3. CASE ss # << >>
  <2>1. PICK f : Joins(f, ss, N) /\ FlattenSeq(ss) = f[N]
    BY <1>3, FlattenSeqIsJoin
  <2>2. N >= 1 /\ \A i \in 1 .. N : f[i] = IF i = 1 THEN ss[i] ELSE f[i - 1] \o ss[i]
    <3>1. N >= 1
      BY <1>3, EmptySeq
    <3>2. f = [i \in 1 .. N |-> IF i = 1 THEN ss[i] ELSE f[i - 1] \o ss[i]]
      BY <2>1 DEF Joins
    <3> HIDE DEF N
    <3>3. QED
      BY <3>1, <3>2
  <2> DEFINE Good(n) == /\ f[n] \in Seq(S)
                        /\ \A e : e \in ToSet(f[n]) <=> \E i \in 1 .. n : e \in ToSet(ss[i])
             Bad == {n \in 1 .. N : ~Good(n)}
  <2> HIDE DEF N
  <2>3. SUFFICES ASSUME Bad # {} PROVE FALSE
    <3>1. N \in 1 .. N
      BY <1>1, <2>2
    <3>2. Good(N)
      BY <3>1
    <3> HIDE DEF Good
    <3>3. QED
      BY <1>1, <2>1, <3>2 DEF Good
  <2>4. PICK n \in Bad : \A m \in Bad : n <= m
    <3>1. Bad \in SUBSET Nat
      BY <1>1
    <3> HIDE DEF Bad
    <3> QED
      BY <2>3, <3>1, Least
  <2>5. n \in 1 .. N /\ ~Good(n)
    OBVIOUS
  <2>6. CASE n = 1
    BY <1>1, <2>2, <2>5, <2>6
  <2>7. CASE n # 1
    <3>1. n - 1 \in 1 .. N /\ Good(n - 1)
      <4>1. n - 1 \in 1 .. N /\ ~(n <= n - 1)
        BY <1>1, <2>5, <2>7
      <4> HIDE DEF Good
      <4>2. QED
        BY <2>4, <4>1
    <3>2. f[n] = f[n - 1] \o ss[n] /\ ss[n] \in Seq(S)
      BY <1>1, <2>2, <2>5, <2>7
    <3>3. f[n] \in Seq(S) /\ \A e : e \in ToSet(f[n]) <=> e \in ToSet(f[n - 1]) \/ e \in ToSet(ss[n])
      BY <3>1, <3>2, ElementsOfConcat
    <3>4. \A i : i \in 1 .. n <=> i \in 1 .. n - 1 \/ i = n
      BY <2>5, <1>1
    <3>5. Good(n)
      BY <3>1, <3>3, <3>4
    <3>6. QED
      BY <2>5, <3>5
  <2>8. QED
    BY <2>6, <2>7
<1>4. QED
  BY <1>2, <1>3

-----------------------------------------------------------------------------
(* Types.                                                                  *)

\* The job that an identifier of ours names, in whatever crontab.
TextOf(n) ==
  IF \E line \in StartLines : line.mark = Uuid(n)
  THEN (CHOOSE line \in StartLines : line.mark = Uuid(n)).text
  ELSE OtherText

Legal == {line \in CronLines : line.mark.kind = "uuid" => line.text = TextOf(line.mark.n)}

\* Lines that may be read by whoever reads them, and all lines.
Harmless == ToSet(Payload) \cup Legal
Lines == Harmless \cup {Password}

Ats == {"idle", "ready", "input", "write", "read", "ok", "error"}
CallStates == [at : Ats, program : Programs, way : Ways, input : Seq(Lines), has : BOOLEAN,
               limit : Nat, kept : Nat]
Processes == [phase : {"none", "password", "asking", "running", "exited"}, program : Programs,
              way : Ways, stdin : Seq(Lines), eof : BOOLEAN, offered : SUBSET Lines,
              read : Seq(Lines), whole : Seq(Lines), out : 0 .. Produced, fresh : BOOLEAN,
              says : {"nothing", "root", "permission", "rejected"}, told : BOOLEAN, ok : BOOLEAN, root : BOOLEAN]

\* What is left of a plan.
Rests == Plans \cup {<<Input>>, <<Script>>}
Edits == {"none", "add", "save", "enable", "disable", "delete"}
JobStates == [plan : Rests, step : Steps \cup {"idle", "done", "failed"}, edit : Edits, id : Marks,
              text : Texts, seen : Seq(Legal), listed : Seq(Legal)]

Typed ==
  /\ job \in [Clients -> JobStates] /\ call \in [Clients -> CallStates]
  /\ proc \in [Clients -> Processes] /\ strays \subseteq Processes
  /\ cancelled \in [Clients -> BOOLEAN] /\ crontab \in Seq(Legal)
  /\ others \in Nat /\ spoilt \in BOOLEAN
-----------------------------------------------------------------------------
(* The inductive invariant.                                                *)

\* What a call of a program, in a way, gives it to read.
Suits(program, way, input) ==
  /\ program = "reader" =>
       way \in {"none", "free", "wrapper"} /\ input = (IF way = "wrapper" THEN <<Password>> ELSE << >>) \o Payload
  /\ program = "crontab -" => way = "none" /\ input \in Seq(Legal)
  /\ program \notin Readers =>
       way # "wrapper" /\ input = (IF way = "asking" THEN <<Password>> ELSE << >>)

\* A process, with a call or without: what it was offered, has read and may
\* read next.
Apart(p) ==
  /\ p.offered \subseteq {Password}
  /\ p.read \in Seq(Harmless)
  /\ p.program \in {"crontab -", "crontab -l"} => p.read \in Seq(Legal)
  /\ p.phase = "password" =>
       /\ p.program = "reader" /\ p.way = "wrapper"
       /\ \A i \in DOMAIN p.stdin : IF i = 1 THEN p.stdin[i] = Password ELSE p.stdin[i] \in Harmless
  /\ p.phase = "asking" => p.program \notin Readers /\ \A i \in DOMAIN p.stdin : p.stdin[i] = Password
  /\ p.phase = "running" /\ p.program \in Readers => p.stdin \in Seq(Harmless)
  /\ p.phase = "running" /\ p.program = "crontab -" => p.stdin \in Seq(Legal)

AllApart ==
  /\ \A p \in strays \cup {proc[c] : c \in Clients} : Apart(p)
  /\ \A p \in strays : Processing(p)

Open(x) == x.at \in {"input", "write", "read", "ok"}
Body(p) == IF p.way = "wrapper" THEN Tail(p.whole) ELSE p.whole

\* No line of the input is lost or read twice between the call and the end of
\* its process.
Conserved(p, input) ==
  p.program \in Readers =>
    /\ p.phase = "password" => p.read = << >> /\ p.stdin \o input = p.whole
    /\ p.phase = "running" => p.read \o (p.stdin \o input) = Body(p)
    /\ p.phase = "exited" /\ p.ok => p.read = Body(p)

\* A process that succeeded was root if it is said to have been.
Honest(p) ==
  /\ p.says = "root" => host.root
  /\ p.ok /\ p.program \in {"command", "reader"} =>
       (Rooted(p) => p.root) /\ (p.way = "free" => p.root)

\* A call that is about to be made.
Prepared(x) == Suits(x.program, x.way, x.input) /\ x.kept = 0 /\ (~x.has => x.input = << >>)

Linked(x, p) ==
  IF Open(x)
  THEN /\ p.phase # "none" /\ p.program = x.program /\ p.way = x.way
       /\ p.phase = "password" => p.way = "wrapper"
       /\ p.phase = "asking" => p.way = "asking"
       /\ Suits(p.program, p.way, p.whole)
       /\ p.way = "asking" => x.input \in Seq({Password})
       /\ x.at \in {"read", "ok"} => x.input = << >>
       /\ p.eof => x.at \in {"read", "ok"}
       /\ ~p.fresh => x.kept = Kept(x.limit, p.out)
       /\ x.at = "ok" => p.phase = "exited" /\ ~p.fresh
       /\ Conserved(p, x.input)
  ELSE /\ p = NoProcess
       /\ x.at = "ready" => Prepared(x)

\* The whole input of a call, before and after the process has started.
Given(x, p, input) ==
  /\ x.at = "ready" => x.input = input
  /\ Open(x) => p.whole = input

\* The stage a job is at, and the call that goes with it.
Staged(j, x) ==
  LET stage == Head(j.plan)
  IN  /\ j.step \in Steps => j.plan # << >> /\ x.at # "idle"
      /\ j.step \notin Steps => x = Idle
      /\ j.step = "idle" => j.text = OtherText /\ j.edit = "none"
      /\ j.step \in {"id", "sudo", "main"} => stage.access = "privileged"
      /\ j.step = "direct" => stage.access = "direct"
      /\ j.step \in {"list", "install"} => stage.access = "cron"
      /\ j.step \in {"direct", "main"} => x.program = stage.program /\ x.limit = Limit(stage)
      /\ j.step = "main" => x.way # "none" \/ host.root
      /\ j.step = "list" => x.program = "crontab -l"
      /\ j.step = "install" => x.program = "crontab -"

\* What the user chose, and what it becomes.
Chosen(j, texts) ==
  IF j.edit = "add" THEN j.text = OtherText
  ELSE /\ j.edit # "none" /\ j.text \in texts
       /\ \E i \in DOMAIN j.seen : j.id = At(j.seen, i) /\ j.text = j.seen[i].text

\* Edited, of a job instead of a client.
EditOf(j, lines) ==
  CASE j.edit = "add" -> Added(lines, Uuid(0), j.text)
    [] j.edit = "save" -> Saved(lines, j.id, j.text, FALSE)
    [] j.edit = "enable" -> Switched(lines, j.id, FALSE)
    [] j.edit = "disable" -> Switched(lines, j.id, TRUE)
    [] j.edit = "delete" -> Deleted(lines, j.id)

Editing(j, x, p, texts) ==
  /\ j.step \in {"list", "install"} => Chosen(j, texts)
  /\ j.step = "install" => Given(x, p, EditOf(j, j.listed))

\* A job, its call and the process of that.
Fits(j, x, p, texts) == Linked(x, p) /\ Honest(p) /\ Staged(j, x) /\ Editing(j, x, p, texts)

IInv ==
  /\ Typed /\ AllApart
  /\ \A c \in Clients : Fits(job[c], call[c], proc[c], meant)
  /\ CronLinesKept

-----------------------------------------------------------------------------
(* Facts about the constants and the data.                                 *)

LEMMA Constants ==
  /\ MaxOutput \in Nat /\ DefaultLimit \in Nat /\ Produced \in Nat
  /\ Payload \in Seq(ToSet(Payload)) /\ Password \notin ToSet(Payload)
  /\ OtherText \in Texts /\ Password \notin CronLines
BY RemoteExecAssumption, RemoteWorkAssumption DEF RemoteExecAssumption, RemoteWorkAssumption

LEMMA LineTypes ==
  /\ Legal \subseteq CronLines /\ Legal \subseteq Harmless /\ Harmless \subseteq Lines
  /\ Password \in Lines /\ Password \notin Harmless
  /\ Payload \in Seq(Harmless) /\ << >> \in Seq(Harmless) /\ << >> \in Seq(Legal)
  /\ Seq(Legal) \subseteq Seq(Harmless) /\ Seq(Harmless) \subseteq Seq(Lines)
<1>1. Legal \subseteq CronLines /\ Legal \subseteq Harmless /\ Harmless \subseteq Lines
  BY DEF Legal, Harmless, Lines
<1>2. Password \in Lines /\ Password \notin Harmless
  BY <1>1, Constants DEF Harmless, Lines
<1>3. Payload \in Seq(Harmless)
  <2>1. ToSet(Payload) \subseteq Harmless
    BY DEF Harmless
  <2>2. QED
    BY <2>1, Constants, SeqMonotonic
<1>4. Seq(Legal) \subseteq Seq(Harmless) /\ Seq(Harmless) \subseteq Seq(Lines)
  BY <1>1, SeqMonotonic
<1>5. QED
  BY <1>1, <1>2, <1>3, <1>4

\* An identifier of ours has one text in all crontabs to start with.
LEMMA StartLinesLegal == \A s \in Scenarios : s.crontab \in Seq(Legal)
<1> SUFFICES ASSUME NEW s \in Scenarios PROVE s.crontab \in Seq(Legal)
  OBVIOUS
<1>1. s.crontab \in Seq(CronLines)
  BY RemoteWorkAssumption DEF RemoteWorkAssumption
<1>2. ASSUME NEW i \in 1 .. Len(s.crontab) PROVE s.crontab[i] \in Legal
  <2> DEFINE line == s.crontab[i]
  <2>1. line \in CronLines /\ line \in ToSet(s.crontab)
    BY <1>1, <1>2 DEF ToSet
  <2>2. line \in StartLines
    BY <2>1 DEF StartLines
  <2> HIDE DEF line
  <2>3. ASSUME line.mark.kind = "uuid" PROVE line \in Legal
    <3>1. PICK n \in Nat : line.mark = Uuid(n)
      BY <2>1, <2>3 DEF CronLines, Marks, NoMark, Uuid
    <3>2. \E twin \in StartLines : twin.mark = Uuid(n)
      BY <2>2, <3>1
    <3> DEFINE twin == CHOOSE twin \in StartLines : twin.mark = Uuid(n)
    <3>3. twin \in StartLines /\ twin.mark = Uuid(n)
      BY <3>2
    <3>4. TextOf(n) = twin.text
      BY <3>2 DEF TextOf
    <3> HIDE DEF twin
    <3>5. line.text = twin.text
      BY <2>2, <2>3, <3>1, <3>3, RemoteWorkAssumption DEF RemoteWorkAssumption
    <3>6. line.mark.n = n
      BY <3>1 DEF Uuid
    <3>7. QED
      BY <2>1, <3>4, <3>5, <3>6 DEF Legal
  <2>4. line.mark.kind # "uuid" => line \in Legal
    BY <2>1 DEF Legal
  <2>5. QED
    BY <2>3, <2>4 DEF line
<1>3. QED
  BY <1>1, <1>2

\* The lines that the program and others write.
LEMMA NewLinesLegal ==
  /\ CronLine(OtherText, FALSE, Uuid(0)) \in Legal
  /\ CronLine(OtherText, FALSE, NoMark) \in Legal
<1>1. TextOf(0) = OtherText
  BY RemoteWorkAssumption DEF RemoteWorkAssumption, TextOf
<1>2. Uuid(0) \in Marks /\ Uuid(0).n = 0 /\ NoMark \in Marks /\ NoMark.kind = "none"
  BY DEF Uuid, NoMark, Marks
<1>3. \A m \in Marks : CronLine(OtherText, FALSE, m) \in CronLines
  BY Constants DEF CronLine, CronLines
<1>4. \A m : CronLine(OtherText, FALSE, m).mark = m /\ CronLine(OtherText, FALSE, m).text = OtherText
  BY DEF CronLine
<1>5. QED
  BY <1>1, <1>2, <1>3, <1>4 DEF Legal

\* The identifier of a line is its mark, or its place.
LEMMA IdOfLine ==
  ASSUME NEW lines \in Seq(Legal), NEW i \in DOMAIN lines
  PROVE  /\ lines[i] \in Legal /\ At(lines, i) \in Marks
         /\ At(lines, i).kind = "uuid" => lines[i].mark = At(lines, i)
                                        /\ lines[i].text = TextOf(At(lines, i).n)
         /\ At(lines, i).kind # "none"
<1>1. lines[i] \in Legal /\ i \in 1 .. Len(lines) /\ Len(lines) \in Nat
  OBVIOUS
<1>2. lines[i].mark \in Marks
  BY <1>1 DEF Legal, CronLines
<1>3. At(lines, i) = IF lines[i].mark = NoMark THEN Place(i - 1) ELSE lines[i].mark
  BY DEF At, LineId
<1>4. i - 1 \in Nat /\ Place(i - 1) \in Marks /\ Place(i - 1).kind = "line"
  BY <1>1 DEF Place, Marks
<1>5. lines[i].mark # NoMark => lines[i].mark.kind # "none"
  BY <1>2 DEF Marks
<1>6. QED
  BY <1>1, <1>2, <1>3, <1>4, <1>5 DEF Legal

\* Lines that answer to an identifier are replaced, the others stay.
LEMMA Replaced ==
  ASSUME NEW lines \in Seq(Legal), NEW id, NEW new \in [DOMAIN lines -> Seq(Legal)]
  PROVE  LET ss == [i \in DOMAIN lines |-> IF At(lines, i) = id THEN new[i] ELSE <<lines[i]>>]
         IN  /\ FlattenSeq(ss) \in Seq(Legal)
             /\ \A i \in DOMAIN lines : At(lines, i) # id => lines[i] \in ToSet(FlattenSeq(ss))
<1> DEFINE ss == [i \in DOMAIN lines |-> IF At(lines, i) = id THEN new[i] ELSE <<lines[i]>>]
<1>1. DOMAIN lines = 1 .. Len(lines) /\ Len(lines) \in Nat /\ \A i \in DOMAIN lines : lines[i] \in Legal
  OBVIOUS
<1>2. \A i \in DOMAIN lines : <<lines[i]>> \in Seq(Legal) /\ lines[i] \in ToSet(<<lines[i]>>)
  BY <1>1 DEF ToSet
<1>3. ss \in [1 .. Len(lines) -> Seq(Legal)] /\ DOMAIN ss = DOMAIN lines
  BY <1>1, <1>2
<1>4. \A i \in DOMAIN lines : At(lines, i) # id => lines[i] \in ToSet(ss[i])
  BY <1>2
<1> HIDE DEF ss
<1>5. ss \in Seq(Seq(Legal))
  BY <1>1, <1>3
<1>6. /\ FlattenSeq(ss) \in Seq(Legal)
      /\ \A i \in DOMAIN lines : At(lines, i) # id => lines[i] \in ToSet(FlattenSeq(ss))
  BY <1>3, <1>4, <1>5, FlattenSeqElements
<1>7. QED
  BY <1>6 DEF ss

\* What an edit makes of a crontab: all lines but those that answer to its
\* identifier are there.
LEMMA EditFacts ==
  ASSUME NEW j \in JobStates, NEW texts, Chosen(j, texts), NEW lines \in Seq(Legal)
  PROVE  /\ EditOf(j, lines) \in Seq(Legal)
         /\ \A i \in DOMAIN lines :
              j.edit = "add" \/ At(lines, i) # j.id => lines[i] \in ToSet(EditOf(j, lines))
<1>1. DOMAIN lines = 1 .. Len(lines) /\ Len(lines) \in Nat /\ \A i \in DOMAIN lines : lines[i] \in Legal
  OBVIOUS
<1> DEFINE Swapped(new) == [i \in DOMAIN lines |-> IF At(lines, i) = j.id THEN new[i] ELSE <<lines[i]>>]
<1>2. CASE j.edit = "add"
  <2> DEFINE line == CronLine(OtherText, FALSE, Uuid(0))
  <2>1. EditOf(j, lines) = Append(lines, line)
    BY <1>2 DEF EditOf, Added, Chosen
  <2>2. line \in Legal
    BY NewLinesLegal
  <2> HIDE DEF line
  <2>3. /\ Append(lines, line) \in Seq(Legal) /\ DOMAIN Append(lines, line) = 1 .. Len(lines) + 1
        /\ \A i \in DOMAIN lines : Append(lines, line)[i] = lines[i] /\ i \in 1 .. Len(lines) + 1
    BY <1>1, <2>2
  <2>4. QED
    BY <1>2, <2>1, <2>3 DEF ToSet
<1>3. CASE j.edit = "save"
  <2> DEFINE line == CronLine(j.text, FALSE, j.id)
             new == [i \in DOMAIN lines |-> <<line>>]
  <2>1. line \in Legal
    <3>1. PICK k \in DOMAIN j.seen : j.id = At(j.seen, k) /\ j.text = j.seen[k].text
      BY <1>3 DEF Chosen
    <3>2. j.seen \in Seq(Legal) /\ j.text \in Texts /\ j.id \in Marks
      BY DEF JobStates
    <3>3. j.id.kind = "uuid" => j.text = TextOf(j.id.n)
      BY <3>1, <3>2, IdOfLine
    <3>4. line \in CronLines /\ line.mark = j.id /\ line.text = j.text
      BY <3>2 DEF CronLines, CronLine
    <3>5. QED
      BY <3>3, <3>4 DEF Legal
  <2>2. new \in [DOMAIN lines -> Seq(Legal)]
    <3> HIDE DEF line
    <3>1. <<line>> \in Seq(Legal)
      BY <2>1
    <3>2. QED
      BY <3>1
  <2>3. EditOf(j, lines) = FlattenSeq(Swapped(new))
    <3>1. EditOf(j, lines) = Saved(lines, j.id, j.text, FALSE)
      BY <1>3 DEF EditOf
    <3>2. Swapped(new) = [i \in DOMAIN lines |-> IF At(lines, i) = j.id THEN <<line>> ELSE <<lines[i]>>]
      OBVIOUS
    <3>3. QED
      BY <3>1, <3>2 DEF Saved, Changed
  <2> HIDE DEF new
  <2>4. QED
    BY <1>3, <2>2, <2>3, Replaced
<1>4. ASSUME NEW off \in BOOLEAN, EditOf(j, lines) = Switched(lines, j.id, off), j.edit # "add"
      PROVE  /\ EditOf(j, lines) \in Seq(Legal)
             /\ \A i \in DOMAIN lines : At(lines, i) # j.id => lines[i] \in ToSet(EditOf(j, lines))
  <2> DEFINE new == [i \in DOMAIN lines |-> <<[lines[i] EXCEPT !.off = off]>>]
  <2>1. \A line \in Legal : [line EXCEPT !.off = off] \in Legal
    BY <1>4 DEF Legal, CronLines
  <2>2. new \in [DOMAIN lines -> Seq(Legal)]
    BY <1>1, <2>1
  <2>3. EditOf(j, lines) = FlattenSeq(Swapped(new))
    <3>1. Swapped(new) = [i \in DOMAIN lines |-> IF At(lines, i) = j.id
                                                THEN <<[lines[i] EXCEPT !.off = off]>> ELSE <<lines[i]>>]
      OBVIOUS
    <3>2. QED
      BY <1>4, <3>1 DEF Switched, Changed
  <2> HIDE DEF new
  <2>4. QED
    BY <2>2, <2>3, Replaced
<1>5. CASE j.edit = "delete"
  <2> DEFINE new == [i \in DOMAIN lines |-> << >>]
  <2>1. new \in [DOMAIN lines -> Seq(Legal)]
    BY LineTypes
  <2>2. EditOf(j, lines) = FlattenSeq(Swapped(new))
    <3>1. Swapped(new) = [i \in DOMAIN lines |-> IF At(lines, i) = j.id THEN << >> ELSE <<lines[i]>>]
      OBVIOUS
    <3>2. EditOf(j, lines) = Deleted(lines, j.id)
      BY <1>5 DEF EditOf
    <3>3. QED
      BY <3>1, <3>2 DEF Deleted, Changed
  <2> HIDE DEF new
  <2>3. QED
    BY <1>5, <2>1, <2>2, Replaced
<1>6. CASE j.edit = "enable"
  BY <1>4, <1>6 DEF EditOf
<1>7. CASE j.edit = "disable"
  BY <1>4, <1>7 DEF EditOf
<1>8. j.edit \in {"add", "save", "enable", "disable", "delete"}
  BY DEF JobStates, Edits, Chosen
<1>9. QED
  BY <1>2, <1>3, <1>5, <1>6, <1>7, <1>8

\* The lines that answer say what the user chose, if the identifier is ours,
\* or if it is a place in the crontab that was shown.
LEMMA ChosenText ==
  ASSUME NEW j \in JobStates, NEW texts, Chosen(j, texts), j.edit # "add",
         NEW lines \in Seq(Legal), NEW i \in Answering(lines, j.id),
         j.id.kind = "line" => lines = j.seen,
         Cardinality(Answering(lines, j.id)) <= 1
  PROVE  lines[i].text \in texts
<1>1. j.text \in texts /\ j.seen \in Seq(Legal) /\ j.id \in Marks
  BY DEF Chosen, JobStates
<1>2. PICK k \in DOMAIN j.seen : j.id = At(j.seen, k) /\ j.text = j.seen[k].text
  BY DEF Chosen
<1>3. i \in DOMAIN lines /\ At(lines, i) = j.id
  BY DEF Answering
<1>4. j.id.kind \in {"uuid", "line"}
  BY <1>1, <1>2, IdOfLine DEF Marks, NoMark
<1>5. CASE j.id.kind = "uuid"
  BY <1>1, <1>2, <1>3, <1>5, IdOfLine
<1>6. CASE j.id.kind = "line"
  <2> DEFINE A == Answering(lines, j.id)
  <2>1. k \in A
    BY <1>2, <1>6 DEF Answering
  <2>2. IsFiniteSet(A)
    <3>1. A \subseteq 1 .. Len(lines) /\ Len(lines) \in Nat
      BY DEF Answering
    <3> HIDE DEF A
    <3>2. IsFiniteSet(1 .. Len(lines))
      <4>1. 1 \in Int /\ Len(lines) \in Int
        BY <3>1
      <4>2. QED
        BY <4>1, FS_Interval
    <3>3. QED
      BY <3>1, <3>2, FS_Subset
  <2>3. A \ {i} = {}
    <3> HIDE DEF A
    <3>1. Cardinality(A \ {i}) = Cardinality(A) - 1 /\ IsFiniteSet(A \ {i}) /\ Cardinality(A) \in Nat
      BY <2>2, FS_RemoveElement, FS_CardinalityType DEF A
    <3>2. Cardinality(A) <= 1 /\ Cardinality(A \ {i}) \in Nat
      BY <3>1, FS_CardinalityType DEF A
    <3>3. Cardinality(A \ {i}) = 0
      BY <3>1, <3>2
    <3>4. QED
      BY <3>1, <3>3, FS_EmptySet
  <2>4. k = i
    BY <2>1, <2>3
  <2>5. QED
    BY <1>1, <1>2, <1>6, <2>4
<1>7. QED
  BY <1>4, <1>5, <1>6

-----------------------------------------------------------------------------
(* Calls, stages and plans.                                                *)

LEMMA NothingStarted == NoProcess \in Processes /\ Apart(NoProcess) /\ Honest(NoProcess)
<1>1. 0 \in 0 .. Produced
  BY Constants
<1>2. << >> \in Seq(Lines) /\ << >> \in Seq(Harmless) /\ << >> \in Seq(Legal)
  OBVIOUS
<1>3. NoProcess \in Processes
  BY <1>1, <1>2 DEF NoProcess, Processes, Programs, Ways
<1>4. Apart(NoProcess)
  BY <1>2 DEF Apart, NoProcess, Readers
<1>5. Honest(NoProcess)
  BY DEF Honest, NoProcess
<1>6. QED
  BY <1>3, <1>4, <1>5

LEMMA PlainFacts ==
  ASSUME NEW program \in Programs, NEW way \in Ways
  PROVE  LET x == Plain(program, way)
         IN  /\ x \in CallStates /\ x.at = "ready" /\ x.program = program /\ x.way = way
             /\ x.input = << >> /\ x.has = FALSE /\ x.limit = DefaultLimit /\ x.kept = 0
<1>1. << >> \in Seq(Lines)
  OBVIOUS
<1>2. QED
  BY <1>1, Constants DEF Plain, Idle, CallStates, Ats

LEMMA WithFacts ==
  ASSUME NEW x \in CallStates, NEW input \in Seq(Lines)
  PROVE  /\ With(x, input) \in CallStates /\ With(x, input).at = x.at
         /\ With(x, input).program = x.program /\ With(x, input).way = x.way
         /\ With(x, input).input = input /\ With(x, input).has = TRUE
         /\ With(x, input).limit = x.limit /\ With(x, input).kept = x.kept
<1> SUFFICES ASSUME NEW y, y = With(x, input)
             PROVE  /\ y \in CallStates /\ y.at = x.at /\ y.program = x.program /\ y.way = x.way
                    /\ y.input = input /\ y.has = TRUE /\ y.limit = x.limit /\ y.kept = x.kept
  OBVIOUS
<1>1. QED
  BY DEF With, CallStates

LEMMA LimitFacts ==
  ASSUME NEW x \in CallStates, NEW limit \in Nat, NEW y, y = [x EXCEPT !.limit = limit]
  PROVE  /\ y \in CallStates /\ y.at = x.at /\ y.program = x.program /\ y.way = x.way
         /\ y.input = x.input /\ y.has = x.has /\ y.limit = limit /\ y.kept = x.kept
BY DEF CallStates

Stages == {Command, Input, Script, Head(PlanFallback), Head(PlanScript), Head(PlanCron)}

LEMMA HeadAndTail ==
  ASSUME NEW a, NEW b
  PROVE  /\ Head(<<a>>) = a /\ Tail(<<a>>) = << >> /\ Len(<<a>>) = 1
         /\ Head(<<a, b>>) = a /\ Tail(<<a, b>>) = <<b>> /\ Len(<<a, b>>) = 2
OBVIOUS

LEMMA EachStage ==
  /\ Command.access = "privileged" /\ Command.program = "command" /\ Command.bounded = FALSE
  /\ Input.access = "privileged" /\ Input.program = "reader" /\ Input.bounded = FALSE
  /\ Script.access = "privileged" /\ Script.program = "reader" /\ Script.bounded = TRUE
  /\ Head(PlanFallback).access = "direct" /\ Head(PlanFallback).program = "command"
  /\ Head(PlanFallback).bounded = FALSE
  /\ Head(PlanScript).access = "direct" /\ Head(PlanScript).program = "reader"
  /\ Head(PlanScript).bounded = TRUE
  /\ Head(PlanCron).access = "cron" /\ Head(PlanCron).bounded = FALSE
<1>1. /\ Head(PlanFallback) = Stage("direct", "command", FALSE)
      /\ Head(PlanScript) = Stage("direct", "reader", TRUE)
      /\ Head(PlanCron) = Stage("cron", "crontab -l", FALSE)
  BY HeadAndTail DEF PlanFallback, PlanScript, PlanCron
<1>3. /\ Command.access = "privileged" /\ Command.program = "command" /\ Command.bounded = FALSE
      /\ Input.access = "privileged" /\ Input.program = "reader" /\ Input.bounded = FALSE
      /\ Script.access = "privileged" /\ Script.program = "reader" /\ Script.bounded = TRUE
  BY DEF Command, Input, Script, Stage
<1>4. Head(PlanFallback).access = "direct" /\ Head(PlanFallback).program = "command"
      /\ Head(PlanFallback).bounded = FALSE
  <2>1. Head(PlanFallback) = [access |-> "direct", program |-> "command", bounded |-> FALSE]
    BY <1>1 DEF Stage
  <2> QED BY <2>1
<1>5. Head(PlanScript).access = "direct" /\ Head(PlanScript).program = "reader"
      /\ Head(PlanScript).bounded = TRUE
  <2>1. Head(PlanScript) = [access |-> "direct", program |-> "reader", bounded |-> TRUE]
    BY <1>1 DEF Stage
  <2> QED BY <2>1
<1>6. /\ Head(PlanCron).access = "cron" /\ Head(PlanCron).program = "crontab -l"
      /\ Head(PlanCron).bounded = FALSE
  <2>1. PICK stage : stage = Head(PlanCron)
    OBVIOUS
  <2>2. stage = [access |-> "cron", program |-> "crontab -l", bounded |-> FALSE]
    BY <1>1, <2>1 DEF Stage
  <2>3. stage.access = "cron" /\ stage.program = "crontab -l" /\ stage.bounded = FALSE
    BY <2>2
  <2>4. QED
    BY <2>1, <2>3
<1>7. QED
  BY <1>3, <1>4, <1>5, <1>6

LEMMA StageFacts ==
  ASSUME NEW stage \in Stages
  PROVE  /\ stage.access \in {"direct", "privileged", "cron"}
         /\ stage.access # "cron" => stage.program \in {"command", "reader"}
         /\ stage.bounded \in BOOLEAN /\ Limit(stage) \in Nat
<1>1. /\ stage.access \in {"direct", "privileged", "cron"} /\ stage.bounded \in BOOLEAN
      /\ stage.access # "cron" => stage.program \in {"command", "reader"}
  BY EachStage DEF Stages
<1>2. QED
  BY <1>1, Constants DEF Limit

LEMMA PlanFacts ==
  ASSUME NEW plan \in Rests, plan # << >>
  PROVE  /\ Head(plan) \in Stages
         /\ Head(plan).access = "cron" => plan = PlanCron
         /\ Head(plan).access = "direct" \/ Len(plan) > 1 =>
              Tail(plan) \in Rests /\ Tail(plan) # << >> /\ Head(Tail(plan)).access = "privileged"
<1>1. CASE plan = PlanPrivileged
  <2>1. Head(plan) = Command /\ Len(plan) = 1
    BY <1>1, HeadAndTail DEF PlanPrivileged
  <2>2. QED
    BY <2>1, EachStage DEF Stages
<1>2. CASE plan = PlanFallback
  <2>1. Tail(plan) = PlanPrivileged /\ Head(PlanPrivileged) = Command /\ PlanPrivileged # << >>
    BY <1>2, HeadAndTail DEF PlanFallback, PlanPrivileged
  <2>2. QED
    BY <1>2, <2>1, EachStage DEF Stages, Rests, Plans
<1>3. CASE plan = PlanUser
  <2>1. Head(plan) = Command /\ Tail(plan) = <<Input>> /\ Head(<<Input>>) = Input /\ <<Input>> # << >>
    BY <1>3, HeadAndTail DEF PlanUser
  <2>2. QED
    BY <2>1, EachStage DEF Stages, Rests
<1>4. CASE plan = PlanScript
  <2>1. Tail(plan) = <<Script>> /\ Head(<<Script>>) = Script /\ <<Script>> # << >>
    BY <1>4, HeadAndTail DEF PlanScript
  <2>2. QED
    BY <1>4, <2>1, EachStage DEF Stages, Rests
<1>5. CASE plan = PlanCron
  <2>1. Len(plan) = 1
    BY <1>5, HeadAndTail DEF PlanCron
  <2>2. QED
    BY <1>5, <2>1, EachStage DEF Stages
<1>6. CASE plan = <<Input>>
  <2>1. Head(plan) = Input /\ Len(plan) = 1
    BY <1>6, HeadAndTail
  <2>2. QED
    BY <2>1, EachStage DEF Stages
<1>7. CASE plan = <<Script>>
  <2>1. Head(plan) = Script /\ Len(plan) = 1
    BY <1>7, HeadAndTail
  <2>2. QED
    BY <2>1, EachStage DEF Stages
<1>8. QED
  BY <1>1, <1>2, <1>3, <1>4, <1>5, <1>6, <1>7 DEF Rests, Plans

\* The call of a stage's command, in a way that suits it.
LEMMA MainFacts ==
  ASSUME NEW stage \in Stages, stage.access # "cron", NEW way \in Ways,
         way = "wrapper" => stage.program = "reader", way = "asking" => stage.program = "command"
  PROVE  LET x == Main(stage, way)
         IN  /\ x \in CallStates /\ x.at = "ready" /\ x.program = stage.program /\ x.way = way
             /\ x.limit = Limit(stage) /\ Prepared(x)
<1> DEFINE x == [Plain(stage.program, way) EXCEPT !.limit = Limit(stage)]
           first == IF way \in {"wrapper", "asking"} THEN <<Password>> ELSE << >>
           whole == IF stage.program \in Readers THEN first \o Payload ELSE first
<1>1. stage.program \in {"command", "reader"} /\ stage.program \in Programs /\ Limit(stage) \in Nat
  BY StageFacts DEF Programs
<1>2. /\ x \in CallStates /\ x.at = "ready" /\ x.program = stage.program /\ x.way = way
      /\ x.input = << >> /\ x.has = FALSE /\ x.limit = Limit(stage) /\ x.kept = 0
  <2> DEFINE y == Plain(stage.program, way)
  <2>1. /\ y \in CallStates /\ y.at = "ready" /\ y.program = stage.program /\ y.way = way
        /\ y.input = << >> /\ y.has = FALSE /\ y.kept = 0
    BY <1>1, PlainFacts
  <2> HIDE DEF y
  <2>2. x = [y EXCEPT !.limit = Limit(stage)]
    BY DEF y
  <2> HIDE DEF x
  <2>3. QED
    BY <1>1, <2>1, <2>2, LimitFacts
<1>3. first \in Seq(Lines) /\ first \o Payload \in Seq(Lines) /\ whole \in Seq(Lines)
  <2>1. Payload \in Seq(Lines) /\ << >> \in Seq(Lines) /\ <<Password>> \in Seq(Lines)
    BY LineTypes
  <2>2. first \in Seq(Lines)
    BY <2>1
  <2> HIDE DEF first
  <2>3. QED
    BY <2>1, <2>2, ConcatProperties
<1>4. Suits(stage.program, way, whole)
  BY <1>1 DEF Suits, Readers, Ways
<1>5. Main(stage, way) = IF stage.program \in Readers THEN With(x, first \o Payload)
                         ELSE IF first # << >> THEN With(x, first) ELSE x
  BY DEF Main
<1> HIDE DEF x
<1> SUFFICES ASSUME NEW y, y = Main(stage, way)
             PROVE  /\ y \in CallStates /\ y.at = "ready" /\ y.program = stage.program /\ y.way = way
                    /\ y.limit = Limit(stage) /\ Prepared(y)
  OBVIOUS
<1>6. CASE y = With(x, whole)
  <2> HIDE DEF whole
  <2>1. /\ y \in CallStates /\ y.at = "ready" /\ y.program = stage.program /\ y.way = way
        /\ y.input = whole /\ y.has = TRUE /\ y.limit = Limit(stage) /\ y.kept = 0
    <3>1. x \in CallStates /\ whole \in Seq(Lines)
      BY <1>2, <1>3
    <3>2. /\ With(x, whole) \in CallStates /\ With(x, whole).at = x.at
          /\ With(x, whole).program = x.program /\ With(x, whole).way = x.way
          /\ With(x, whole).input = whole /\ With(x, whole).has = TRUE
          /\ With(x, whole).limit = x.limit /\ With(x, whole).kept = x.kept
      BY <3>1, WithFacts
    <3>3. QED
      BY <1>2, <1>6, <3>2
  <2>2. QED
    BY <1>4, <2>1 DEF Prepared
<1>7. CASE y = x /\ whole = << >>
  <2> HIDE DEF whole
  <2>1. QED
    BY <1>2, <1>4, <1>7 DEF Prepared
<1>8. QED
  BY <1>5, <1>6, <1>7

LEMMA ProbeFacts ==
  ASSUME NEW program \in {"id", "sudo -n true", "crontab -l"}
  PROVE  LET x == Plain(program, "none")
         IN  x \in CallStates /\ x.at = "ready" /\ x.program = program /\ x.way = "none" /\ Prepared(x)
<1>1. program \in Programs /\ program \notin Readers /\ "none" \in Ways
  BY DEF Programs, Readers, Ways
<1>2. QED
  BY <1>1, PlainFacts DEF Prepared, Suits
-----------------------------------------------------------------------------
(* One client's step, as the invariant sees it.                            *)

LEMMA FitsWithMore ==
  ASSUME NEW j, NEW x, NEW p, NEW texts, NEW more, texts \subseteq more, Fits(j, x, p, texts)
  PROVE  Fits(j, x, p, more)
<1>1. Chosen(j, texts) => Chosen(j, more)
  BY DEF Chosen
<1>2. QED
  BY <1>1 DEF Fits, Editing

\* The invariant speaks of variables only through what a client has and the host.
LEMMA FitsLater ==
  ASSUME NEW c, NEW j, NEW x, NEW p, host' = host,
         job'[c] = j, call'[c] = x, proc'[c] = p, Fits(j, x, p, meant')
  PROVE  Fits(job[c], call[c], proc[c], meant)'
<1>1. Linked(x, p) => Linked(call[c], proc[c])'
  OBVIOUS
<1>2. Honest(p) => Honest(proc[c])'
  BY DEF Honest, Rooted
<1>3. Staged(j, x) => Staged(job[c], call[c])'
  BY DEF Staged
<1>4. Editing(j, x, p, meant') => Editing(job[c], call[c], proc[c], meant)'
  OBVIOUS
<1>5. QED
  BY <1>1, <1>2, <1>3, <1>4 DEF Fits

LEMMA ClientStep ==
  ASSUME IInv, NEW c \in Clients, NEW j \in JobStates, NEW x \in CallStates, NEW p \in Processes,
         job' = [job EXCEPT ![c] = j], call' = [call EXCEPT ![c] = x],
         proc' = [proc EXCEPT ![c] = p],
         Fits(j, x, p, meant'), Apart(p),
         strays' \subseteq Processes, \A q \in strays' : Apart(q) /\ Processing(q),
         cancelled' \in [Clients -> BOOLEAN], host' = host, crontab' \in Seq(Legal),
         others' \in Nat, spoilt' \in BOOLEAN, meant \subseteq meant', CronLinesKept'
  PROVE  IInv'
<1>1. Typed'
  BY DEF IInv, Typed
<1>2. \A d \in Clients : d # c => job'[d] = job[d] /\ call'[d] = call[d] /\ proc'[d] = proc[d]
  BY DEF IInv, Typed
<1>3. job'[c] = j /\ call'[c] = x /\ proc'[c] = p
  BY DEF IInv, Typed
<1>4. AllApart'
  BY <1>2, <1>3 DEF IInv, AllApart
<1>5. ASSUME NEW d \in Clients PROVE Fits(job[d], call[d], proc[d], meant)'
  <2>1. CASE d = c
    BY <1>3, <2>1, FitsLater
  <2>2. CASE d # c
    <3>1. Fits(job[d], call[d], proc[d], meant)
      BY DEF IInv
    <3>2. PICK k, y, q : k = job[d] /\ y = call[d] /\ q = proc[d]
      OBVIOUS
    <3>3. Fits(k, y, q, meant')
      BY <3>1, <3>2, FitsWithMore
    <3>4. QED
      BY <1>2, <2>2, <3>2, <3>3, FitsLater
  <2>3. QED
    BY <2>1, <2>2
<1>6. QED
  BY <1>1, <1>4, <1>5 DEF IInv

LEMMA HostStep ==
  ASSUME IInv, UNCHANGED <<job, call, proc, cancelled, host, meant>>,
         strays' \subseteq Processes, \A q \in strays' : Apart(q) /\ Processing(q),
         crontab' \in Seq(Legal), others' \in Nat, spoilt' \in BOOLEAN, CronLinesKept'
  PROVE  IInv'
<1>1. Typed'
  BY DEF IInv, Typed
<1>2. AllApart'
  BY DEF IInv, AllApart
<1>3. ASSUME NEW d \in Clients PROVE Fits(job[d], call[d], proc[d], meant)'
  <2>1. Fits(job[d], call[d], proc[d], meant)
    BY DEF IInv
  <2>2. PICK k, y, q : k = job[d] /\ y = call[d] /\ q = proc[d]
    OBVIOUS
  <2>3. Fits(k, y, q, meant')
    BY <2>1, <2>2
  <2>4. QED
    BY <2>2, <2>3, FitsLater
<1>4. QED
  BY <1>1, <1>2, <1>3 DEF IInv

LEMMA LinesStillKept ==
  ASSUME CronLinesKept, UNCHANGED <<crontab, entered, spoilt>>, meant \subseteq meant'
  PROVE  CronLinesKept'
BY DEF CronLinesKept

LEMMA InvariantOf ==
  ASSUME IInv, NEW c \in Clients
  PROVE  /\ job[c] \in JobStates /\ call[c] \in CallStates /\ proc[c] \in Processes
         /\ Linked(call[c], proc[c]) /\ Honest(proc[c]) /\ Staged(job[c], call[c])
         /\ Editing(job[c], call[c], proc[c], meant) /\ Apart(proc[c])
BY DEF IInv, Typed, AllApart, Fits
-----------------------------------------------------------------------------
(* What comes after a call.                                                *)

LEMMA StepFacts ==
  ASSUME NEW j \in JobStates, NEW step \in Steps \cup {"idle", "done", "failed"},
         NEW k, k = [j EXCEPT !.step = step]
  PROVE  /\ k \in JobStates /\ k.step = step /\ k.plan = j.plan /\ k.edit = j.edit
         /\ k.id = j.id /\ k.text = j.text /\ k.seen = j.seen /\ k.listed = j.listed
BY DEF JobStates

LEMMA NextCall ==
  ASSUME IInv, NEW c \in Clients, NEW j \in JobStates, NEW x \in CallStates,
         job' = [job EXCEPT ![c] = j], Make(c, x), cancelled' \in [Clients -> BOOLEAN],
         UNCHANGED <<strays, host, crontab, others, history>>,
         Staged(j, x), Editing(j, x, NoProcess, meant),
         x.at \in {"idle", "ready"}, x.at = "ready" => Prepared(x)
  PROVE  IInv'
<1>1. Linked(x, NoProcess)
  BY DEF Linked, Open
<1>2. Fits(j, x, NoProcess, meant')
  BY <1>1, NothingStarted DEF Fits, history
<1>3. call' = [call EXCEPT ![c] = x] /\ proc' = [proc EXCEPT ![c] = NoProcess]
  BY DEF Make
<1>4. /\ strays' \subseteq Processes /\ \A q \in strays' : Apart(q) /\ Processing(q)
      /\ crontab' \in Seq(Legal) /\ others' \in Nat /\ spoilt' \in BOOLEAN
  BY DEF IInv, Typed, AllApart, history
<1>5. CronLinesKept' /\ meant \subseteq meant'
  BY LinesStillKept DEF IInv, history
<1>6. QED
  BY <1>2, <1>3, <1>4, <1>5, NothingStarted, ClientStep

LEMMA Ends ==
  ASSUME IInv, NEW c \in Clients, NEW outcome \in {"done", "failed"}, End(c, outcome),
         UNCHANGED <<strays, host, crontab, others, history>>
  PROVE  IInv'
<1>1. PICK j : j = [NewJob(<< >>) EXCEPT !.step = outcome]
  OBVIOUS
<1>2. j \in JobStates /\ j.step = outcome
  <2>1. << >> \in Rests /\ OtherText \in Texts /\ << >> \in Seq(Legal) /\ NoMark \in Marks
    BY Constants DEF Rests, Plans, Marks
  <2>2. PICK k : k = NewJob(<< >>)
    OBVIOUS
  <2>3. k \in JobStates
    BY <2>1, <2>2 DEF NewJob, JobStates, Edits
  <2>4. j = [k EXCEPT !.step = outcome]
    BY <1>1, <2>2
  <2>5. QED
    BY <2>3, <2>4, StepFacts
<1>3. Idle \in CallStates /\ Idle.at = "idle"
  BY Constants DEF Idle, CallStates, Ats, Programs, Ways
<1>4. Staged(j, Idle) /\ Editing(j, Idle, NoProcess, meant)
  BY <1>2 DEF Staged, Editing, Steps
<1>5. /\ job' = [job EXCEPT ![c] = j] /\ Make(c, Idle)
      /\ cancelled' \in [Clients -> BOOLEAN]
  BY <1>1 DEF End, IInv, Typed
<1>6. QED
  BY <1>2, <1>3, <1>4, <1>5, NextCall

LEMMA IsDone ==
  ASSUME IInv, NEW c \in Clients, Done(c),
         UNCHANGED <<strays, host, crontab, others, history>>
  PROVE  IInv'
<1>1. PICK outcome : outcome = IF cancelled[c] THEN "failed" ELSE "done"
  OBVIOUS
<1>2. outcome \in {"done", "failed"} /\ End(c, outcome)
  BY <1>1 DEF Done
<1>3. QED
  BY <1>2, Ends

LEMMA Continues ==
  ASSUME IInv, NEW c \in Clients, NEW step \in {"main", "sudo"}, NEW x \in CallStates,
         Continue(c, step, x), job[c].step \in {"id", "sudo"},
         UNCHANGED <<strays, host, crontab, others, history>>,
         x.at = "ready", Prepared(x),
         step = "main" => /\ x.program = TheStage(c).program /\ x.limit = Limit(TheStage(c))
                          /\ x.way # "none" \/ host.root
  PROVE  IInv'
<1>1. PICK j : j = [job[c] EXCEPT !.step = step]
  OBVIOUS
<1>2. step \in Steps /\ job[c].step \in Steps
  BY DEF Steps
<1>3. job[c] \in JobStates /\ Staged(job[c], call[c])
  BY InvariantOf
<1>4. j \in JobStates /\ j.step = step /\ j.plan = job[c].plan
  BY <1>1, <1>2, <1>3, StepFacts
<1>5. job[c].plan # << >> /\ Head(job[c].plan).access = "privileged"
  BY <1>2, <1>3 DEF Staged
<1>6. Staged(j, x)
  BY <1>2, <1>4, <1>5 DEF Staged, TheStage
<1>7. Editing(j, x, NoProcess, meant)
  BY <1>4 DEF Editing
<1>8. job' = [job EXCEPT ![c] = j] /\ Make(c, x) /\ cancelled' \in [Clients -> BOOLEAN]
  BY <1>1 DEF Continue, IInv, Typed
<1>9. QED
  BY <1>4, <1>6, <1>7, <1>8, NextCall

LEMMA StageOf ==
  ASSUME IInv, NEW c \in Clients, job[c].step \in {"direct", "id", "sudo", "main"}
  PROVE  /\ job[c].plan \in Rests /\ job[c].plan # << >>
         /\ TheStage(c) \in Stages /\ TheStage(c).access # "cron"
         /\ TheStage(c).program \in {"command", "reader"}
         /\ job[c].step = "direct" => TheStage(c).access = "direct"
<1>1. job[c] \in JobStates /\ Staged(job[c], call[c])
  BY InvariantOf
<1>2. job[c].plan \in Rests /\ job[c].plan # << >>
  BY <1>1 DEF Staged, Steps, JobStates
<1>3. TheStage(c) \in Stages
  BY <1>2, PlanFacts DEF TheStage
<1>4. TheStage(c).access = IF job[c].step = "direct" THEN "direct" ELSE "privileged"
  BY <1>1 DEF Staged, TheStage
<1>5. QED
  BY <1>2, <1>3, <1>4, StageFacts

\* A stage as root comes next; who the user is is asked again.
LEMMA GoesOn ==
  ASSUME IInv, NEW c \in Clients, NextStage(c), job[c].step \in {"direct", "main"},
         job[c].step = "main" => Len(job[c].plan) > 1,
         UNCHANGED <<strays, host, crontab, others, history>>
  PROVE  IInv'
<1>1. job[c] \in JobStates /\ job[c].plan \in Rests /\ job[c].plan # << >>
  BY InvariantOf, StageOf
<1>2. Head(job[c].plan).access = "direct" \/ Len(job[c].plan) > 1
  BY StageOf DEF TheStage
<1>3. PICK plan : plan = Tail(job[c].plan)
  OBVIOUS
<1>4. plan \in Rests /\ plan # << >> /\ Head(plan).access = "privileged"
  BY <1>1, <1>2, <1>3, PlanFacts
<1>5. FirstStep(Head(plan)) = "id" /\ FirstCall(Head(plan)) = Plain("id", "none")
  BY <1>4 DEF FirstStep, FirstCall
<1>6. PICK j : j = [job[c] EXCEPT !.plan = plan, !.step = "id"]
  OBVIOUS
<1>7. j \in JobStates /\ j.plan = plan /\ j.step = "id"
  BY <1>1, <1>4, <1>6 DEF JobStates, Steps
<1>8. PICK x : x = Plain("id", "none")
  OBVIOUS
<1>9. x \in CallStates /\ x.at = "ready" /\ Prepared(x)
  BY <1>8, ProbeFacts
<1>10. Staged(j, x) /\ Editing(j, x, NoProcess, meant)
  BY <1>4, <1>7, <1>9 DEF Staged, Editing, Steps
<1>11. job' = [job EXCEPT ![c] = j] /\ Make(c, x) /\ cancelled' \in [Clients -> BOOLEAN]
  BY <1>3, <1>5, <1>6, <1>8 DEF NextStage, IInv, Typed
<1>12. QED
  BY <1>7, <1>9, <1>10, <1>11, NextCall

LEMMA AfterIdKeeps ==
  ASSUME IInv, NEW c \in Clients, AfterId(c)
  PROVE  IInv'
<1>1. /\ job[c].step = "id"
      /\ UNCHANGED <<strays, host, crontab, others, history>>
  BY DEF AfterId
<1>2. CASE Succeeded(c) /\ proc[c].says = "root"
  <2>1. PICK x : x = Main(TheStage(c), "none")
    OBVIOUS
  <2>2. TheStage(c) \in Stages /\ TheStage(c).access # "cron" /\ "none" \in Ways
    BY <1>1, StageOf DEF Ways
  <2>3. /\ x \in CallStates /\ x.at = "ready" /\ x.program = TheStage(c).program
        /\ x.limit = Limit(TheStage(c)) /\ Prepared(x)
    BY <2>1, <2>2, MainFacts
  <2>4. host.root
    BY <1>2, InvariantOf DEF Honest
  <2>5. Continue(c, "main", x)
    BY <1>2, <2>1 DEF AfterId
  <2>6. QED
    BY <1>1, <2>3, <2>4, <2>5, Continues
<1>3. CASE ~(Succeeded(c) /\ proc[c].says = "root")
  <2>1. PICK x : x = Plain("sudo -n true", "none")
    OBVIOUS
  <2>2. x \in CallStates /\ x.at = "ready" /\ Prepared(x)
    BY <2>1, ProbeFacts
  <2>3. Continue(c, "sudo", x)
    BY <1>3, <2>1 DEF AfterId
  <2>4. QED
    BY <1>1, <2>2, <2>3, Continues
<1>4. QED
  BY <1>2, <1>3

LEMMA AfterSudoKeeps ==
  ASSUME IInv, NEW c \in Clients, AfterSudo(c)
  PROVE  IInv'
<1>1. /\ job[c].step = "sudo"
      /\ UNCHANGED <<strays, host, crontab, others, history>>
  BY DEF AfterSudo
<1>2. \/ End(c, "failed")
      \/ Continue(c, "main", Main(TheStage(c), "free"))
      \/ Continue(c, "main", Main(TheStage(c), PasswordWay(TheStage(c))))
  BY DEF AfterSudo
<1>3. ASSUME NEW way \in {"free", PasswordWay(TheStage(c))}, Continue(c, "main", Main(TheStage(c), way))
      PROVE  IInv'
  <2>1. PICK x : x = Main(TheStage(c), way)
    OBVIOUS
  <2>2. TheStage(c) \in Stages /\ TheStage(c).access # "cron" /\ TheStage(c).program \in {"command", "reader"}
    BY <1>1, StageOf
  <2>3. /\ way \in Ways /\ way # "none" /\ (way = "wrapper" => TheStage(c).program = "reader")
        /\ way = "asking" => TheStage(c).program = "command"
    BY <2>2 DEF PasswordWay, Ways, Readers
  <2>4. /\ x \in CallStates /\ x.at = "ready" /\ x.program = TheStage(c).program /\ x.way = way
        /\ x.limit = Limit(TheStage(c)) /\ Prepared(x)
    BY <2>1, <2>2, <2>3, MainFacts
  <2>5. QED
    BY <1>1, <1>3, <2>1, <2>3, <2>4, Continues
<1>4. QED
  BY <1>1, <1>2, <1>3, Ends

LEMMA AfterMainKeeps ==
  ASSUME IInv, NEW c \in Clients, AfterMain(c)
  PROVE  IInv'
<1>1. /\ job[c].step = "main"
      /\ UNCHANGED <<strays, host, crontab, others, history>>
  BY DEF AfterMain
<1>2. End(c, "failed") \/ (NextStage(c) /\ Len(job[c].plan) > 1) \/ Done(c)
  BY DEF AfterMain
<1>3. QED
  BY <1>1, <1>2, Ends, IsDone, GoesOn

LEMMA AfterDirectKeeps ==
  ASSUME IInv, NEW c \in Clients, AfterDirect(c)
  PROVE  IInv'
<1>1. /\ job[c].step = "direct"
      /\ UNCHANGED <<strays, host, crontab, others, history>>
  BY DEF AfterDirect
<1>2. End(c, "failed") \/ NextStage(c) \/ Done(c)
  BY DEF AfterDirect
<1>3. QED
  BY <1>1, <1>2, Ends, IsDone, GoesOn

LEMMA AfterListKeeps ==
  ASSUME IInv, NEW c \in Clients, AfterList(c)
  PROVE  IInv'
<1> DEFINE lines == proc[c].read
<1>1. /\ job[c].step = "list"
      /\ UNCHANGED <<strays, host, crontab, others, history>>
  BY DEF AfterList
<1>2. CASE End(c, "failed")
  BY <1>1, <1>2, Ends
<1>3. CASE /\ CallIs(c, "ok")
           /\ job' = [job EXCEPT ![c].step = "install", ![c].listed = lines]
           /\ Make(c, With(Plain("crontab -", "none"), Edited(c, lines)))
           /\ UNCHANGED cancelled
  <2>1. /\ job[c] \in JobStates /\ Staged(job[c], call[c]) /\ Linked(call[c], proc[c])
        /\ Editing(job[c], call[c], proc[c], meant) /\ Apart(proc[c])
    BY InvariantOf
  <2>2. proc[c].program = "crontab -l"
    BY <1>1, <1>3, <2>1 DEF Staged, Linked, Open, CallIs
  <2>3. lines \in Seq(Legal)
    BY <2>1, <2>2 DEF Apart
  <2>4. Chosen(job[c], meant) /\ job[c].plan # << >> /\ Head(job[c].plan).access = "cron"
    BY <1>1, <2>1 DEF Editing, Staged, Steps
  <2>5. PICK input : input = EditOf(job[c], lines)
    OBVIOUS
  <2>6. input = Edited(c, lines)
    BY <2>5 DEF Edited, EditOf
  <2>7. input \in Seq(Legal) /\ input \in Seq(Lines)
    BY <2>1, <2>3, <2>4, <2>5, EditFacts, LineTypes
  <2> HIDE DEF lines
  <2>8. PICK x : x = With(Plain("crontab -", "none"), input)
    OBVIOUS
  <2>9. /\ x \in CallStates /\ x.at = "ready" /\ x.program = "crontab -" /\ x.way = "none"
        /\ x.input = input /\ x.has = TRUE /\ x.kept = 0
    <3>1. PICK y : y = Plain("crontab -", "none")
      OBVIOUS
    <3>2. "crontab -" \in Programs /\ "none" \in Ways
      BY DEF Programs, Ways
    <3>3. /\ y \in CallStates /\ y.at = "ready" /\ y.program = "crontab -" /\ y.way = "none" /\ y.kept = 0
      BY <3>1, <3>2, PlainFacts
    <3>4. x = With(y, input)
      BY <2>8, <3>1
    <3>5. QED
      BY <2>7, <3>3, <3>4, WithFacts
  <2>10. Prepared(x)
    BY <2>7, <2>9 DEF Prepared, Suits, Readers
  <2>11. PICK j : j = [job[c] EXCEPT !.step = "install", !.listed = lines]
    OBVIOUS
  <2>12. /\ j \in JobStates /\ j.step = "install" /\ j.listed = lines /\ j.plan = job[c].plan
         /\ j.edit = job[c].edit /\ j.id = job[c].id /\ j.text = job[c].text /\ j.seen = job[c].seen
    BY <2>1, <2>3, <2>11 DEF JobStates, Steps
  <2>13. Staged(j, x)
    BY <2>4, <2>9, <2>12 DEF Staged, Steps
  <2>14. EditOf(j, j.listed) = input /\ Chosen(j, meant)
    BY <2>4, <2>5, <2>12 DEF EditOf, Chosen
  <2>15. Editing(j, x, NoProcess, meant)
    BY <2>9, <2>14 DEF Editing, Given, Open
  <2>16. job' = [job EXCEPT ![c] = j] /\ Make(c, x) /\ cancelled' \in [Clients -> BOOLEAN]
    BY <1>3, <2>6, <2>8, <2>11 DEF IInv, Typed, lines
  <2>17. QED
    BY <1>1, <2>9, <2>10, <2>12, <2>13, <2>15, <2>16, NextCall
<1>4. QED
  BY <1>2, <1>3 DEF AfterList

LEMMA AfterInstallKeeps ==
  ASSUME IInv, NEW c \in Clients, AfterInstall(c)
  PROVE  IInv'
<1>1. (Done(c) \/ End(c, "failed")) /\ UNCHANGED <<strays, host, crontab, others, history>>
  BY DEF AfterInstall
<1>2. QED
  BY <1>1, Ends, IsDone

LEMMA AfterKeeps ==
  ASSUME IInv, NEW c \in Clients, After(c)
  PROVE  IInv'
BY AfterIdKeeps, AfterSudoKeeps, AfterMainKeeps, AfterDirectKeeps, AfterListKeeps, AfterInstallKeeps
   DEF After
-----------------------------------------------------------------------------
(* A job begins.                                                           *)

\* What the user asks for is a job that the view shows, or a new one.
LEMMA RequestFacts ==
  ASSUME IInv, NEW c \in Clients, job[c].step = "idle", NEW j \in Requests(c)
  PROVE  /\ j \in JobStates /\ j.plan = job[c].plan
         /\ j.plan # PlanCron => j = job[c]
         /\ j.plan = PlanCron =>
              Chosen(j, meant \cup (IF j.edit \in {"none", "add"} THEN {} ELSE {j.text}))
<1>1. job[c] \in JobStates /\ Staged(job[c], call[c]) /\ crontab \in Seq(Legal)
  BY InvariantOf DEF IInv, Typed
<1>2. job[c].text = OtherText
  BY <1>1 DEF Staged
<1>3. CASE job[c].plan # PlanCron
  BY <1>1, <1>3 DEF Requests
<1>4. ASSUME job[c].plan = PlanCron,
             NEW e \in {"save", "enable", "disable", "delete"}, NEW i \in Jobs(crontab),
             j = EditShown(c, e, i)
      PROVE  /\ j \in JobStates /\ j.plan = PlanCron
             /\ Chosen(j, meant \cup (IF j.edit \in {"none", "add"} THEN {} ELSE {j.text}))
  <2>1. i \in DOMAIN crontab
    BY DEF Jobs
  <2>2. PICK id, text : id = ShownId(crontab, i) /\ text = crontab[i].text
    OBVIOUS
  <2>3. id \in Marks /\ id = At(crontab, i)
    BY <1>1, <2>1, <2>2, IdOfLine DEF ShownId
  <2>4. text \in Texts
    BY <1>1, <2>1, <2>2, IdOfLine DEF Legal, CronLines
  <2>5. j = [job[c] EXCEPT !.edit = e, !.id = id, !.seen = crontab, !.text = text]
    BY <1>4, <2>2 DEF EditShown
  <2>6. /\ j \in JobStates /\ j.plan = PlanCron /\ j.edit = e /\ j.id = id
        /\ j.seen = crontab /\ j.text = text
    BY <1>1, <1>4, <2>3, <2>4, <2>5 DEF JobStates, Edits
  <2>7. QED
    BY <2>1, <2>2, <2>3, <2>6 DEF Chosen
<1>5. ASSUME job[c].plan = PlanCron, j = AddNew(c)
      PROVE  j \in JobStates /\ j.plan = PlanCron /\ \A texts : Chosen(j, texts)
  <2>1. j \in JobStates /\ j.plan = PlanCron /\ j.edit = "add" /\ j.text = OtherText
    BY <1>1, <1>2, <1>5 DEF JobStates, Edits, AddNew
  <2>2. QED
    BY <2>1 DEF Chosen
<1>6. CASE job[c].plan = PlanCron
  <2>1. \/ \E e \in {"save", "enable", "disable", "delete"}, i \in Jobs(crontab) :
             j = EditShown(c, e, i)
        \/ j = AddNew(c)
    BY <1>6 DEF Requests
  <2>2. QED
    BY <1>4, <1>5, <1>6, <2>1
<1>7. QED
  BY <1>3, <1>6

LEMMA BeginKeeps ==
  ASSUME IInv, NEW c \in Clients, Begin(c)
  PROVE  IInv'
<1>1. PICK j \in Requests(c) :
        /\ job' = [job EXCEPT ![c] = [j EXCEPT !.step = FirstStep(Head(j.plan))]]
        /\ meant' = meant \cup (IF j.edit \in {"none", "add"} THEN {} ELSE {j.text})
        /\ entered' = entered
  BY DEF Begin
<1>2. /\ job[c].step = "idle" /\ job[c].plan # << >>
      /\ UNCHANGED <<proc, strays, cancelled, host, crontab, others, spoilt>>
      /\ call' = [call EXCEPT ![c] = FirstCall(TheStage(c))]
  BY DEF Begin
<1>3. /\ j \in JobStates /\ j.plan = job[c].plan
      /\ j.plan # PlanCron => j = job[c]
      /\ j.plan = PlanCron => Chosen(j, meant')
  BY <1>1, <1>2, RequestFacts
<1>4. PICK stage : stage = Head(job[c].plan)
  OBVIOUS
<1>5. stage \in Stages /\ (stage.access = "cron" <=> j.plan = PlanCron)
  BY <1>2, <1>3, <1>4, PlanFacts, EachStage DEF JobStates
<1>6. PICK step, x : step = FirstStep(stage) /\ x = FirstCall(stage)
  OBVIOUS
<1>7. step \in Steps
  BY <1>5, <1>6, StageFacts DEF FirstStep, Steps
<1>8. PICK k : k = [j EXCEPT !.step = step]
  OBVIOUS
<1>9. /\ k \in JobStates /\ k.step = step /\ k.plan = j.plan /\ k.edit = j.edit
      /\ k.id = j.id /\ k.text = j.text /\ k.seen = j.seen /\ k.listed = j.listed
  BY <1>3, <1>7, <1>8, StepFacts
<1>10. /\ x \in CallStates /\ x.at = "ready" /\ Prepared(x) /\ Staged(k, x)
       /\ Editing(k, x, NoProcess, meant')
  <2>1. CASE stage.access = "direct"
    <3>1. step = "direct" /\ x = Main(stage, "none")
      BY <1>6, <2>1 DEF FirstStep, FirstCall
    <3>2. /\ x \in CallStates /\ x.at = "ready" /\ x.program = stage.program
          /\ x.limit = Limit(stage) /\ Prepared(x)
      BY <1>5, <2>1, <3>1, MainFacts DEF Ways
    <3>3. QED
      BY <1>2, <1>3, <1>4, <1>9, <2>1, <3>1, <3>2 DEF Staged, Editing, Steps
  <2>2. CASE stage.access = "privileged"
    <3>1. step = "id" /\ x = Plain("id", "none")
      BY <1>6, <2>2 DEF FirstStep, FirstCall
    <3>2. x \in CallStates /\ x.at = "ready" /\ Prepared(x)
      BY <3>1, ProbeFacts
    <3>3. QED
      BY <1>2, <1>3, <1>4, <1>9, <2>2, <3>1, <3>2 DEF Staged, Editing, Steps
  <2>3. CASE stage.access = "cron"
    <3>1. step = "list" /\ x = Plain("crontab -l", "none")
      BY <1>6, <2>3 DEF FirstStep, FirstCall
    <3>2. x \in CallStates /\ x.at = "ready" /\ x.program = "crontab -l" /\ Prepared(x)
      BY <3>1, ProbeFacts
    <3>3. Chosen(k, meant')
      BY <1>3, <1>5, <1>9, <2>3 DEF Chosen
    <3>4. QED
      BY <1>2, <1>3, <1>4, <1>9, <2>3, <3>1, <3>2, <3>3 DEF Staged, Editing, Steps
  <2>4. QED
    BY <1>5, <2>1, <2>2, <2>3, StageFacts
<1>11. proc[c] = NoProcess
  <2>1. call[c] = Idle
    BY <1>2, InvariantOf DEF Staged, Steps
  <2>2. ~Open(call[c])
    BY <2>1 DEF Open, Idle
  <2>3. QED
    BY <2>2, InvariantOf DEF Linked
<1>12. /\ job' = [job EXCEPT ![c] = k] /\ call' = [call EXCEPT ![c] = x]
       /\ proc' = [proc EXCEPT ![c] = NoProcess]
  <2>1. proc \in [Clients -> Processes]
    BY DEF IInv, Typed
  <2>2. proc' = [proc EXCEPT ![c] = NoProcess]
    BY <1>2, <1>11, <2>1
  <2>3. QED
    BY <1>1, <1>2, <1>3, <1>4, <1>6, <1>8, <2>2 DEF TheStage
<1>13. Linked(x, NoProcess)
  BY <1>10 DEF Linked, Open
<1>14. Fits(k, x, NoProcess, meant')
  BY <1>10, <1>13, NothingStarted DEF Fits
<1>15. /\ strays' \subseteq Processes /\ \A q \in strays' : Apart(q) /\ Processing(q)
       /\ cancelled' \in [Clients -> BOOLEAN] /\ crontab' \in Seq(Legal)
       /\ others' \in Nat /\ spoilt' \in BOOLEAN
  BY <1>2 DEF IInv, Typed, AllApart
<1>16. meant \subseteq meant' /\ CronLinesKept'
  BY <1>1, <1>2, LinesStillKept DEF IInv
<1>17. QED
  BY <1>2, <1>9, <1>10, <1>12, <1>14, <1>15, <1>16, NothingStarted, ClientStep
-----------------------------------------------------------------------------
(* A step of a call.                                                       *)

LEMMA PartsOfConcat ==
  ASSUME NEW S, NEW T, NEW s \in Seq(S), NEW t \in Seq(S), s \o t \in Seq(T)
  PROVE  s \in Seq(T) /\ t \in Seq(T) /\ \A i \in DOMAIN s : s[i] = (s \o t)[i]
<1>1. /\ Len(s) \in Nat /\ Len(t) \in Nat /\ DOMAIN s = 1 .. Len(s)
      /\ Len(s \o t) = Len(s) + Len(t)
      /\ \A i \in 1 .. Len(s) : (s \o t)[i] = s[i]
      /\ \A i \in 1 .. Len(t) : (s \o t)[Len(s) + i] = t[i]
  OBVIOUS
<1>2. \A i \in 1 .. Len(s) + Len(t) : (s \o t)[i] \in T
  BY <1>1
<1>3. ASSUME NEW i \in 1 .. Len(s) PROVE s[i] \in T
  BY <1>1, <1>2
<1>4. ASSUME NEW i \in 1 .. Len(t) PROVE t[i] \in T
  <2>1. Len(s) + i \in 1 .. Len(s) + Len(t)
    BY <1>1
  <2>2. QED
    BY <1>1, <1>2, <2>1
<1>5. QED
  BY <1>1, <1>3, <1>4

LEMMA EmptyConcat ==
  ASSUME NEW S, NEW s \in Seq(S)
  PROVE  << >> \o s = s
OBVIOUS

LEMMA CallStep ==
  ASSUME IInv, NEW c \in Clients, NEW x \in CallStates, NEW p \in Processes,
         call' = [call EXCEPT ![c] = x], proc' = [proc EXCEPT ![c] = p],
         UNCHANGED <<cancelled, host, crontab, job, others, history>>,
         strays' \subseteq Processes, \A q \in strays' : Apart(q) /\ Processing(q),
         Linked(x, p), Honest(p), Apart(p),
         call[c].at # "idle", x.at # "idle", x.program = call[c].program,
         x.way = call[c].way, x.limit = call[c].limit,
         \A input : Given(call[c], proc[c], input) => Given(x, p, input)
  PROVE  IInv'
<1>1. job[c] \in JobStates /\ Staged(job[c], call[c]) /\ Editing(job[c], call[c], proc[c], meant)
  BY InvariantOf
<1>2. job[c].step \in Steps
  <2>1. Idle.at = "idle"
    BY DEF Idle
  <2>2. QED
    BY <1>1, <2>1 DEF Staged
<1>3. Staged(job[c], x)
  BY <1>1, <1>2 DEF Staged, Steps
<1>4. Editing(job[c], x, p, meant)
  BY <1>1 DEF Editing
<1>5. PICK j : j = job[c]
  OBVIOUS
<1>6. Fits(j, x, p, meant') /\ j \in JobStates
  BY <1>1, <1>3, <1>4, <1>5 DEF Fits, history
<1>7. job' = [job EXCEPT ![c] = j]
  BY <1>5 DEF IInv, Typed
<1>8. /\ cancelled' \in [Clients -> BOOLEAN] /\ crontab' \in Seq(Legal)
      /\ others' \in Nat /\ spoilt' \in BOOLEAN
  BY DEF IInv, Typed, history
<1>9. meant \subseteq meant' /\ CronLinesKept'
  BY LinesStillKept DEF IInv, history
<1>10. QED
  BY <1>6, <1>7, <1>8, <1>9, ClientStep

LEMMA StraysStay ==
  ASSUME IInv, UNCHANGED strays
  PROVE  strays' \subseteq Processes /\ \A q \in strays' : Apart(q) /\ Processing(q)
BY DEF IInv, Typed, AllApart

LEMMA AtFacts ==
  ASSUME NEW x \in CallStates, NEW at \in Ats, NEW y, y = [x EXCEPT !.at = at]
  PROVE  /\ y \in CallStates /\ y.at = at /\ y.program = x.program /\ y.way = x.way
         /\ y.input = x.input /\ y.has = x.has /\ y.limit = x.limit /\ y.kept = x.kept
BY DEF CallStates

LEMMA LaunchedFacts ==
  ASSUME NEW program \in Programs, NEW way \in Ways, NEW input \in Seq(Lines)
  PROVE  \A p : p = Launched(program, way, input) =>
             /\ p \in Processes /\ p.program = program /\ p.way = way /\ p.whole = input
             /\ p.stdin = << >> /\ ~p.eof /\ p.offered = {} /\ p.read = << >>
             /\ p.out = 0 /\ ~p.fresh /\ p.says = "nothing" /\ ~p.ok
             /\ way = "wrapper" => p.phase = "password"
             /\ way = "asking" => p.phase = "asking"
             /\ way \notin {"wrapper", "asking"} => p.phase = "running"
<1> SUFFICES ASSUME NEW p, p = Launched(program, way, input)
             PROVE  /\ p \in Processes /\ p.program = program /\ p.way = way /\ p.whole = input
                    /\ p.stdin = << >> /\ ~p.eof /\ p.offered = {} /\ p.read = << >>
                    /\ p.out = 0 /\ ~p.fresh /\ p.says = "nothing" /\ ~p.ok
                    /\ way = "wrapper" => p.phase = "password"
                    /\ way = "asking" => p.phase = "asking"
                    /\ way \notin {"wrapper", "asking"} => p.phase = "running"
  OBVIOUS
<1>1. PICK phase : phase = IF way = "wrapper" THEN "password" ELSE IF way = "asking" THEN "asking" ELSE "running"
  OBVIOUS
<1>2. p = [NoProcess EXCEPT !.phase = phase, !.program = program, !.way = way, !.whole = input]
  BY <1>1 DEF Launched
<1>3. phase \in {"password", "asking", "running"} /\ NoProcess \in Processes
  BY <1>1, NothingStarted
<1>4. p \in Processes
  BY <1>2, <1>3 DEF Processes
<1>5. QED
  BY <1>1, <1>2, <1>4 DEF NoProcess

LEMMA OpensKeeps ==
  ASSUME IInv, NEW c \in Clients, Opens(c), UNCHANGED <<job, others, history>>
  PROVE  IInv'
<1>1. /\ call[c].at = "ready" /\ UNCHANGED <<strays, cancelled, host, crontab>>
  BY DEF Opens, CallIs
<1>2. call[c] \in CallStates /\ Linked(call[c], proc[c])
  BY InvariantOf
<1>3. Suits(call[c].program, call[c].way, call[c].input) /\ call[c].kept = 0
      /\ (~call[c].has => call[c].input = << >>)
  BY <1>1, <1>2 DEF Linked, Open, Prepared
<1>4. PICK at : at = IF call[c].has THEN "input" ELSE "read"
  OBVIOUS
<1>5. PICK x : x = [call[c] EXCEPT !.at = at]
  OBVIOUS
<1>6. /\ x \in CallStates /\ x.at = at /\ x.program = call[c].program /\ x.way = call[c].way
      /\ x.input = call[c].input /\ x.limit = call[c].limit /\ x.kept = 0
  BY <1>2, <1>3, <1>4, <1>5, AtFacts DEF Ats
<1>7. PICK p : p = Launched(call[c].program, call[c].way, call[c].input)
  OBVIOUS
<1>8. call[c].program \in Programs /\ call[c].way \in Ways /\ call[c].input \in Seq(Lines)
      /\ call[c].limit \in Nat
  BY <1>2 DEF CallStates
<1>9. /\ p \in Processes /\ p.program = x.program /\ p.way = x.way /\ p.whole = x.input
      /\ p.stdin = << >> /\ ~p.eof /\ p.offered = {} /\ p.read = << >>
      /\ p.out = 0 /\ ~p.fresh /\ p.says = "nothing" /\ ~p.ok
      /\ p.way = "wrapper" => p.phase = "password"
      /\ p.way = "asking" => p.phase = "asking"
      /\ p.way \notin {"wrapper", "asking"} => p.phase = "running"
  <2>1. /\ p \in Processes /\ p.program = call[c].program /\ p.way = call[c].way
        /\ p.whole = call[c].input
        /\ p.stdin = << >> /\ ~p.eof /\ p.offered = {} /\ p.read = << >>
        /\ p.out = 0 /\ ~p.fresh /\ p.says = "nothing" /\ ~p.ok
        /\ call[c].way = "wrapper" => p.phase = "password"
        /\ call[c].way = "asking" => p.phase = "asking"
        /\ call[c].way \notin {"wrapper", "asking"} => p.phase = "running"
    <3>1. PICK program, way, input :
            program = call[c].program /\ way = call[c].way /\ input = call[c].input
      OBVIOUS
    <3>2. p = Launched(program, way, input)
      BY <1>7, <3>1
    <3>3. program \in Programs /\ way \in Ways /\ input \in Seq(Lines)
      BY <1>8, <3>1
    <3>4. /\ p \in Processes /\ p.program = program /\ p.way = way /\ p.whole = input
          /\ p.stdin = << >> /\ ~p.eof /\ p.offered = {} /\ p.read = << >>
          /\ p.out = 0 /\ ~p.fresh /\ p.says = "nothing" /\ ~p.ok
          /\ way = "wrapper" => p.phase = "password"
          /\ way = "asking" => p.phase = "asking"
          /\ way \notin {"wrapper", "asking"} => p.phase = "running"
      BY <3>2, <3>3, LaunchedFacts
    <3>5. QED
      BY <3>1, <3>4
  <2>2. QED
    BY <1>6, <2>1
<1>10. /\ Suits(p.program, p.way, p.whole)
       /\ p.way = "wrapper" => p.program = "reader"
       /\ p.way = "asking" => p.program \notin Readers /\ p.whole = <<Password>>
  BY <1>3, <1>6, <1>9 DEF Suits, Readers
<1>11. Linked(x, p)
  <2>1. Open(x) /\ x.at \notin {"ok", "ready"}
    BY <1>4, <1>6 DEF Open
  <2>2. x.kept = Kept(x.limit, p.out)
    BY <1>6, <1>8, <1>9 DEF Kept
  <2>3. Conserved(p, x.input)
    <3>1. p.stdin \o x.input = p.whole /\ p.read \o (p.stdin \o x.input) = p.whole
      BY <1>6, <1>8, <1>9, EmptyConcat
    <3>2. QED
      BY <1>9, <3>1 DEF Conserved, Body
  <2>4. x.at = "read" => x.input = << >>
    BY <1>3, <1>4, <1>6
  <2>5. p.way = "asking" => x.input \in Seq({Password})
    <3>1. <<Password>> \in Seq({Password})
      OBVIOUS
    <3>2. QED
      BY <1>9, <1>10, <3>1
  <2>6. QED
    BY <1>9, <1>10, <2>1, <2>2, <2>3, <2>4, <2>5 DEF Linked
<1>12. Apart(p)
  <2>1. << >> \in Seq(Harmless) /\ << >> \in Seq(Legal) /\ DOMAIN << >> = {}
    OBVIOUS
  <2>2. QED
    BY <1>9, <1>10, <2>1 DEF Apart
<1>13. Honest(p)
  BY <1>9 DEF Honest
<1>14. call' = [call EXCEPT ![c] = x] /\ proc' = [proc EXCEPT ![c] = p]
  BY <1>4, <1>5, <1>7 DEF Opens, SetCall
<1>15. \A input : Given(call[c], proc[c], input) => Given(x, p, input)
  BY <1>1, <1>4, <1>6, <1>9 DEF Given
<1>16. x.at # "idle"
  BY <1>4, <1>6
<1>17. QED
  BY <1>1, <1>6, <1>9, <1>11, <1>12, <1>13, <1>14, <1>15, <1>16, StraysStay, CallStep

LEMMA StartsInputKeeps ==
  ASSUME IInv, NEW c \in Clients, StartsInput(c), UNCHANGED <<job, others, history>>
  PROVE  IInv'
<1>1. /\ call[c].at = "input" /\ UNCHANGED <<proc, strays, cancelled, host, crontab>>
  BY DEF StartsInput, CallIs
<1>2. /\ call[c] \in CallStates /\ proc[c] \in Processes /\ Linked(call[c], proc[c])
      /\ Honest(proc[c]) /\ Apart(proc[c])
  BY InvariantOf
<1>3. PICK x : x = [call[c] EXCEPT !.at = "write"]
  OBVIOUS
<1>4. /\ x \in CallStates /\ x.at = "write" /\ x.program = call[c].program /\ x.way = call[c].way
      /\ x.input = call[c].input /\ x.limit = call[c].limit /\ x.kept = call[c].kept
  BY <1>2, <1>3, AtFacts DEF Ats
<1>5. Linked(x, proc[c])
  BY <1>1, <1>2, <1>4 DEF Linked, Open
<1>6. call' = [call EXCEPT ![c] = x] /\ proc' = [proc EXCEPT ![c] = proc[c]]
  BY <1>1, <1>3 DEF StartsInput, SetCall, IInv, Typed
<1>7. \A input : Given(call[c], proc[c], input) => Given(x, proc[c], input)
  BY <1>1, <1>4 DEF Given, Open
<1>8. PICK p : p = proc[c]
  OBVIOUS
<1>9. QED
  BY <1>1, <1>2, <1>4, <1>5, <1>6, <1>7, <1>8, StraysStay, CallStep
\* What a change of one field of a process leaves as it is.
Alike(p, q) ==
  /\ q.phase = p.phase /\ q.program = p.program /\ q.way = p.way /\ q.offered = p.offered
  /\ q.read = p.read /\ q.whole = p.whole /\ q.out = p.out /\ q.says = p.says
  /\ (q.ok <=> p.ok) /\ (q.root <=> p.root)

LEMMA StdinFacts ==
  ASSUME NEW p \in Processes, NEW s \in Seq(Lines), NEW q, q = [p EXCEPT !.stdin = s]
  PROVE  q \in Processes /\ Alike(p, q) /\ q.stdin = s /\ (q.eof <=> p.eof) /\ (q.fresh <=> p.fresh)
BY DEF Processes, Alike

LEMMA EofFacts ==
  ASSUME NEW p \in Processes, NEW q, q = [p EXCEPT !.eof = TRUE]
  PROVE  q \in Processes /\ Alike(p, q) /\ q.stdin = p.stdin /\ q.eof /\ (q.fresh <=> p.fresh)
BY DEF Processes, Alike

LEMMA FreshFacts ==
  ASSUME NEW p \in Processes, NEW q, q = [p EXCEPT !.fresh = FALSE]
  PROVE  q \in Processes /\ Alike(p, q) /\ q.stdin = p.stdin /\ (q.eof <=> p.eof) /\ ~q.fresh
BY DEF Processes, Alike

LEMMA AlikeIsHonest ==
  ASSUME NEW p, NEW q, Alike(p, q), Honest(p)
  PROVE  Honest(q)
BY DEF Alike, Honest, Rooted

LEMMA AlikeIsApart ==
  ASSUME NEW p, NEW q, Alike(p, q), q.stdin = p.stdin, Apart(p)
  PROVE  Apart(q)
BY DEF Alike, Apart

\* The input, as what the process was given in full is.
LEMMA WholeFacts ==
  ASSUME NEW p \in Processes, Suits(p.program, p.way, p.whole)
  PROVE  /\ p.program \in Readers => Body(p) \in Seq(Harmless)
         /\ p.program = "crontab -" => Body(p) \in Seq(Legal)
         /\ p.way = "wrapper" =>
              /\ p.program = "reader"
              /\ \A i \in DOMAIN p.whole : IF i = 1 THEN p.whole[i] = Password ELSE p.whole[i] \in Harmless
<1>1. /\ Payload \in Seq(Harmless) /\ Seq(Legal) \subseteq Seq(Harmless)
      /\ << >> \o Payload = Payload
  <2>1. << >> \o Payload = Payload
    BY LineTypes, EmptyConcat
  <2>2. QED
    BY <2>1, LineTypes
<1>2. CASE p.program = "reader" /\ p.way = "wrapper"
  <2>1. p.whole = <<Password>> \o Payload
    BY <1>2 DEF Suits
  <2>2. PICK s : s = p.whole
    OBVIOUS
  <2>3. Tail(s) = Payload /\ \A i \in DOMAIN s : IF i = 1 THEN s[i] = Password ELSE s[i] \in Harmless
    <3>1. Len(Payload) \in Nat /\ \A i \in 1 .. Len(Payload) : Payload[i] \in Harmless
      BY <1>1
    <3>2. s = <<Password>> \o Payload
      BY <2>1, <2>2
    <3>3. Tail(s) = Payload
      BY <1>1, <3>2
    <3>4. /\ DOMAIN s = 1 .. 1 + Len(Payload) /\ s[1] = Password
          /\ \A i \in 1 .. Len(Payload) : s[1 + i] = Payload[i]
      BY <1>1, <3>2
    <3>5. ASSUME NEW i \in DOMAIN s, i # 1 PROVE s[i] \in Harmless
      <4>1. i - 1 \in 1 .. Len(Payload) /\ i = 1 + (i - 1)
        BY <3>1, <3>4, <3>5
      <4>2. QED
        BY <3>1, <3>4, <4>1
    <3>6. QED
      BY <3>3, <3>4, <3>5
  <2>4. QED
    BY <1>1, <1>2, <2>2, <2>3 DEF Body, Readers
<1>3. CASE p.program = "reader" /\ p.way # "wrapper"
  BY <1>1, <1>3 DEF Suits, Body, Readers
<1>4. CASE p.program = "crontab -"
  BY <1>1, <1>4 DEF Suits, Body
<1>5. CASE p.program \notin Readers
  BY <1>5 DEF Suits, Readers
<1>6. QED
  BY <1>2, <1>3, <1>4, <1>5 DEF Readers

LEMMA WritesKeeps ==
  ASSUME IInv, NEW c \in Clients, Writes(c), UNCHANGED <<job, others, history>>
  PROVE  IInv'
<1>1. /\ call[c].at = "write" /\ call[c].input # << >> /\ UNCHANGED <<strays, cancelled, host, crontab>>
  BY DEF Writes, CallIs
<1>2. /\ call[c] \in CallStates /\ proc[c] \in Processes /\ Linked(call[c], proc[c])
      /\ Honest(proc[c]) /\ Apart(proc[c])
  BY InvariantOf
<1>3. PICK p, input, stdin : p = proc[c] /\ input = call[c].input /\ stdin = p.stdin
  OBVIOUS
<1>4. input \in Seq(Lines) /\ input # << >> /\ stdin \in Seq(Lines)
  BY <1>1, <1>2, <1>3 DEF CallStates, Processes
<1>5. PICK rest, first, fed : rest = Tail(input) /\ first = Head(input) /\ fed = Append(stdin, first)
  OBVIOUS
<1>6. /\ rest \in Seq(Lines) /\ first \in Lines /\ fed \in Seq(Lines)
      /\ fed \o rest = stdin \o input
      /\ DOMAIN fed = 1 .. Len(stdin) + 1 /\ DOMAIN stdin = 1 .. Len(stdin) /\ Len(stdin) \in Nat
      /\ \A i \in 1 .. Len(stdin) : fed[i] = stdin[i]
      /\ fed[Len(stdin) + 1] = first
  <2>1. rest \in Seq(Lines) /\ first \in Lines
    BY <1>4, <1>5
  <2>2. fed \o rest = stdin \o input
    BY <1>4, <1>5, Handover
  <2>3. QED
    BY <1>4, <1>5, <2>1, <2>2
<1>7. PICK x, q : x = [call[c] EXCEPT !.input = rest] /\ q = [p EXCEPT !.stdin = fed]
  OBVIOUS
<1>8. /\ x \in CallStates /\ x.at = "write" /\ x.program = call[c].program /\ x.way = call[c].way
      /\ x.input = rest /\ x.limit = call[c].limit /\ x.kept = call[c].kept
  BY <1>1, <1>2, <1>6, <1>7 DEF CallStates
<1>9. q \in Processes /\ Alike(p, q) /\ q.stdin = fed /\ (q.eof <=> p.eof) /\ (q.fresh <=> p.fresh)
  BY <1>2, <1>3, <1>6, <1>7, StdinFacts
<1>10. /\ p.phase # "none" /\ p.program = x.program /\ p.way = x.way
       /\ p.phase = "password" => p.way = "wrapper"
       /\ p.phase = "asking" => p.way = "asking"
       /\ Suits(p.program, p.way, p.whole)
       /\ p.way = "asking" => input \in Seq({Password})
       /\ ~p.eof
       /\ ~p.fresh => x.kept = Kept(x.limit, p.out)
       /\ Conserved(p, input)
  BY <1>1, <1>2, <1>3, <1>8 DEF Linked, Open
<1>11. Conserved(q, rest) /\ Body(q) = Body(p)
  BY <1>3, <1>6, <1>9, <1>10 DEF Conserved, Body, Alike
<1>12. p.way = "asking" => rest \in Seq({Password}) /\ first = Password
  BY <1>4, <1>5, <1>10
<1>13. Linked(x, q)
  BY <1>8, <1>9, <1>10, <1>11, <1>12 DEF Linked, Open, Alike
<1>14. PICK read : read = p.read
  OBVIOUS
<1>15. Apart(q)
  <2>1. Apart(p) /\ read \in Seq(Lines)
    BY <1>2, <1>3, <1>14, LineTypes DEF Apart
  <2>2. q.phase = "password" =>
          /\ q.program = "reader" /\ q.way = "wrapper"
          /\ \A i \in DOMAIN fed : IF i = 1 THEN fed[i] = Password ELSE fed[i] \in Harmless
    <3>1. SUFFICES ASSUME q.phase = "password"
                   PROVE  /\ q.program = "reader" /\ q.way = "wrapper"
                          /\ \A i \in DOMAIN fed : IF i = 1 THEN fed[i] = Password ELSE fed[i] \in Harmless
      OBVIOUS
    <3>2. p.phase = "password" /\ p.way = "wrapper"
      BY <1>9, <1>10, <3>1 DEF Alike
    <3>3. p.program = "reader" /\ p \in Processes
      BY <1>2, <1>3, <1>10, <3>2, WholeFacts
    <3>4. \A i \in DOMAIN p.whole : IF i = 1 THEN p.whole[i] = Password ELSE p.whole[i] \in Harmless
      BY <1>10, <3>2, <3>3, WholeFacts
    <3>5. fed \o rest = p.whole
      BY <1>3, <1>6, <1>10, <3>2, <3>3 DEF Conserved, Readers
    <3>6. /\ DOMAIN fed \subseteq DOMAIN p.whole
          /\ \A i \in DOMAIN fed : fed[i] = p.whole[i]
      <4>1. DOMAIN fed \subseteq DOMAIN (fed \o rest)
        BY <1>6
      <4>2. \A i \in DOMAIN fed : fed[i] = (fed \o rest)[i]
        BY <1>6, ConcatProperties
      <4>3. QED
        BY <3>5, <4>1, <4>2
    <3>7. QED
      BY <1>9, <3>2, <3>3, <3>4, <3>6 DEF Alike
  <2>3. q.phase = "asking" => q.program \notin Readers /\ \A i \in DOMAIN fed : fed[i] = Password
    <3>1. SUFFICES ASSUME q.phase = "asking"
                   PROVE  q.program \notin Readers /\ \A i \in DOMAIN fed : fed[i] = Password
      OBVIOUS
    <3>2. p.phase = "asking" /\ p.way = "asking" /\ first = Password
      BY <1>9, <1>10, <1>12, <3>1 DEF Alike
    <3>3. q.program \notin Readers /\ \A i \in DOMAIN stdin : stdin[i] = Password
      BY <1>3, <1>9, <2>1, <3>2 DEF Apart, Alike
    <3>4. \A i \in DOMAIN fed : i \in DOMAIN stdin \/ i = Len(stdin) + 1
      BY <1>6
    <3>5. QED
      BY <1>6, <3>2, <3>3, <3>4
  <2>4. q.phase = "running" /\ q.program \in Readers => fed \in Seq(Harmless)
    <3>1. SUFFICES ASSUME q.phase = "running", q.program \in Readers PROVE fed \in Seq(Harmless)
      OBVIOUS
    <3>2. read \o (fed \o rest) = Body(p) /\ Body(p) \in Seq(Harmless)
      BY <1>2, <1>3, <1>6, <1>9, <1>10, <1>14, <3>1, WholeFacts DEF Alike, Conserved
    <3>3. fed \o rest \in Seq(Lines)
      BY <1>6, ConcatProperties
    <3>4. fed \o rest \in Seq(Harmless)
      BY <2>1, <3>2, <3>3, PartsOfConcat
    <3>5. QED
      BY <1>6, <3>4, PartsOfConcat
  <2>5. q.phase = "running" /\ q.program = "crontab -" => fed \in Seq(Legal)
    <3>1. SUFFICES ASSUME q.phase = "running", q.program = "crontab -" PROVE fed \in Seq(Legal)
      OBVIOUS
    <3>2. read \o (fed \o rest) = Body(p) /\ Body(p) \in Seq(Legal)
      BY <1>2, <1>3, <1>6, <1>9, <1>10, <1>14, <3>1, WholeFacts DEF Alike, Conserved, Readers
    <3>3. fed \o rest \in Seq(Lines)
      BY <1>6, ConcatProperties
    <3>4. fed \o rest \in Seq(Legal)
      BY <2>1, <3>2, <3>3, PartsOfConcat
    <3>5. QED
      BY <1>6, <3>4, PartsOfConcat
  <2>6. QED
    BY <1>9, <2>1, <2>2, <2>3, <2>4, <2>5 DEF Apart, Alike
<1>16. Honest(q)
  BY <1>2, <1>3, <1>9, AlikeIsHonest
<1>17. call' = [call EXCEPT ![c] = x] /\ proc' = [proc EXCEPT ![c] = q]
  BY <1>3, <1>5, <1>7 DEF Writes
<1>18. \A whole : Given(call[c], proc[c], whole) => Given(x, q, whole)
  BY <1>1, <1>3, <1>8, <1>9 DEF Given, Open, Alike
<1>19. QED
  BY <1>1, <1>8, <1>9, <1>13, <1>15, <1>16, <1>17, <1>18, StraysStay, CallStep
LEMMA SendsEofKeeps ==
  ASSUME IInv, NEW c \in Clients, SendsEof(c), UNCHANGED <<job, others, history>>
  PROVE  IInv'
<1>1. /\ call[c].at = "write" /\ call[c].input = << >> /\ UNCHANGED <<strays, cancelled, host, crontab>>
  BY DEF SendsEof, CallIs
<1>2. /\ call[c] \in CallStates /\ proc[c] \in Processes /\ Linked(call[c], proc[c])
      /\ Honest(proc[c]) /\ Apart(proc[c])
  BY InvariantOf
<1>3. PICK p : p = proc[c]
  OBVIOUS
<1>4. PICK x, q : x = [call[c] EXCEPT !.at = "read"] /\ q = [p EXCEPT !.eof = TRUE]
  OBVIOUS
<1>5. /\ x \in CallStates /\ x.at = "read" /\ x.program = call[c].program /\ x.way = call[c].way
      /\ x.input = << >> /\ x.limit = call[c].limit /\ x.kept = call[c].kept
  BY <1>1, <1>2, <1>4, AtFacts DEF Ats
<1>6. q \in Processes /\ Alike(p, q) /\ q.stdin = p.stdin /\ q.eof /\ (q.fresh <=> p.fresh)
  BY <1>2, <1>3, <1>4, EofFacts
<1>7. /\ p.phase # "none" /\ p.program = x.program /\ p.way = x.way
      /\ p.phase = "password" => p.way = "wrapper"
      /\ p.phase = "asking" => p.way = "asking"
      /\ Suits(p.program, p.way, p.whole)
      /\ p.way = "asking" => << >> \in Seq({Password})
      /\ ~p.fresh => x.kept = Kept(x.limit, p.out)
      /\ Conserved(p, << >>)
  BY <1>1, <1>2, <1>3, <1>5 DEF Linked, Open
<1>8. Conserved(q, << >>)
  BY <1>6, <1>7 DEF Conserved, Body, Alike
<1>9. Linked(x, q)
  BY <1>5, <1>6, <1>7, <1>8 DEF Linked, Open, Alike
<1>10. Apart(q) /\ Honest(q)
  BY <1>2, <1>3, <1>6, AlikeIsApart, AlikeIsHonest
<1>11. call' = [call EXCEPT ![c] = x] /\ proc' = [proc EXCEPT ![c] = q]
  BY <1>3, <1>4 DEF SendsEof, SetCall
<1>12. \A whole : Given(call[c], proc[c], whole) => Given(x, q, whole)
  BY <1>1, <1>3, <1>5, <1>6 DEF Given, Open, Alike
<1>13. QED
  BY <1>1, <1>5, <1>6, <1>9, <1>10, <1>11, <1>12, StraysStay, CallStep

LEMMA ReadsKeeps ==
  ASSUME IInv, NEW c \in Clients, Reads(c), UNCHANGED <<job, others, history>>
  PROVE  IInv'
<1>1. /\ call[c].at = "read" /\ UNCHANGED <<strays, cancelled, host, crontab>>
  BY DEF Reads, CallIs
<1>2. /\ call[c] \in CallStates /\ proc[c] \in Processes /\ Linked(call[c], proc[c])
      /\ Honest(proc[c]) /\ Apart(proc[c])
  BY InvariantOf
<1>3. PICK p : p = proc[c]
  OBVIOUS
<1>4. PICK kept : kept = Kept(call[c].limit, p.out)
  OBVIOUS
<1>5. kept \in Nat
  <2>1. call[c].limit \in Nat /\ p.out \in Nat
    BY <1>2, <1>3 DEF CallStates, Processes
  <2>2. QED
    BY <1>4, <2>1 DEF Kept
<1>6. PICK x, q : x = [call[c] EXCEPT !.kept = kept] /\ q = [p EXCEPT !.fresh = FALSE]
  OBVIOUS
<1>7. /\ x \in CallStates /\ x.at = "read" /\ x.program = call[c].program /\ x.way = call[c].way
      /\ x.input = call[c].input /\ x.limit = call[c].limit /\ x.kept = kept
  BY <1>1, <1>2, <1>5, <1>6 DEF CallStates
<1>8. q \in Processes /\ Alike(p, q) /\ q.stdin = p.stdin /\ (q.eof <=> p.eof) /\ ~q.fresh
  BY <1>2, <1>3, <1>6, FreshFacts
<1>9. /\ p.phase # "none" /\ p.program = x.program /\ p.way = x.way
      /\ p.phase = "password" => p.way = "wrapper"
      /\ p.phase = "asking" => p.way = "asking"
      /\ Suits(p.program, p.way, p.whole)
      /\ p.way = "asking" => x.input \in Seq({Password})
      /\ x.input = << >>
      /\ Conserved(p, x.input)
  BY <1>1, <1>2, <1>3, <1>7 DEF Linked, Open
<1>10. Conserved(q, x.input)
  BY <1>8, <1>9 DEF Conserved, Body, Alike
<1>11. x.kept = Kept(x.limit, q.out)
  BY <1>4, <1>7, <1>8 DEF Alike
<1>12. Linked(x, q)
  BY <1>7, <1>8, <1>9, <1>10, <1>11 DEF Linked, Open, Alike
<1>13. Apart(q) /\ Honest(q)
  BY <1>2, <1>3, <1>8, AlikeIsApart, AlikeIsHonest
<1>14. call' = [call EXCEPT ![c] = x] /\ proc' = [proc EXCEPT ![c] = q]
  BY <1>3, <1>4, <1>6 DEF Reads
<1>15. \A whole : Given(call[c], proc[c], whole) => Given(x, q, whole)
  BY <1>1, <1>3, <1>7, <1>8 DEF Given, Open, Alike
<1>16. QED
  BY <1>1, <1>7, <1>8, <1>12, <1>13, <1>14, <1>15, StraysStay, CallStep

LEMMA ClosesKeeps ==
  ASSUME IInv, NEW c \in Clients, Closes(c), UNCHANGED <<job, others, history>>
  PROVE  IInv'
<1>1. /\ call[c].at = "read" /\ proc[c].phase = "exited" /\ ~proc[c].fresh
      /\ UNCHANGED <<proc, strays, cancelled, host, crontab>>
  BY DEF Closes, CallIs
<1>2. /\ call[c] \in CallStates /\ proc[c] \in Processes /\ Linked(call[c], proc[c])
      /\ Honest(proc[c]) /\ Apart(proc[c])
  BY InvariantOf
<1>3. PICK x : x = [call[c] EXCEPT !.at = "ok"]
  OBVIOUS
<1>4. /\ x \in CallStates /\ x.at = "ok" /\ x.program = call[c].program /\ x.way = call[c].way
      /\ x.input = call[c].input /\ x.limit = call[c].limit /\ x.kept = call[c].kept
  BY <1>2, <1>3, AtFacts DEF Ats
<1>5. Linked(x, proc[c])
  BY <1>1, <1>2, <1>4 DEF Linked, Open
<1>6. call' = [call EXCEPT ![c] = x] /\ proc' = [proc EXCEPT ![c] = proc[c]]
  BY <1>1, <1>3 DEF Closes, SetCall, IInv, Typed
<1>7. \A input : Given(call[c], proc[c], input) => Given(x, proc[c], input)
  BY <1>1, <1>4 DEF Given, Open
<1>8. QED
  BY <1>1, <1>2, <1>4, <1>5, <1>6, <1>7, StraysStay, CallStep

LEMMA ErrsKeeps ==
  ASSUME IInv, NEW c \in Clients, Errs(c), UNCHANGED <<job, others, history>>
  PROVE  IInv'
<1>1. /\ call[c].at \in {"ready", "input", "write", "read"} /\ UNCHANGED <<cancelled, host, crontab>>
      /\ strays' = strays \cup (IF Processing(proc[c]) THEN {Orphan(proc[c])} ELSE {})
  BY DEF Errs
<1>2. /\ call[c] \in CallStates /\ proc[c] \in Processes /\ Apart(proc[c])
  BY InvariantOf
<1>3. PICK x : x = [call[c] EXCEPT !.at = "error"]
  OBVIOUS
<1>4. /\ x \in CallStates /\ x.at = "error" /\ x.program = call[c].program /\ x.way = call[c].way
      /\ x.limit = call[c].limit
  BY <1>2, <1>3, AtFacts DEF Ats
<1>5. Linked(x, NoProcess)
  BY <1>4 DEF Linked, Open
<1>6. call' = [call EXCEPT ![c] = x] /\ proc' = [proc EXCEPT ![c] = NoProcess]
  BY <1>3 DEF Errs, SetCall
<1>7. PICK p, q : p = proc[c] /\ q = Orphan(p)
  OBVIOUS
<1>8. q \in Processes /\ Apart(q)
  <2>1. p \in Processes /\ Apart(p)
    BY <1>2, <1>7
  <2>2. q = [p EXCEPT !.eof = TRUE]
    BY <1>7 DEF Orphan
  <2>3. QED
    BY <2>1, <2>2, EofFacts, AlikeIsApart
<1>9. \A r \in strays' : r \in strays \/ (r = q /\ Processing(q))
  <2>1. Processing(p) => Processing(q)
    BY <1>7, <1>2, EofFacts DEF Orphan, Alike, Processing
  <2>2. QED
    BY <1>1, <1>7, <2>1
<1>10. strays' \subseteq Processes /\ \A r \in strays' : Apart(r) /\ Processing(r)
  BY <1>8, <1>9 DEF IInv, Typed, AllApart
<1>11. \A input : Given(x, NoProcess, input)
  BY <1>4 DEF Given, Open
<1>12. QED
  BY <1>1, <1>4, <1>5, <1>6, <1>10, <1>11, NothingStarted, CallStep

LEMMA CallsKeeps ==
  ASSUME IInv, NEW c \in Clients, Calls(c), UNCHANGED <<job, others, history>>
  PROVE  IInv'
BY OpensKeeps, StartsInputKeeps, WritesKeeps, SendsEofKeeps, ReadsKeeps, ClosesKeeps, ErrsKeeps
   DEF Calls

LEMMA CancelsKeeps ==
  ASSUME IInv, NEW c \in Clients, Cancels(c), UNCHANGED <<job, others, history>>
  PROVE  IInv'
<1>1. /\ UNCHANGED <<job, call, proc, strays, host, crontab, others, entered, meant, spoilt>>
      /\ cancelled' \in [Clients -> BOOLEAN]
  BY DEF Cancels, history, IInv, Typed
<1>2. PICK j, x, p : j = job[c] /\ x = call[c] /\ p = proc[c]
  OBVIOUS
<1>3. /\ j \in JobStates /\ x \in CallStates /\ p \in Processes /\ Apart(p)
      /\ Fits(j, x, p, meant')
  BY <1>1, <1>2 DEF IInv, Typed, AllApart
<1>4. /\ job' = [job EXCEPT ![c] = j] /\ call' = [call EXCEPT ![c] = x]
      /\ proc' = [proc EXCEPT ![c] = p]
  BY <1>1, <1>2 DEF IInv, Typed
<1>5. /\ strays' \subseteq Processes /\ \A q \in strays' : Apart(q) /\ Processing(q)
      /\ crontab' \in Seq(Legal) /\ others' \in Nat /\ spoilt' \in BOOLEAN
      /\ meant \subseteq meant' /\ CronLinesKept'
  BY <1>1, StraysStay, LinesStillKept DEF IInv, Typed
<1>6. QED
  BY <1>1, <1>3, <1>4, <1>5, ClientStep
-----------------------------------------------------------------------------
(* A step of a process.                                                    *)

Same(p, q) ==
  q.program = p.program /\ q.way = p.way /\ q.whole = p.whole /\ (q.eof <=> p.eof)

\* It ends.
Leaves(p, q) ==
  /\ q.phase = "exited" /\ q.fresh
  /\ \/ q.offered = p.offered
     \/ /\ p.phase \in {"password", "asking"} /\ p.stdin # << >>
        /\ q.offered = p.offered \cup {Head(p.stdin)}
  /\ q.read = p.read \/ (p.program = "crontab -l" /\ q.read \in Seq(Legal))
  /\ q.ok /\ p.program \in Readers =>
       p.phase = "running" /\ p.stdin = << >> /\ p.eof /\ q.read = p.read
  /\ q.ok /\ p.program \in {"command", "reader"} =>
       (Rooted(p) => q.root) /\ (p.way = "free" => q.root)
  /\ q.says = "root" => host.root

\* It, or the shell in front of it, takes a line for a password.
Offers(p, q) ==
  /\ p.phase \in {"password", "asking"} /\ p.stdin # << >>
  /\ q.offered = p.offered \cup {Head(p.stdin)} /\ q.stdin = Tail(p.stdin)
  /\ q.read = p.read /\ q.out = p.out /\ (q.fresh <=> p.fresh) /\ q.says = p.says
  /\ (q.ok <=> p.ok) /\ (q.root <=> p.root)
  /\ \/ q.phase = "running"
     \/ p.phase = "asking" /\ q.phase = "asking"

\* It says something.
Talks(p, q) ==
  /\ p.phase = "running" /\ q.phase = "running" /\ q.fresh
  /\ q.offered = p.offered /\ q.stdin = p.stdin /\ q.read = p.read /\ q.says = p.says
  /\ (q.ok <=> p.ok) /\ (q.root <=> p.root)

\* It reads a line.
Eats(p, q) ==
  /\ p.phase = "running" /\ q.phase = "running" /\ p.program \in Readers /\ p.stdin # << >>
  /\ q.stdin = Tail(p.stdin) /\ q.read = Append(p.read, Head(p.stdin))
  /\ q.offered = p.offered /\ q.out = p.out /\ (q.fresh <=> p.fresh) /\ q.says = p.says
  /\ (q.ok <=> p.ok) /\ (q.root <=> p.root)

LEMMA RootedIsBoolean == \A p : Rooted(p) \in BOOLEAN
BY DEF Rooted

\* What a process may say at its end.
Words == {"nothing", "root", "permission", "rejected"}

LEMMA WordsFacts ==
  /\ \A s \in AnyWords : s \in Words /\ s # "root"
  /\ "root" \in Words /\ "nothing" \in Words /\ "rejected" \in Words
BY DEF Words, AnyWords

LEMMA FailsFacts ==
  ASSUME NEW p \in Processes, NEW says \in Words, NEW q, q = Fails(p, says)
  PROVE  /\ q \in Processes /\ Same(p, q) /\ q.phase = "exited" /\ q.fresh /\ ~q.ok
         /\ q.says = says /\ q.offered = p.offered /\ q.read = p.read /\ (q.root <=> p.root)
BY DEF Fails, Exits, Processes, Same, Words

LEMMA KilledFacts ==
  ASSUME NEW p \in Processes, NEW q, q = Killed(p)
  PROVE  /\ q \in Processes /\ Same(p, q) /\ q.phase = "exited" /\ q.fresh /\ ~q.ok
         /\ q.says = "nothing" /\ q.offered = p.offered /\ q.read = p.read /\ (q.root <=> p.root)
BY DEF Killed, Exits, Processes, Same

LEMMA SucceedsFacts ==
  ASSUME NEW p \in Processes, NEW says \in Words, NEW q, q = Succeeds(p, says)
  PROVE  /\ q \in Processes /\ Same(p, q) /\ q.phase = "exited" /\ q.fresh /\ q.ok
         /\ q.says = says /\ q.offered = p.offered /\ q.read = p.read /\ (q.root <=> p.root)
BY DEF Succeeds, Exits, Processes, Same, Words

LEMMA RootFacts ==
  ASSUME NEW p \in Processes, NEW root \in BOOLEAN, NEW q, q = [p EXCEPT !.root = root]
  PROVE  q \in Processes /\ Same(p, q) /\ q.offered = p.offered /\ q.read = p.read /\ (q.root <=> root)
BY DEF Processes, Same

LEMMA OfferFacts ==
  ASSUME NEW p \in Processes, p.stdin # << >>,
         NEW q, q = Offered(p)
  PROVE  /\ q \in Processes /\ Same(p, q) /\ q.phase = p.phase /\ q.stdin = Tail(p.stdin)
         /\ q.offered = p.offered \cup {Head(p.stdin)} /\ q.read = p.read /\ q.out = p.out
         /\ (q.fresh <=> p.fresh) /\ q.says = p.says /\ (q.ok <=> p.ok) /\ (q.root <=> p.root)
<1>1. PICK stdin, offered : stdin = Tail(p.stdin) /\ offered = p.offered \cup {Head(p.stdin)}
  OBVIOUS
<1>2. stdin \in Seq(Lines) /\ offered \in SUBSET Lines
  <2>1. PICK s : s = p.stdin
    OBVIOUS
  <2>2. s \in Seq(Lines) /\ s # << >> /\ p.offered \subseteq Lines
    BY <2>1 DEF Processes
  <2>3. Head(s) \in Lines /\ Tail(s) \in Seq(Lines)
    BY <2>2
  <2>4. QED
    BY <1>1, <2>1, <2>2, <2>3
<1>3. q = [p EXCEPT !.stdin = stdin, !.offered = offered]
  BY <1>1 DEF Offered
<1>4. /\ q \in Processes /\ Same(p, q) /\ q.phase = p.phase /\ q.stdin = stdin
      /\ q.offered = offered /\ q.read = p.read /\ q.out = p.out
      /\ (q.fresh <=> p.fresh) /\ q.says = p.says /\ (q.ok <=> p.ok) /\ (q.root <=> p.root)
  BY <1>2, <1>3 DEF Processes, Same
<1>5. QED
  BY <1>1, <1>4

LEMMA PhaseFacts ==
  ASSUME NEW p \in Processes, NEW q, q = [p EXCEPT !.phase = "running"]
  PROVE  /\ q \in Processes /\ Same(p, q) /\ q.phase = "running" /\ q.stdin = p.stdin
         /\ q.offered = p.offered /\ q.read = p.read /\ q.out = p.out
         /\ (q.fresh <=> p.fresh) /\ q.says = p.says /\ (q.ok <=> p.ok) /\ (q.root <=> p.root)
BY DEF Processes, Same

LEMMA TalkFacts ==
  ASSUME NEW p \in Processes, p.phase = "running",
         NEW q, q = SaysMore(p)
  PROVE  q \in Processes /\ Same(p, q) /\ Talks(p, q)
<1>1. PICK out : out = IF p.out < Produced THEN p.out + 1 ELSE p.out
  OBVIOUS
<1>2. out \in 0 .. Produced
  <2>1. p.out \in 0 .. Produced /\ Produced \in Nat
    BY Constants DEF Processes
  <2>2. QED
    BY <1>1, <2>1
<1>3. q = [p EXCEPT !.out = out, !.fresh = TRUE]
  BY <1>1 DEF SaysMore
<1>4. QED
  BY <1>2, <1>3 DEF Processes, Same, Talks

LEMMA EatFacts ==
  ASSUME NEW p \in Processes, p.phase = "running", p.program \in Readers, p.stdin # << >>,
         NEW q, q = ReadsLine(p)
  PROVE  q \in Processes /\ Same(p, q) /\ Eats(p, q)
<1>1. PICK stdin, read : stdin = Tail(p.stdin) /\ read = Append(p.read, Head(p.stdin))
  OBVIOUS
<1>2. stdin \in Seq(Lines) /\ read \in Seq(Lines)
  <2>1. PICK s, r : s = p.stdin /\ r = p.read
    OBVIOUS
  <2>2. s \in Seq(Lines) /\ s # << >> /\ r \in Seq(Lines)
    BY <2>1 DEF Processes
  <2>3. Tail(s) \in Seq(Lines) /\ Append(r, Head(s)) \in Seq(Lines)
    BY <2>2
  <2>4. QED
    BY <1>1, <2>1, <2>3
<1>3. q = [p EXCEPT !.stdin = stdin, !.read = read]
  BY <1>1 DEF ReadsLine
<1>4. /\ q \in Processes /\ Same(p, q) /\ q.phase = p.phase /\ q.stdin = stdin
      /\ q.offered = p.offered /\ q.read = read /\ q.out = p.out
      /\ (q.fresh <=> p.fresh) /\ q.says = p.says /\ (q.ok <=> p.ok) /\ (q.root <=> p.root)
  BY <1>2, <1>3 DEF Processes, Same
<1>5. QED
  BY <1>1, <1>4 DEF Eats
LEMMA AuthenticatesKinds ==
  ASSUME NEW p \in Processes, Apart(p), p.phase \in {"password", "asking"}, NEW q \in Authenticates(p)
  PROVE  q \in Processes /\ Same(p, q) /\ (Leaves(p, q) \/ Offers(p, q))
<1>1. PICK offer : offer = Offered(p)
  OBVIOUS
<1>2. \/ q = Fails(p, "rejected")
      \/ /\ p.stdin # << >>
         /\ \/ q = [offer EXCEPT !.phase = "running"]
            \/ p.way = "asking" /\ q = offer
            \/ q = Fails(offer, "rejected")
  BY <1>1 DEF Authenticates
<1>3. CASE q = Fails(p, "rejected")
  <2>1. /\ q \in Processes /\ Same(p, q) /\ q.phase = "exited" /\ q.fresh /\ ~q.ok
        /\ q.says = "rejected" /\ q.offered = p.offered /\ q.read = p.read
    BY <1>3, WordsFacts, FailsFacts
  <2>2. QED
    BY <2>1 DEF Leaves
<1>4. ASSUME p.stdin # << >>
      PROVE  /\ offer \in Processes /\ Same(p, offer) /\ offer.phase = p.phase
             /\ offer.stdin = Tail(p.stdin)
             /\ offer.offered = p.offered \cup {Head(p.stdin)} /\ offer.read = p.read
             /\ offer.out = p.out /\ (offer.fresh <=> p.fresh) /\ offer.says = p.says
             /\ (offer.ok <=> p.ok) /\ (offer.root <=> p.root)
  BY <1>1, <1>4, OfferFacts
<1>5. CASE p.stdin # << >> /\ q = [offer EXCEPT !.phase = "running"]
  <2>1. /\ q \in Processes /\ Same(offer, q) /\ q.phase = "running" /\ q.stdin = offer.stdin
        /\ q.offered = offer.offered /\ q.read = offer.read /\ q.out = offer.out
        /\ (q.fresh <=> offer.fresh) /\ q.says = offer.says
        /\ (q.ok <=> offer.ok) /\ (q.root <=> offer.root)
    BY <1>4, <1>5, PhaseFacts
  <2>2. Same(p, q)
    BY <1>4, <1>5, <2>1 DEF Same
  <2>3. Offers(p, q)
    BY <1>4, <1>5, <2>1 DEF Offers
  <2>4. QED
    BY <2>1, <2>2, <2>3
<1>6. CASE p.stdin # << >> /\ p.way = "asking" /\ q = offer
  <2>1. p.phase = "asking"
    BY <1>6 DEF Apart
  <2>2. QED
    BY <1>4, <1>6, <2>1 DEF Offers
<1>7. CASE p.stdin # << >> /\ q = Fails(offer, "rejected")
  <2>1. /\ q \in Processes /\ Same(offer, q) /\ q.phase = "exited" /\ q.fresh /\ ~q.ok
        /\ q.says = "rejected" /\ q.offered = offer.offered /\ q.read = offer.read
    BY <1>4, <1>7, WordsFacts, FailsFacts
  <2>2. Same(p, q)
    BY <1>4, <1>7, <2>1 DEF Same
  <2>3. Leaves(p, q)
    BY <1>4, <1>7, <2>1 DEF Leaves
  <2>4. QED
    BY <2>1, <2>2, <2>3
<1>8. QED
  BY <1>2, <1>3, <1>5, <1>6, <1>7

\* A command that ends is root if it may be, or has not ended well.
LEMMA CommandEnds ==
  ASSUME NEW p \in Processes, p.phase = "running", p.way # "free" \/ Rooted(p),
         NEW s \in AnyWords, NEW q,
         \/ q = Fails(AsUser(p), s)
         \/ q = Succeeds(AsUser(p), s) /\ (p.program \in Readers => p.stdin = << >> /\ p.eof)
  PROVE  q \in Processes /\ Same(p, q) /\ Leaves(p, q)
<1>1. PICK root : root = Rooted(p)
  OBVIOUS
<1>2. root \in BOOLEAN /\ (root <=> Rooted(p))
  BY <1>1, RootedIsBoolean
<1>3. PICK r : r = [p EXCEPT !.root = root]
  OBVIOUS
<1>4. r \in Processes /\ Same(p, r) /\ r.offered = p.offered /\ r.read = p.read /\ (r.root <=> root)
  BY <1>2, <1>3, RootFacts
<1>5. r = AsUser(p)
  BY <1>1, <1>3 DEF AsUser
<1>6. s \in Words /\ s # "root"
  BY WordsFacts
<1>7. /\ q \in Processes /\ Same(r, q) /\ q.phase = "exited" /\ q.fresh
      /\ q.ok /\ p.program \in Readers => p.stdin = << >> /\ p.eof
      /\ q.says = s /\ q.offered = r.offered /\ q.read = r.read /\ (q.root <=> r.root)
  <2>1. CASE q = Fails(r, s)
    BY <1>4, <1>6, <2>1, FailsFacts
  <2>2. CASE q = Succeeds(r, s) /\ (p.program \in Readers => p.stdin = << >> /\ p.eof)
    BY <1>4, <1>6, <2>2, SucceedsFacts
  <2>3. QED
    BY <1>5, <2>1, <2>2
<1>8. Same(p, q)
  BY <1>4, <1>7 DEF Same
<1>9. Leaves(p, q)
  BY <1>2, <1>4, <1>6, <1>7 DEF Leaves
<1>10. QED
  BY <1>7, <1>8, <1>9

LEMMA FaresKinds ==
  ASSUME NEW p \in Processes, p.phase = "running", p.way # "free" \/ Rooted(p), NEW q \in Fares(p)
  PROVE  q \in Processes /\ Same(p, q) /\ (Leaves(p, q) \/ Talks(p, q))
<1>1. q = SaysMore(p) \/ \E s \in AnyWords : q = Fails(AsUser(p), s)
  BY DEF Fares
<1>2. CASE q = SaysMore(p)
  BY <1>2, TalkFacts
<1>3. CASE \E s \in AnyWords : q = Fails(AsUser(p), s)
  BY <1>3, CommandEnds
<1>4. QED
  BY <1>1, <1>2, <1>3

LEMMA ComputesKinds ==
  ASSUME crontab \in Seq(Legal), NEW p \in Processes, p.phase = "running",
         p.way # "free" \/ Rooted(p), NEW q \in Computes(p)
  PROVE  q \in Processes /\ Same(p, q) /\ (Leaves(p, q) \/ Talks(p, q) \/ Eats(p, q))
<1>1. p.program \in Programs
  BY DEF Processes
<1>2. CASE p.program = "id"
  <2>1. PICK says : says = IF host.root THEN "root" ELSE "nothing"
    OBVIOUS
  <2>2. q = Succeeds(p, says)
    BY <1>2, <2>1 DEF Computes, Identifies, Readers
  <2>3. says \in Words /\ (says = "root" => host.root)
    BY <2>1, WordsFacts
  <2>4. /\ q \in Processes /\ Same(p, q) /\ q.phase = "exited" /\ q.fresh
        /\ q.says = says /\ q.offered = p.offered /\ q.read = p.read
    BY <2>2, <2>3, SucceedsFacts
  <2>5. QED
    BY <1>2, <2>3, <2>4 DEF Leaves, Readers
<1>3. CASE p.program = "sudo -n true"
  <2>1. q \in Probes(p)
    BY <1>3 DEF Computes, Readers
  <2>2. q = Succeeds(p, "nothing") \/ q = Fails(p, "nothing")
    BY <2>1 DEF Probes
  <2>3. /\ q \in Processes /\ Same(p, q) /\ q.phase = "exited" /\ q.fresh
        /\ q.says = "nothing" /\ q.offered = p.offered /\ q.read = p.read
    <3>1. CASE q = Succeeds(p, "nothing")
      BY <3>1, WordsFacts, SucceedsFacts
    <3>2. CASE q = Fails(p, "nothing")
      BY <3>2, WordsFacts, FailsFacts
    <3>3. QED
      BY <2>2, <3>1, <3>2
  <2>4. QED
    BY <1>3, <2>3 DEF Leaves, Readers
<1>4. CASE p.program = "crontab -l"
  <2>1. q \in Lists(p)
    BY <1>4 DEF Computes, Readers
  <2>2. PICK r \in {crontab, << >>} : q = Succeeds(Listed(p, r), "nothing")
    BY <2>1 DEF Lists
  <2>3. r \in Seq(Legal) /\ r \in Seq(Lines)
    BY LineTypes
  <2>4. PICK m : m = Listed(p, r)
    OBVIOUS
  <2>5. m \in Processes /\ Same(p, m) /\ m.offered = p.offered /\ m.read = r
    BY <2>3, <2>4 DEF Processes, Same, Listed
  <2>6. q = Succeeds(m, "nothing")
    BY <2>2, <2>4
  <2>7. /\ q \in Processes /\ Same(m, q) /\ q.phase = "exited" /\ q.fresh
        /\ q.says = "nothing" /\ q.offered = m.offered /\ q.read = m.read
    BY <2>5, <2>6, WordsFacts, SucceedsFacts
  <2>8. Same(p, q)
    BY <2>5, <2>7 DEF Same
  <2>9. QED
    BY <1>4, <2>3, <2>5, <2>7, <2>8 DEF Leaves, Readers
<1>5. CASE p.program = "command"
  <2>1. q \in Obeys(p)
    BY <1>5 DEF Computes, Readers
  <2>2. q \in Fares(p) \/ \E s \in AnyWords : q = Succeeds(AsUser(p), s)
    BY <2>1 DEF Obeys
  <2>3. p.program \notin Readers
    BY <1>5 DEF Readers
  <2>4. QED
    BY <2>2, <2>3, FaresKinds, CommandEnds
<1>6. CASE p.program \in Readers
  <2>1. q \in Consumes(p)
    BY <1>6 DEF Computes, Readers
  <2>2. \/ p.stdin # << >> /\ q = ReadsLine(p)
        \/ p.stdin = << >> /\ p.eof /\ q = Succeeds(AsUser(p), "nothing")
        \/ q \in Fares(p)
        \/ q = Fails(p, "nothing")
    BY <2>1 DEF Consumes
  <2>3. CASE p.stdin # << >> /\ q = ReadsLine(p)
    BY <1>6, <2>3, EatFacts
  <2>4. CASE p.stdin = << >> /\ p.eof /\ q = Succeeds(AsUser(p), "nothing")
    <3>1. "nothing" \in AnyWords
      BY DEF AnyWords
    <3>2. QED
      BY <2>4, <3>1, CommandEnds
  <2>5. CASE q \in Fares(p)
    BY <2>5, FaresKinds
  <2>6. CASE q = Fails(p, "nothing")
    <3>1. /\ q \in Processes /\ Same(p, q) /\ q.phase = "exited" /\ q.fresh /\ ~q.ok
          /\ q.says = "nothing" /\ q.offered = p.offered /\ q.read = p.read
      BY <2>6, WordsFacts, FailsFacts
    <3>2. QED
      BY <3>1 DEF Leaves
  <2>7. QED
    BY <2>2, <2>3, <2>4, <2>5, <2>6
<1>7. QED
  BY <1>1, <1>2, <1>3, <1>4, <1>5, <1>6 DEF Programs, Readers

LEMMA ProceedsKinds ==
  ASSUME crontab \in Seq(Legal), NEW p \in Processes, Apart(p), Processing(p), NEW q \in Proceeds(p)
  PROVE  /\ q \in Processes /\ Same(p, q)
         /\ Leaves(p, q) \/ Offers(p, q) \/ Talks(p, q) \/ Eats(p, q)
<1>1. p.phase \in {"password", "asking", "running"}
  BY DEF Processes, Processing
<1>2. CASE p.phase \in {"password", "asking"}
  <2>1. q \in Authenticates(p)
    BY <1>2 DEF Proceeds
  <2>2. QED
    BY <1>2, <2>1, AuthenticatesKinds
<1>3. CASE p.phase = "running"
  <2>1. q \in Refused(p) \/ (q \in Computes(p) /\ (p.way # "free" \/ Rooted(p)))
    BY <1>3 DEF Proceeds
  <2>2. CASE q \in Refused(p)
    <3>1. q = Fails(p, "nothing")
      BY <2>2 DEF Refused
    <3>2. /\ q \in Processes /\ Same(p, q) /\ q.phase = "exited" /\ q.fresh /\ ~q.ok
          /\ q.says = "nothing" /\ q.offered = p.offered /\ q.read = p.read
      BY <3>1, WordsFacts, FailsFacts
    <3>3. QED
      BY <3>2 DEF Leaves
  <2>3. QED
    BY <1>3, <2>1, <2>2, ComputesKinds
<1>4. QED
  BY <1>1, <1>2, <1>3

LEMMA MoveKinds ==
  ASSUME crontab \in Seq(Legal), NEW p \in Processes, Apart(p), Processing(p), NEW q \in Moves(p)
  PROVE  /\ q \in Processes /\ Same(p, q)
         /\ Leaves(p, q) \/ Offers(p, q) \/ Talks(p, q) \/ Eats(p, q)
<1>1. q \in Proceeds(p) \/ q = Killed(p)
  BY DEF Moves
<1>2. CASE q = Killed(p)
  <2>1. /\ q \in Processes /\ Same(p, q) /\ q.phase = "exited" /\ q.fresh /\ ~q.ok
        /\ q.says = "nothing" /\ q.offered = p.offered /\ q.read = p.read
    BY <1>2, KilledFacts
  <2>2. QED
    BY <2>1 DEF Leaves
<1>3. QED
  BY <1>1, <1>2, ProceedsKinds

LEMMA FrontFacts ==
  ASSUME NEW S, NEW s \in Seq(S), s # << >>
  PROVE  /\ 1 \in DOMAIN s /\ Head(s) = s[1] /\ Head(s) \in S /\ Tail(s) \in Seq(S)
         /\ \A i \in DOMAIN Tail(s) : i + 1 \in DOMAIN s /\ Tail(s)[i] = s[i + 1] /\ i + 1 # 1
OBVIOUS

LEMMA EachInSeq ==
  ASSUME NEW S, NEW T, NEW s \in Seq(S), \A i \in DOMAIN s : s[i] \in T
  PROVE  s \in Seq(T)
OBVIOUS

LEMMA MoveApart ==
  ASSUME NEW p \in Processes, Apart(p), NEW q \in Processes, Same(p, q),
         Leaves(p, q) \/ Offers(p, q) \/ Talks(p, q) \/ Eats(p, q)
  PROVE  Apart(q)
<1>1. PICK stdin, read, offered : stdin = p.stdin /\ read = p.read /\ offered = p.offered
  OBVIOUS
<1>2. /\ stdin \in Seq(Lines) /\ offered \subseteq {Password} /\ read \in Seq(Harmless)
      /\ p.program \in {"crontab -", "crontab -l"} => read \in Seq(Legal)
  BY <1>1 DEF Processes, Apart
<1>3. CASE Leaves(p, q)
  <2>1. q.phase = "exited"
    BY <1>3 DEF Leaves
  <2>2. p.phase \in {"password", "asking"} /\ stdin # << >> => Head(stdin) = Password
    BY <1>1, <1>2, FrontFacts DEF Apart
  <2>3. q.offered \subseteq {Password}
    BY <1>1, <1>2, <1>3, <2>2 DEF Leaves
  <2>4. q.read = read \/ (p.program = "crontab -l" /\ q.read \in Seq(Legal))
    BY <1>1, <1>3 DEF Leaves
  <2>5. Seq(Legal) \subseteq Seq(Harmless)
    BY LineTypes
  <2>6. q.read \in Seq(Harmless) /\ (q.program \in {"crontab -", "crontab -l"} => q.read \in Seq(Legal))
    BY <1>2, <2>4, <2>5 DEF Same
  <2>7. QED
    BY <2>1, <2>3, <2>6 DEF Apart
<1>4. CASE Offers(p, q)
  <2>1. PICK rest : rest = Tail(stdin)
    OBVIOUS
  <2>2. /\ p.phase \in {"password", "asking"} /\ stdin # << >> /\ q.stdin = rest /\ q.read = read
        /\ q.offered = offered \cup {Head(stdin)}
        /\ q.phase = "running" \/ (p.phase = "asking" /\ q.phase = "asking")
    BY <1>1, <1>4, <2>1 DEF Offers
  <2>3. /\ 1 \in DOMAIN stdin /\ Head(stdin) = stdin[1] /\ rest \in Seq(Lines)
        /\ \A i \in DOMAIN rest : i + 1 \in DOMAIN stdin /\ rest[i] = stdin[i + 1] /\ i + 1 # 1
    BY <1>2, <2>1, <2>2, FrontFacts
  <2>4. q.offered \subseteq {Password}
    BY <1>1, <1>2, <2>2, <2>3 DEF Apart
  <2>5. CASE p.phase = "password"
    <3>1. /\ p.program = "reader" /\ q.phase = "running"
          /\ \A i \in DOMAIN stdin : i # 1 => stdin[i] \in Harmless
      BY <1>1, <2>2, <2>5 DEF Apart
    <3>2. rest \in Seq(Harmless)
      BY <2>3, <3>1, EachInSeq
    <3>3. QED
      BY <1>2, <2>2, <2>4, <3>1, <3>2 DEF Apart, Same
  <2>6. CASE p.phase = "asking"
    <3>1. p.program \notin Readers /\ \A i \in DOMAIN stdin : stdin[i] = Password
      BY <1>1, <2>6 DEF Apart
    <3>2. \A i \in DOMAIN rest : rest[i] = Password
      BY <2>3, <3>1
    <3>3. QED
      BY <1>2, <2>2, <2>4, <3>1, <3>2 DEF Apart, Same, Readers
  <2>7. QED
    BY <2>2, <2>5, <2>6
<1>5. CASE Talks(p, q)
  BY <1>5 DEF Talks, Apart, Same
<1>6. CASE Eats(p, q)
  <2>1. PICK rest, first, more : rest = Tail(stdin) /\ first = Head(stdin) /\ more = Append(read, first)
    OBVIOUS
  <2>2. /\ p.phase = "running" /\ q.phase = "running" /\ p.program \in Readers /\ stdin # << >>
        /\ q.stdin = rest /\ q.read = more /\ q.offered = offered
    BY <1>1, <1>6, <2>1 DEF Eats
  <2>3. stdin \in Seq(Harmless)
    BY <1>1, <2>2 DEF Apart
  <2>4. rest \in Seq(Harmless) /\ more \in Seq(Harmless)
    <3>1. first \in Harmless /\ rest \in Seq(Harmless)
      BY <2>1, <2>2, <2>3, FrontFacts
    <3>2. read \in Seq(Harmless)
      BY <1>2
    <3>3. Append(read, first) \in Seq(Harmless)
      BY <3>1, <3>2
    <3>4. QED
      BY <2>1, <3>1, <3>3
  <2>5. p.program = "crontab -" => rest \in Seq(Legal) /\ more \in Seq(Legal)
    <3>1. SUFFICES ASSUME p.program = "crontab -" PROVE rest \in Seq(Legal) /\ more \in Seq(Legal)
      OBVIOUS
    <3>2. stdin \in Seq(Legal) /\ read \in Seq(Legal)
      BY <1>1, <1>2, <2>2, <3>1 DEF Apart
    <3>3. first \in Legal /\ rest \in Seq(Legal)
      BY <2>1, <2>2, <3>2, FrontFacts
    <3>4. QED
      BY <2>1, <3>2, <3>3
  <2>6. QED
    BY <1>2, <2>2, <2>4, <2>5 DEF Apart, Same, Readers
<1>7. QED
  BY <1>3, <1>4, <1>5, <1>6

LEMMA MoveHonest ==
  ASSUME NEW p \in Processes, Honest(p), NEW q \in Processes, Same(p, q),
         Leaves(p, q) \/ Offers(p, q) \/ Talks(p, q) \/ Eats(p, q)
  PROVE  Honest(q)
<1>1. Rooted(q) <=> Rooted(p)
  BY DEF Rooted, Same
<1>2. CASE Leaves(p, q)
  BY <1>1, <1>2 DEF Leaves, Honest, Same
<1>3. CASE Offers(p, q)
  BY <1>1, <1>3 DEF Offers, Honest, Same
<1>4. CASE Talks(p, q)
  BY <1>1, <1>4 DEF Talks, Honest, Same
<1>5. CASE Eats(p, q)
  BY <1>1, <1>5 DEF Eats, Honest, Same
<1>6. QED
  BY <1>2, <1>3, <1>4, <1>5

LEMMA MoveLinked ==
  ASSUME NEW p \in Processes, Apart(p), Processing(p), NEW q \in Processes, Same(p, q),
         Leaves(p, q) \/ Offers(p, q) \/ Talks(p, q) \/ Eats(p, q),
         NEW x \in CallStates, Linked(x, p)
  PROVE  Open(x) /\ x.at # "ok" /\ Linked(x, q)
<1>1. p.phase \in {"password", "asking", "running"}
  BY DEF Processes, Processing
<1>2. Open(x)
  BY DEF Linked, NoProcess, Processing
<1>3. /\ p.program = x.program /\ p.way = x.way
      /\ p.phase = "password" => p.way = "wrapper"
      /\ p.phase = "asking" => p.way = "asking"
      /\ Suits(p.program, p.way, p.whole)
      /\ p.way = "asking" => x.input \in Seq({Password})
      /\ x.at \in {"read", "ok"} => x.input = << >>
      /\ p.eof => x.at \in {"read", "ok"}
      /\ ~p.fresh => x.kept = Kept(x.limit, p.out)
      /\ Conserved(p, x.input)
  BY <1>2 DEF Linked
<1>4. x.at # "ok"
  BY <1>1, <1>2 DEF Linked
<1>5. PICK stdin, read, whole, input :
        stdin = p.stdin /\ read = p.read /\ whole = p.whole /\ input = x.input
  OBVIOUS
<1>6. stdin \in Seq(Lines) /\ read \in Seq(Lines) /\ input \in Seq(Lines)
  BY <1>5 DEF Processes, CallStates
<1>7. Body(q) = Body(p)
  BY DEF Body, Same
<1>8. /\ q.phase # "none"
      /\ q.phase = "password" => q.way = "wrapper"
      /\ q.phase = "asking" => q.way = "asking"
      /\ ~q.fresh => x.kept = Kept(x.limit, q.out)
      /\ Conserved(q, x.input)
  <2>1. CASE Leaves(p, q)
    <3>1. q.phase = "exited" /\ q.fresh
      BY <2>1 DEF Leaves
    <3>2. ASSUME q.ok, q.program \in Readers PROVE q.read = Body(q)
      <4>1. p.phase = "running" /\ stdin = << >> /\ p.eof /\ q.read = read /\ p.program \in Readers
        BY <1>5, <2>1, <3>2 DEF Leaves, Same
      <4>2. read \o (stdin \o input) = Body(p) /\ input = << >>
        BY <1>3, <1>5, <4>1 DEF Conserved
      <4>3. read \o (stdin \o input) = read
        BY <1>6, <4>1, <4>2
      <4>4. QED
        BY <1>7, <4>1, <4>2, <4>3
    <3>3. QED
      BY <3>1, <3>2 DEF Conserved
  <2>2. CASE Offers(p, q)
    <3>1. /\ p.phase \in {"password", "asking"} /\ stdin # << >> /\ q.stdin = Tail(stdin)
          /\ q.read = read /\ q.out = p.out /\ (q.fresh <=> p.fresh)
          /\ q.phase = "running" \/ (p.phase = "asking" /\ q.phase = "asking")
      BY <1>5, <2>2 DEF Offers
    <3>2. p.phase = "asking" => p.program \notin Readers
      BY DEF Apart
    <3>3. ASSUME p.phase = "password", q.program \in Readers
          PROVE  q.phase = "running" /\ q.read \o (q.stdin \o input) = Body(q)
      <4>1. q.phase = "running" /\ p.way = "wrapper" /\ read = << >> /\ stdin \o input = whole
        BY <1>3, <1>5, <3>1, <3>3 DEF Conserved, Same
      <4>2. Body(p) = Tail(whole)
        BY <1>5, <4>1 DEF Body
      <4>3. Tail(stdin) \o input = Tail(whole)
        BY <1>6, <3>1, <4>1, TailOfConcat
      <4>4. Tail(stdin) \o input \in Seq(Lines)
        BY <1>6, <3>1
      <4>5. read \o (Tail(stdin) \o input) = Tail(stdin) \o input
        BY <4>1, <4>4, EmptyConcat
      <4>6. QED
        BY <1>7, <3>1, <4>1, <4>2, <4>3, <4>5
    <3>4. q.program \in Readers => p.phase = "password"
      BY <3>1, <3>2 DEF Same
    <3>5. Conserved(q, x.input)
      BY <1>5, <3>3, <3>4 DEF Conserved
    <3>6. QED
      BY <1>3, <3>1, <3>5 DEF Same
  <2>3. CASE Talks(p, q)
    <3>1. /\ p.phase = "running" /\ q.phase = "running" /\ q.fresh /\ q.stdin = p.stdin
          /\ q.read = p.read
      BY <2>3 DEF Talks
    <3>2. Conserved(q, x.input)
      BY <1>3, <1>7, <3>1 DEF Conserved, Same
    <3>3. QED
      BY <3>1, <3>2
  <2>4. CASE Eats(p, q)
    <3>1. /\ p.phase = "running" /\ q.phase = "running" /\ p.program \in Readers /\ stdin # << >>
          /\ q.stdin = Tail(stdin) /\ q.read = Append(read, Head(stdin))
          /\ q.out = p.out /\ (q.fresh <=> p.fresh)
      BY <1>5, <2>4 DEF Eats
    <3>2. PICK w : w = stdin \o input
      OBVIOUS
    <3>3. w \in Seq(Lines) /\ w # << >> /\ Head(w) = Head(stdin) /\ Tail(w) = Tail(stdin) \o input
      <4>1. Head(stdin \o input) = Head(stdin) /\ Tail(stdin \o input) = Tail(stdin) \o input
        BY <1>6, <3>1, TailOfConcat
      <4>2. stdin \o input \in Seq(Lines) /\ stdin \o input # << >>
        BY <1>6, <3>1
      <4>3. QED
        BY <3>2, <4>1, <4>2
    <3>4. Append(read, Head(w)) \o Tail(w) = read \o w
      BY <1>6, <3>3, Handover
    <3>5. read \o w = Body(p)
      BY <1>3, <1>5, <3>1, <3>2 DEF Conserved
    <3>6. q.read \o (q.stdin \o x.input) = Body(q)
      BY <1>5, <1>7, <3>1, <3>3, <3>4, <3>5
    <3>7. Conserved(q, x.input)
      BY <3>1, <3>6 DEF Conserved
    <3>8. QED
      BY <1>3, <3>1, <3>7
  <2>5. QED
    BY <2>1, <2>2, <2>3, <2>4
<1>9. Linked(x, q)
  BY <1>2, <1>3, <1>4, <1>8 DEF Linked, Same, Open
<1>10. QED
  BY <1>2, <1>4, <1>9

LEMMA EffectFacts ==
  ASSUME crontab \in Seq(Legal), NEW p \in Processes, Apart(p), NEW q \in Processes, Apart(q),
         Same(p, q), Leaves(p, q) \/ Offers(p, q) \/ Talks(p, q) \/ Eats(p, q), Effect(q)
  PROVE  /\ crontab' \in Seq(Legal)
         /\ crontab' = crontab \/ (p.program = "crontab -" /\ crontab' = p.read)
<1>1. CASE q.program = "crontab -" /\ q.phase = "exited" /\ q.ok
  <2>1. crontab' = q.read /\ q.read \in Seq(Legal) /\ p.program = "crontab -"
    BY <1>1 DEF Effect, Apart, Same
  <2>2. Leaves(p, q)
    BY <1>1 DEF Offers, Talks, Eats
  <2>3. q.read = p.read
    BY <1>1, <2>1, <2>2 DEF Leaves
  <2>4. QED
    BY <2>1, <2>3
<1>2. CASE ~(q.program = "crontab -" /\ q.phase = "exited" /\ q.ok)
  BY <1>2 DEF Effect
<1>3. QED
  BY <1>1, <1>2

\* An edit that hits the crontab it was meant for leaves every line there that
\* nobody chose.
LEMMA EditKeepsLines ==
  ASSUME IInv, NEW d \in Clients, job[d].step = "install", proc[d].read = proc[d].whole,
         Processing(proc[d]), crontab = job[d].listed,
         job[d].edit # "add" => Cardinality(Answering(crontab, job[d].id)) <= 1,
         job[d].id.kind = "line" => job[d].listed = job[d].seen
  PROVE  \A line \in ToSet(crontab) : line.text \in meant \/ line \in ToSet(proc[d].read)
<1>1. /\ job[d] \in JobStates /\ Linked(call[d], proc[d]) /\ Editing(job[d], call[d], proc[d], meant)
  BY InvariantOf
<1>2. Open(call[d])
  BY <1>1 DEF Linked, NoProcess, Processing
<1>3. Chosen(job[d], meant) /\ proc[d].read = EditOf(job[d], crontab)
  BY <1>1, <1>2 DEF Editing, Given
<1>4. PICK j, lines : j = job[d] /\ lines = crontab
  OBVIOUS
<1>5. lines \in Seq(Legal) /\ j \in JobStates /\ Chosen(j, meant)
  BY <1>1, <1>3, <1>4 DEF IInv, Typed
<1>6. \A i \in DOMAIN lines : j.edit = "add" \/ At(lines, i) # j.id => lines[i] \in ToSet(EditOf(j, lines))
  BY <1>5, EditFacts
<1>7. ASSUME NEW i \in DOMAIN lines, j.edit # "add", At(lines, i) = j.id
      PROVE  lines[i].text \in meant
  <2>1. i \in Answering(lines, j.id)
    BY <1>7 DEF Answering
  <2>2. /\ j.id.kind = "line" => lines = j.seen
        /\ Cardinality(Answering(lines, j.id)) <= 1
    BY <1>4, <1>7
  <2>3. QED
    BY <1>5, <1>7, <2>1, <2>2, ChosenText
<1>8. \A line \in ToSet(lines) : \E i \in DOMAIN lines : line = lines[i]
  BY DEF ToSet
<1>9. QED
  BY <1>3, <1>4, <1>6, <1>7, <1>8

LEMMA RunsKeeps ==
  ASSUME IInv, NEW c \in Clients, Runs(c),
         spoilt' = (spoilt \/ (Astray(proc[c]) /\ crontab' # crontab)),
         UNCHANGED <<job, others, entered, meant>>
  PROVE  IInv'
<1>1. PICK q \in Moves(proc[c]) : proc' = [proc EXCEPT ![c] = q] /\ Effect(q)
  BY DEF Runs
<1>2. Processing(proc[c]) /\ UNCHANGED <<call, strays, cancelled, host>>
  BY DEF Runs
<1>3. /\ job[c] \in JobStates /\ call[c] \in CallStates /\ proc[c] \in Processes
      /\ Linked(call[c], proc[c]) /\ Honest(proc[c]) /\ Staged(job[c], call[c])
      /\ Editing(job[c], call[c], proc[c], meant) /\ Apart(proc[c]) /\ crontab \in Seq(Legal)
  BY InvariantOf DEF IInv, Typed
<1>4. PICK j, x, p : j = job[c] /\ x = call[c] /\ p = proc[c]
  OBVIOUS
<1>5. /\ q \in Processes /\ Same(p, q)
      /\ Leaves(p, q) \/ Offers(p, q) \/ Talks(p, q) \/ Eats(p, q)
  BY <1>1, <1>2, <1>3, <1>4, MoveKinds
<1>6. Apart(q) /\ Honest(q)
  BY <1>3, <1>4, <1>5, MoveApart, MoveHonest
<1>7. Open(x) /\ Linked(x, q)
  BY <1>2, <1>3, <1>4, <1>5, MoveLinked
<1>8. Editing(j, x, q, meant)
  BY <1>3, <1>4, <1>5 DEF Editing, Given, Same
<1>9. Fits(j, x, q, meant')
  BY <1>3, <1>4, <1>6, <1>7, <1>8 DEF Fits
<1>10. /\ crontab' \in Seq(Legal)
       /\ crontab' = crontab \/ (p.program = "crontab -" /\ crontab' = p.read)
  BY <1>1, <1>3, <1>4, <1>5, <1>6, EffectFacts
<1>11. CronLinesKept'
  <2>1. SUFFICES ASSUME ~spoilt', NEW line \in entered, line.text \notin meant
                 PROVE  line \in ToSet(crontab')
    BY DEF CronLinesKept
  <2>2. ~spoilt /\ line \in ToSet(crontab)
    BY <2>1 DEF IInv, CronLinesKept
  <2>3. CASE crontab' = crontab
    BY <2>2, <2>3
  <2>4. CASE crontab' # crontab
    <3>1. ~Astray(proc[c]) /\ p.program = "crontab -" /\ crontab' = p.read
      BY <1>10, <2>1, <2>4
    <3>2. PICK d \in Clients : /\ job[d].step = "install" /\ p.read = p.whole /\ p = proc[d]
                               /\ crontab = job[d].listed
                               /\ job[d].edit # "add" => Cardinality(Answering(crontab, job[d].id)) <= 1
                               /\ job[d].id.kind = "line" => job[d].listed = job[d].seen
      BY <1>4, <3>1 DEF Astray
    <3>3. Processing(proc[d]) /\ proc[d].read = proc[d].whole
      BY <1>2, <1>4, <3>2
    <3>4. line.text \in meant \/ line \in ToSet(proc[d].read)
      BY <2>2, <3>2, <3>3, EditKeepsLines
    <3>5. QED
      BY <2>1, <3>1, <3>2, <3>4
  <2>5. QED
    BY <2>3, <2>4
<1>12. job' = [job EXCEPT ![c] = j] /\ call' = [call EXCEPT ![c] = x]
  BY <1>2, <1>4 DEF IInv, Typed
<1>13. strays' \subseteq Processes /\ \A r \in strays' : Apart(r) /\ Processing(r)
  BY <1>2, StraysStay
<1>14. /\ cancelled' \in [Clients -> BOOLEAN] /\ others' \in Nat /\ meant \subseteq meant'
       /\ host' = host
  BY <1>2 DEF IInv, Typed
<1>15. spoilt' \in BOOLEAN
  BY DEF IInv, Typed
<1>16. QED
  BY <1>1, <1>3, <1>4, <1>5, <1>6, <1>9, <1>10, <1>11, <1>12, <1>13, <1>14, <1>15, ClientStep

LEMMA RunsOnKeeps ==
  ASSUME IInv, RunsOn, spoilt' = (spoilt \/ crontab' # crontab),
         UNCHANGED <<job, others, entered, meant>>
  PROVE  IInv'
<1>1. PICK p \in strays : \E q \in Moves(p) :
        /\ strays' = (strays \ {p}) \cup (IF Processing(q) THEN {q} ELSE {})
        /\ Effect(q)
  BY DEF RunsOn
<1>2. PICK q \in Moves(p) : /\ strays' = (strays \ {p}) \cup (IF Processing(q) THEN {q} ELSE {})
                            /\ Effect(q)
  BY <1>1
<1>3. p \in Processes /\ Apart(p) /\ Processing(p) /\ crontab \in Seq(Legal)
  BY DEF IInv, Typed, AllApart
<1>4. /\ q \in Processes /\ Same(p, q)
      /\ Leaves(p, q) \/ Offers(p, q) \/ Talks(p, q) \/ Eats(p, q)
  BY <1>3, MoveKinds
<1>5. Apart(q)
  BY <1>3, <1>4, MoveApart
<1>6. crontab' \in Seq(Legal)
  BY <1>2, <1>3, <1>4, <1>5, EffectFacts
<1>7. \A r \in strays' : r \in strays \/ (r = q /\ Processing(q))
  BY <1>2
<1>8. strays' \subseteq Processes /\ \A r \in strays' : Apart(r) /\ Processing(r)
  BY <1>4, <1>5, <1>7 DEF IInv, Typed, AllApart
<1>9. CronLinesKept'
  BY DEF IInv, CronLinesKept
<1>10. UNCHANGED <<call, proc, cancelled, host>>
  BY DEF RunsOn
<1>11. others' \in Nat /\ spoilt' \in BOOLEAN
  BY DEF IInv, Typed
<1>12. QED
  BY <1>6, <1>8, <1>9, <1>10, <1>11, HostStep

LEMMA ChangeCrontabKeeps ==
  ASSUME IInv, ChangeCrontab
  PROVE  IInv'
<1>1. /\ UNCHANGED <<call, proc, strays, cancelled, host, job, meant, spoilt>>
      /\ others > 0 /\ others' = others - 1
      /\ entered' = (entered \cup ToSet(crontab')) \ (ToSet(crontab) \ ToSet(crontab'))
  BY DEF ChangeCrontab
<1>2. PICK lines : lines = crontab
  OBVIOUS
<1>3. lines \in Seq(Legal)
  BY <1>2 DEF IInv, Typed
<1>4. crontab' \in Seq(Legal)
  <2>1. CASE crontab' = <<CronLine(OtherText, FALSE, NoMark)>> \o crontab
    <3>1. PICK line : line = CronLine(OtherText, FALSE, NoMark)
      OBVIOUS
    <3>2. line \in Legal
      BY <3>1, NewLinesLegal
    <3>3. <<line>> \o lines \in Seq(Legal)
      BY <1>3, <3>2
    <3>4. QED
      BY <1>2, <2>1, <3>1, <3>3
  <2>2. CASE crontab # << >> /\ crontab' = Tail(crontab)
    <3>1. Tail(lines) \in Seq(Legal)
      BY <1>2, <1>3, <2>2
    <3>2. QED
      BY <1>2, <2>2, <3>1
  <2>3. QED
    BY <2>1, <2>2 DEF ChangeCrontab
<1>5. CronLinesKept'
  BY <1>1 DEF IInv, CronLinesKept
<1>6. others' \in Nat /\ spoilt' \in BOOLEAN
  BY <1>1 DEF IInv, Typed
<1>7. strays' \subseteq Processes /\ \A q \in strays' : Apart(q) /\ Processing(q)
  BY <1>1, StraysStay
<1>8. QED
  BY <1>1, <1>4, <1>5, <1>6, <1>7, HostStep

-----------------------------------------------------------------------------
(* The invariant holds.                                                    *)

LEMMA InitHolds == Init => IInv
<1> SUFFICES ASSUME Init PROVE IInv
  OBVIOUS
<1>1. PICK s \in Scenarios : /\ job = [c \in Clients |-> NewJob(s.plans[c])]
                             /\ host = s.host /\ crontab = s.crontab
                             /\ entered = ToSet(s.crontab) /\ others = s.others
  BY DEF Init
<1>2. /\ call = [c \in Clients |-> Idle] /\ proc = [c \in Clients |-> NoProcess] /\ strays = {}
      /\ cancelled = [c \in Clients |-> FALSE] /\ meant = {} /\ spoilt = FALSE
  BY DEF Init
<1>3. s.plans \in [Clients -> Plans] /\ s.others \in Nat /\ s.crontab \in Seq(Legal)
  BY RemoteWorkAssumption, StartLinesLegal DEF RemoteWorkAssumption
<1>4. Idle \in CallStates /\ Idle.at = "idle"
  BY DEF Idle, CallStates, Ats, Programs, Ways
<1>5. NoProcess \in Processes /\ Apart(NoProcess) /\ Honest(NoProcess)
  BY NothingStarted
<1>6. ASSUME NEW c \in Clients
      PROVE  /\ NewJob(s.plans[c]) \in JobStates /\ NewJob(s.plans[c]).step = "idle"
             /\ NewJob(s.plans[c]).text = OtherText /\ NewJob(s.plans[c]).edit = "none"
  <2>1. PICK plan : plan = s.plans[c]
    OBVIOUS
  <2>2. plan \in Rests
    BY <1>3, <2>1 DEF Rests
  <2>3. OtherText \in Texts /\ << >> \in Seq(Legal) /\ NoMark \in Marks
    BY Constants DEF Marks
  <2>4. PICK j : j = NewJob(plan)
    OBVIOUS
  <2>5. j \in JobStates /\ j.step = "idle" /\ j.text = OtherText /\ j.edit = "none"
    BY <2>2, <2>3, <2>4 DEF NewJob, JobStates, Edits
  <2>6. QED
    BY <2>1, <2>4, <2>5
<1>7. Typed
  <2>1. job \in [Clients -> JobStates]
    BY <1>1, <1>6
  <2>2. QED
    BY <1>1, <1>2, <1>3, <1>4, <1>5, <2>1 DEF Typed
<1>8. AllApart
  BY <1>2, <1>5 DEF AllApart
<1>9. ASSUME NEW c \in Clients PROVE Fits(job[c], call[c], proc[c], meant)
  <2>1. PICK j : j = job[c]
    OBVIOUS
  <2>2. j.step = "idle" /\ j.text = OtherText /\ j.edit = "none" /\ call[c] = Idle /\ proc[c] = NoProcess
    BY <1>1, <1>2, <1>6, <2>1
  <2>3. Staged(j, Idle) /\ Editing(j, Idle, NoProcess, meant)
    BY <2>2 DEF Staged, Editing, Steps
  <2>4. Linked(Idle, NoProcess)
    BY <1>4 DEF Linked, Open
  <2>5. QED
    BY <1>5, <2>1, <2>2, <2>3, <2>4 DEF Fits
<1>10. CronLinesKept
  BY <1>1 DEF CronLinesKept
<1>11. QED
  BY <1>7, <1>8, <1>9, <1>10 DEF IInv

LEMMA StepPreserves == IInv /\ [Next]_vars => IInv'
<1> SUFFICES ASSUME IInv, [Next]_vars PROVE IInv'
  OBVIOUS
<1>1. ASSUME NEW c \in Clients, Begin(c) PROVE IInv'
  BY <1>1, BeginKeeps
<1>2. ASSUME NEW c \in Clients, After(c) PROVE IInv'
  BY <1>2, AfterKeeps
<1>3. ASSUME NEW c \in Clients, Calls(c), UNCHANGED <<job, others, history>> PROVE IInv'
  BY <1>3, CallsKeeps
<1>4. ASSUME NEW c \in Clients, Cancels(c), UNCHANGED <<job, others, history>> PROVE IInv'
  BY <1>4, CancelsKeeps
<1>5. ASSUME Process PROVE IInv'
  BY <1>5, RunsKeeps, RunsOnKeeps DEF Process
<1>6. ASSUME ChangeCrontab PROVE IInv'
  BY <1>6, ChangeCrontabKeeps
<1>7. ASSUME UNCHANGED vars PROVE IInv'
  <2>1. /\ UNCHANGED <<job, call, proc, strays, cancelled, host, crontab, others>>
        /\ UNCHANGED <<entered, meant, spoilt>>
    BY <1>7 DEF vars, remote, history
  <2>2. CronLinesKept'
    BY <2>1, LinesStillKept DEF IInv
  <2>3. strays' \subseteq Processes /\ \A q \in strays' : Apart(q) /\ Processing(q)
    BY <2>1, StraysStay
  <2>4. crontab' \in Seq(Legal) /\ others' \in Nat /\ spoilt' \in BOOLEAN
    BY <2>1 DEF IInv, Typed
  <2>5. QED
    BY <2>1, <2>2, <2>3, <2>4, HostStep
<1>8. QED
  BY <1>1, <1>2, <1>3, <1>4, <1>5, <1>6, <1>7 DEF Next

LEMMA InvariantHolds == Spec => []IInv
BY InitHolds, StepPreserves, PTL DEF Spec

\* Every job is at a step, and every process in a phase, that the code knows.
THEOREM RemoteTypeCorrect == Spec => []TypeOK
<1>1. IInv => TypeOK
  BY DEF IInv, Typed, TypeOK, JobStates, CallStates, Processes, Ats
<1>2. QED
  BY <1>1, InvariantHolds, PTL

\* sudo is never offered a line of the input for a password, and no command
\* reads the password, whatever the input, the host and the way
\* (sudo_password_command).
THEOREM PasswordIsApart == Spec => []PasswordStaysApart
<1>1. IInv => PasswordStaysApart
  <2>1. SUFFICES ASSUME IInv, NEW p \in strays \cup {proc[c] : c \in Clients}
                 PROVE  p.offered \subseteq {Password} /\ Password \notin ToSet(p.read)
    BY DEF PasswordStaysApart
  <2>2. p.offered \subseteq {Password} /\ p.read \in Seq(Harmless)
    BY <2>1 DEF IInv, AllApart, Apart
  <2>3. PICK read : read = p.read
    OBVIOUS
  <2>4. \A i \in DOMAIN read : read[i] \in Harmless
    BY <2>2, <2>3
  <2>5. Password \notin Harmless
    BY LineTypes
  <2>6. QED
    BY <2>2, <2>3, <2>4, <2>5 DEF ToSet
<1>2. QED
  BY <1>1, InvariantHolds, PTL

\* Edits that hit the crontab they were meant for leave the lines that nobody
\* chose, whatever the crontab, its identifiers and the edits
\* (replace_cron_line, cron_action).
THEOREM LinesAreKept == Spec => []CronLinesKept
<1>1. IInv => CronLinesKept
  BY DEF IInv
<1>2. QED
  BY <1>1, InvariantHolds, PTL

-----------------------------------------------------------------------------
(* What is taken for a success was one.                                    *)

LEMMA OthersStay ==
  ASSUME IInv, NEW d \in Clients, Begin(d) \/ After(d), NEW c \in Clients, c # d
  PROVE  job'[c] = job[c]
<1>1. job \in [Clients -> JobStates]
  BY DEF IInv, Typed
<1>2. CASE Begin(d)
  BY <1>1, <1>2 DEF Begin
<1>3. CASE After(d)
  <2>1. \/ \E step, x : Continue(d, step, x)
        \/ \E outcome : End(d, outcome)
        \/ NextStage(d)
        \/ \E lines : job' = [job EXCEPT ![d].step = "install", ![d].listed = lines]
    BY <1>3 DEF After, AfterId, AfterSudo, AfterMain, AfterDirect, AfterList, AfterInstall, Done
  <2>2. CASE \E step, x : Continue(d, step, x)
    BY <1>1, <2>2 DEF Continue
  <2>3. CASE \E outcome : End(d, outcome)
    BY <1>1, <2>3 DEF End
  <2>4. CASE NextStage(d)
    BY <1>1, <2>4 DEF NextStage
  <2>5. CASE \E lines : job' = [job EXCEPT ![d].step = "install", ![d].listed = lines]
    BY <1>1, <2>5
  <2>6. QED
    BY <2>1, <2>2, <2>3, <2>4, <2>5
<1>4. QED
  BY <1>2, <1>3

LEMMA EndsFailed ==
  ASSUME IInv, NEW c \in Clients, End(c, "failed")
  PROVE  job'[c].step = "failed"
<1>1. PICK j : j = [NewJob(<< >>) EXCEPT !.step = "failed"]
  OBVIOUS
<1>2. j.step = "failed"
  BY <1>1 DEF NewJob
<1>3. job' = [job EXCEPT ![c] = j] /\ job \in [Clients -> JobStates]
  BY <1>1 DEF End, IInv, Typed
<1>4. QED
  BY <1>2, <1>3

\* After a first try as the user comes one as root, never the end.
LEMMA TriesAgain ==
  ASSUME IInv, NEW c \in Clients, job[c].step = "direct", NextStage(c)
  PROVE  job'[c].step # "done"
<1>1. job[c] \in JobStates /\ job[c].plan \in Rests /\ job[c].plan # << >>
      /\ Head(job[c].plan).access = "direct"
  BY InvariantOf, StageOf DEF TheStage
<1>2. PICK plan : plan = Tail(job[c].plan)
  OBVIOUS
<1>3. FirstStep(Head(plan)) = "id"
  BY <1>1, <1>2, PlanFacts DEF FirstStep
<1>4. PICK j : j = [job[c] EXCEPT !.plan = plan, !.step = "id"]
  OBVIOUS
<1>5. j.step = "id"
  BY <1>1, <1>4 DEF JobStates
<1>6. job' = [job EXCEPT ![c] = j] /\ job \in [Clients -> JobStates]
  BY <1>2, <1>3, <1>4 DEF NextStage, IInv, Typed
<1>7. QED
  BY <1>5, <1>6

LEMMA OnlyAccepted ==
  ASSUME IInv, [Next]_vars, NEW c \in Clients, job[c].step \in {"direct", "main"},
         job'[c].step \notin {"failed", job[c].step},
         job[c].step = "direct" => job'[c].step = "done"
  PROVE  Accepted(c)
<1>1. job' # job
  OBVIOUS
<1>2. PICK d \in Clients : Begin(d) \/ After(d)
  BY <1>1 DEF Next, Process, ChangeCrontab, vars, Runs
<1>3. d = c
  BY <1>2, OthersStay
<1>4. After(c)
  BY <1>2, <1>3 DEF Begin
<1>5. CASE job[c].step = "main"
  <2>1. AfterMain(c)
    BY <1>4, <1>5 DEF After, AfterId, AfterSudo, AfterDirect, AfterList, AfterInstall
  <2>2. QED
    BY <2>1, EndsFailed DEF AfterMain
<1>6. CASE job[c].step = "direct"
  <2>1. AfterDirect(c)
    BY <1>4, <1>6 DEF After, AfterId, AfterSudo, AfterMain, AfterList, AfterInstall
  <2>2. ~End(c, "failed") /\ ~NextStage(c)
    BY <1>6, EndsFailed, TriesAgain
  <2>3. QED
    BY <2>1, <2>2 DEF AfterDirect
<1>7. QED
  BY <1>5, <1>6

LEMMA AcceptedIsWhole ==
  ASSUME IInv, NEW c \in Clients, job[c].step \in {"direct", "main"}, Accepted(c)
  PROVE  /\ TheStage(c).bounded => call[c].kept = proc[c].out
         /\ proc[c].told => /\ proc[c].ok /\ (job[c].step = "main" => proc[c].root)
                            /\ TheStage(c).program \in Readers => proc[c].read = Payload
<1>1. /\ call[c] \in CallStates /\ proc[c] \in Processes /\ Linked(call[c], proc[c])
      /\ Honest(proc[c]) /\ Staged(job[c], call[c])
  BY InvariantOf
<1>2. PICK x, p, stage : x = call[c] /\ p = proc[c] /\ stage = TheStage(c)
  OBVIOUS
<1>3. x.at = "ok" /\ (p.told => p.ok) /\ (stage.bounded => x.kept <= MaxOutput)
  BY <1>2 DEF Accepted, Succeeded, ExitStatus, CallIs, WithinBound
<1>4. /\ p.phase = "exited" /\ ~p.fresh /\ p.program = x.program /\ p.way = x.way
      /\ Suits(p.program, p.way, p.whole) /\ x.kept = Kept(x.limit, p.out) /\ Conserved(p, x.input)
  BY <1>1, <1>2, <1>3 DEF Linked, Open
<1>5. /\ x.program = stage.program /\ x.limit = Limit(stage)
      /\ job[c].step = "main" => x.way # "none" \/ host.root
  BY <1>1, <1>2 DEF Staged, TheStage
<1>6. stage.program \in {"command", "reader"}
  BY <1>2, StageOf
<1>7. ASSUME job[c].step = "main", p.told PROVE p.root
  <2>1. (Rooted(p) => p.root) /\ (p.way = "free" => p.root)
    BY <1>1, <1>2, <1>3, <1>4, <1>5, <1>6, <1>7 DEF Honest
  <2>2. p.way \in {"wrapper", "asking", "free"} \/ host.root
    BY <1>1, <1>2, <1>4, <1>5, <1>7 DEF Processes, Ways
  <2>3. QED
    BY <2>1, <2>2 DEF Rooted
<1>8. ASSUME stage.program \in Readers, p.told PROVE p.read = Payload
  <2>1. p.program = "reader"
    BY <1>4, <1>5, <1>6, <1>8 DEF Readers
  <2>2. p.read = Body(p)
    BY <1>3, <1>4, <1>8, <2>1 DEF Conserved, Readers
  <2>3. p.whole = (IF p.way = "wrapper" THEN <<Password>> ELSE << >>) \o Payload
    BY <1>4, <2>1 DEF Suits
  <2>4. Payload \in Seq(Lines)
    BY LineTypes
  <2>5. Tail(<<Password>> \o Payload) = Payload /\ << >> \o Payload = Payload
    BY <2>4
  <2>6. QED
    BY <2>2, <2>3, <2>5 DEF Body
<1>9. ASSUME stage.bounded PROVE x.kept = p.out
  <2>1. x.limit = MaxOutput + 1 /\ x.kept <= MaxOutput
    BY <1>3, <1>5, <1>9 DEF Limit
  <2>2. p.out \in Nat /\ MaxOutput \in Nat
    BY <1>1, <1>2, Constants DEF Processes
  <2>3. x.kept = IF p.out < x.limit THEN p.out ELSE x.limit
    BY <1>4 DEF Kept
  <2>4. QED
    BY <2>1, <2>2, <2>3
<1>10. QED
  BY <1>2, <1>3, <1>7, <1>8, <1>9

\* Of a stage that is taken for a success, what a bounded script said is there
\* in full, whatever ended it; and if the server said how it ended, it ran to
\* its end, as root where that was asked for, and had read all of its input
\* (execute_privileged, validate_script_output).
THEOREM SuccessIsWhole == Spec => OkIsWhole
<1> DEFINE Taken(c) ==
      job[c].step \in {"direct", "main"} /\ Returned(c) /\ job'[c].step \notin {"failed", job[c].step}
        /\ (job[c].step = "direct" => job'[c].step = "done")
      => /\ TheStage(c).bounded => call[c].kept = proc[c].out
         /\ proc[c].told => /\ proc[c].ok /\ (job[c].step = "main" => proc[c].root)
                            /\ TheStage(c).program \in Readers => proc[c].read = Payload
<1>1. IInv /\ [Next]_vars => [\A c \in Clients : Taken(c)]_vars
  <2>1. SUFFICES ASSUME IInv, [Next]_vars, NEW c \in Clients PROVE Taken(c)
    OBVIOUS
  <2>2. QED
    BY <2>1, OnlyAccepted, AcceptedIsWhole
<1>2. QED
  BY <1>1, InvariantHolds, PTL DEF Spec, OkIsWhole
====
