---------------------------- MODULE Sessions_proofs ----------------------------
(***************************************************************************)
(* Proofs about the activities with SSH sessions of their own: the trust   *)
(* in host keys, for any commands beside each other, any chains of         *)
(* bastions, and any keys and lines of known_hosts; transfers, for any     *)
(* jobs beside each other, any tree, any links in it and files of any      *)
(* length; and log streams, for any streams and any use of the viewer.     *)
(***************************************************************************)
EXTENDS HostKeys, Transfer, LogStream, FiniteSetTheorems,
        WellFoundedInduction, TLAPS

-----------------------------------------------------------------------------
(* HOST KEYS                                                               *)

-----------------------------------------------------------------------------
(* The furthest hop of an address.                                         *)

\* A bounded set of numbers has a greatest element.
LEMMA Greatest ==
  ASSUME NEW N \in Nat, NEW S \in SUBSET (1 .. N), S # {}
  PROVE  \E n \in S : \A m \in S : m <= n
<1> DEFINE Above(n) == n .. N
           T == {Above(n) : n \in S}
           R == StrictSubsetOrdering(1 .. N)
<1>1. IsWellFoundedOn(R, FiniteSubsetsOf(1 .. N))
  BY FS_StrictSubsetOrderingWellFounded
<1>2. T \subseteq FiniteSubsetsOf(1 .. N) /\ T # {}
  <2>1. \A n \in S : IsFiniteSet(n .. N) /\ n .. N \subseteq 1 .. N
    BY FS_Interval
  <2>2. QED
    BY <2>1 DEF FiniteSubsetsOf
<1>3. PICK A \in T : \A B \in T : <<B, A>> \notin R
  <2> HIDE DEF T, R
  <2> QED
    BY <1>1, <1>2, WFMin
<1>4. PICK n \in S : A = Above(n)
  OBVIOUS
<1>5. ASSUME NEW m \in S, m > n PROVE FALSE
  <2>1. /\ Above(m) \in T /\ Above(m) \subseteq Above(n) /\ Above(n) \subseteq 1 .. N
        /\ n \in Above(n) /\ n \notin Above(m)
    BY <1>5
  <2>2. <<Above(m), Above(n)>> \in R
    BY <2>1 DEF StrictSubsetOrdering
  <2>3. QED
    BY <1>3, <1>4, <2>1, <2>2
<1>6. QED
  BY <1>5

LEMMA FurthestIsCandidate ==
  ASSUME NEW N \in Nat, NEW S \in SUBSET (1 .. N), S # {}
  PROVE  Furthest(S) \in S
BY Greatest DEF Furthest

-----------------------------------------------------------------------------
(* States of a command.                                                    *)

Ats == Steps \cup {"idle", "told", "waiting", "connected", "failed"}

LEMMA NothingTyped == Nothing \in Lines /\ NoQuestion \in Questions
<1>1. Lines # {}
  <2>1. PICK a \in Addresses, k \in Keys : TRUE
    BY HostKeysAssumption DEF HostKeysAssumption
  <2>2. [addr |-> a, key |-> k] \in Lines
    BY DEF Lines
  <2>3. QED
    BY <2>2
<1>2. QED
  BY <1>1 DEF Nothing, NoQuestion, Questions

LEMMA ChainsTyped ==
  \A chain \in Chains :
    /\ Len(chain) \in Nat \ {0}
    /\ \A i \in 1 .. Len(chain) : chain[i] \in Addresses
BY HostKeysAssumption DEF HostKeysAssumption

\* A state that differs only in where it stands.
Moved(s, t, place) ==
  /\ t \in CommandStates /\ t.at = place
  /\ t.doing = s.doing /\ t.chain = s.chain /\ t.hop = s.hop /\ t.goal = s.goal
  /\ t.shown = s.shown /\ t.question = s.question /\ t.retried = s.retried
  /\ t.memory = s.memory

LEMMA AtMoves ==
  ASSUME NEW c \in Commands, cmd[c] \in CommandStates, NEW place \in Ats
  PROVE  Moved(cmd[c], At(c, place), place)
BY DEF At, Moved, CommandStates, Ats

LEMMA BegunTyped ==
  ASSUME NEW chain \in Chains
  PROVE  /\ Begun(chain) \in CommandStates
         /\ Begun(chain).at = "idle" /\ Begun(chain).doing = "connect"
         /\ Begun(chain).chain = chain /\ Begun(chain).hop = Len(chain)
         /\ Begun(chain).goal = 1
BY NothingTyped, ChainsTyped DEF Begun, CommandStates, Lines

LEMMA RetriedTyped ==
  ASSUME NEW c \in Commands, cmd[c] \in CommandStates
  PROVE  /\ Retried(c) \in CommandStates
         /\ Retried(c).at = "open" /\ Retried(c).doing = "connect"
         /\ Retried(c).chain = cmd[c].chain /\ Retried(c).hop = Len(cmd[c].chain)
         /\ Retried(c).goal = 1
BY NothingTyped, ChainsTyped DEF Retried, Begun, CommandStates, Lines, Steps

LEMMA SeekTyped ==
  ASSUME NEW c \in Commands, cmd[c] \in CommandStates,
         NEW i \in 1 .. Len(cmd[c].chain) + 1, NEW doing \in {"accept", "replace"}
  PROVE  \/ Moved(cmd[c], Seek(c, i, doing), "failed")
         \/ /\ Seek(c, i, doing) \in CommandStates
            /\ Seek(c, i, doing).at = "open" /\ Seek(c, i, doing).doing = doing
            /\ Seek(c, i, doing).chain = cmd[c].chain
            /\ Seek(c, i, doing).question = cmd[c].question
            /\ Seek(c, i, doing).hop = Len(cmd[c].chain)
            /\ Seek(c, i, doing).goal \in 1 .. Len(cmd[c].chain)
<1>1. CASE Candidates(c, i) = {}
  BY <1>1, AtMoves DEF Seek, Ats
<1>2. CASE Candidates(c, i) # {}
  <2>1. Len(cmd[c].chain) \in Nat
    BY ChainsTyped DEF CommandStates
  <2>2. Candidates(c, i) \subseteq 1 .. Len(cmd[c].chain)
    BY <2>1 DEF Candidates
  <2>3. Furthest(Candidates(c, i)) \in 1 .. Len(cmd[c].chain)
    BY <1>2, <2>1, <2>2, FurthestIsCandidate
  <2> DEFINE sought(g, n) == [cmd[c] EXCEPT !.at = "open", !.doing = doing, !.hop = n, !.goal = g]
  <2>4. ASSUME NEW g \in Nat, NEW n \in Nat
        PROVE  /\ sought(g, n) \in CommandStates
               /\ sought(g, n).at = "open" /\ sought(g, n).doing = doing
               /\ sought(g, n).chain = cmd[c].chain
               /\ sought(g, n).question = cmd[c].question
               /\ sought(g, n).hop = n /\ sought(g, n).goal = g
    BY DEF CommandStates, Steps
  <2>5. Seek(c, i, doing) = sought(Furthest(Candidates(c, i)), Len(cmd[c].chain))
    BY <1>2 DEF Seek, At, CommandStates
  <2> HIDE DEF sought
  <2>6. QED
    BY <2>1, <2>3, <2>4, <2>5
<1>3. QED
  BY <1>1, <1>2

-----------------------------------------------------------------------------
(* The inductive invariant.                                                *)

Recording == {"append", "read", "truncate", "write"}

\* What holds of a command s when the lines known are those of questions
\* answered with yes: whoever accepts or replaces a key has had its question
\* answered, and what it is going to write was asked about.
Sound(s, known) ==
  /\ s \in CommandStates
  /\ 1 <= s.goal /\ s.goal <= s.hop /\ s.hop <= Len(s.chain)
  /\ s.at \in {"told", "waiting"} => s.question # NoQuestion
  /\ s.at \in {"compare"} \cup Recording => s.doing # "connect"
  /\ s.doing # "connect" => s.question.line \in known
  /\ s.at \in Recording => s.shown = s.question.line.key
  /\ s.at \in {"truncate", "write"} => s.memory \subseteq known

AllSound == cmd \in [Commands -> CommandStates] /\ \A c \in Commands : Sound(cmd[c], granted)

WorldTyped ==
  /\ presents \in [Addresses -> Keys]
  /\ file \in SUBSET Lines
  /\ prompt \in Questions
  /\ changes \in 0 .. MaxKeyChanges /\ additions \in 0 .. MaxOthers
  /\ granted \in SUBSET Lines /\ reviewed \in SUBSET Lines /\ entered \in SUBSET Lines
  /\ replaced \in SUBSET Addresses /\ disturbed \in BOOLEAN

LEMMA SoundStays ==
  ASSUME NEW s, NEW known, NEW known2, Sound(s, known), known \subseteq known2
  PROVE  Sound(s, known2)
BY DEF Sound

\* One command takes a step.
LEMMA OneCommand ==
  ASSUME AllSound, NEW c \in Commands, NEW s, Set(c, s), Sound(s, granted'),
         granted \subseteq granted'
  PROVE  AllSound'
<1>1. cmd' = [cmd EXCEPT ![c] = s] /\ s \in CommandStates
  BY DEF Set, Sound
<1>2. ASSUME NEW d \in Commands PROVE Sound(cmd'[d], granted')
  <2>1. CASE d = c
    BY <1>1, <2>1 DEF AllSound
  <2>2. CASE d # c
    BY <1>1, <2>2, SoundStays DEF AllSound
  <2>3. QED
    BY <2>1, <2>2
<1>3. QED
  BY <1>1, <1>2 DEF AllSound

\* The commands stay as they are.
LEMMA NoCommand ==
  ASSUME AllSound, UNCHANGED cmd, granted \subseteq granted'
  PROVE  AllSound'
BY SoundStays DEF AllSound

LEMMA HopTyped ==
  ASSUME NEW c \in Commands, NEW known, Sound(cmd[c], known)
  PROVE  Hop(c) \in Addresses /\ Asked(c) \in Lines /\ cmd[c].shown \in Keys
<1>1. cmd[c].hop \in 1 .. Len(cmd[c].chain) /\ cmd[c].chain \in Chains
  BY DEF Sound, CommandStates
<1>2. cmd[c].question \in Questions /\ cmd[c].shown \in Keys
  BY DEF Sound, CommandStates
<1>3. QED
  BY <1>1, <1>2, ChainsTyped, NothingTyped DEF Hop, Asked, Questions, NoQuestion

LEMMA InitSound == TrustInit => AllSound /\ WorldTyped /\ TrustIsGranted
<1> SUFFICES ASSUME TrustInit PROVE AllSound /\ WorldTyped /\ TrustIsGranted
  OBVIOUS
<1>1. PICK chains \in [Commands -> Chains] : cmd = [c \in Commands |-> Begun(chains[c])]
  BY DEF TrustInit
<1>2. ASSUME NEW c \in Commands PROVE Sound(cmd[c], granted)
  BY <1>1, BegunTyped, ChainsTyped DEF Sound, Recording
<1>3. AllSound
  BY <1>1, <1>2, BegunTyped DEF AllSound
<1>4. presents \in [Addresses -> Keys] /\ file \in SUBSET Lines
  BY HostKeysAssumption DEF HostKeysAssumption, TrustInit, Lines
<1>5. changes \in 0 .. MaxKeyChanges /\ additions \in 0 .. MaxOthers
  BY HostKeysAssumption DEF HostKeysAssumption, TrustInit
<1>6. WorldTyped /\ TrustIsGranted
  BY <1>4, <1>5, NothingTyped DEF TrustInit, WorldTyped, TrustIsGranted
<1>7. QED
  BY <1>3, <1>6

\* The steps of a command.
LEMMA StepSound ==
  ASSUME AllSound, WorldTyped, TrustIsGranted, [TrustNext]_trustVars
  PROVE  AllSound'
<1>0. CASE UNCHANGED trustVars
  BY <1>0, NoCommand DEF trustVars, vouched
<1>1. ASSUME NEW c \in Commands PROVE Sound(cmd[c], granted) /\ cmd[c] \in CommandStates
  BY DEF AllSound, Sound
<1>2. ASSUME NEW c \in Commands, NEW place \in {"open", "verify", "connected", "failed", "idle", "compare"},
             place = "compare" => cmd[c].doing # "connect"
      PROVE  Moved(cmd[c], At(c, place), place) /\ Sound(At(c, place), granted)
  <2>1. Moved(cmd[c], At(c, place), place)
    BY <1>1, AtMoves DEF Ats, Steps
  <2>2. QED
    BY <1>1, <1>2, <2>1 DEF Sound, Moved, Recording
<1>3. ASSUME NEW c \in Commands, Start(c) PROVE AllSound'
  BY <1>2, <1>3, OneCommand DEF Start, vouched
<1>4. ASSUME NEW c \in Commands, Open(c) PROVE AllSound'
  <2> DEFINE to == IF cmd[c].doing # "connect" /\ AtGoal(c) THEN "compare" ELSE "verify"
             s == [cmd[c] EXCEPT !.shown = presents[Hop(c)], !.at = to]
  <2>1. presents[Hop(c)] \in Keys /\ to \in Steps /\ (to = "compare" => cmd[c].doing # "connect")
    BY <1>1, HopTyped DEF WorldTyped, Steps
  <2>2. Set(c, s)
    BY <1>4 DEF Open, vouched
  <2> HIDE DEF to
  <2>3. /\ s \in CommandStates /\ s.at = to
        /\ s.doing = cmd[c].doing /\ s.chain = cmd[c].chain /\ s.hop = cmd[c].hop
        /\ s.goal = cmd[c].goal /\ s.question = cmd[c].question
    BY <1>1, <2>1 DEF CommandStates
  <2>4. to \in {"compare", "verify"}
    BY DEF to
  <2> HIDE DEF s
  <2>5. Sound(s, granted)
    BY <1>1, <2>1, <2>3, <2>4 DEF Sound, Recording
  <2>6. QED
    BY <1>4, <2>2, <2>5, OneCommand DEF Open, vouched
<1>5. ASSUME NEW c \in Commands, Verify(c) PROVE AllSound'
  <2>1. CASE AtGoal(c)
    BY <1>2, <1>5, <2>1, OneCommand DEF Verify, vouched
  <2>2. CASE ~AtGoal(c)
    <3> DEFINE s == [At(c, "open") EXCEPT !.hop = @ - 1]
    <3>1. Moved(cmd[c], At(c, "open"), "open") /\ Sound(At(c, "open"), granted)
      BY <1>2
    <3>2. At(c, "open").hop - 1 \in Nat /\ cmd[c].goal <= cmd[c].hop - 1
      BY <1>1, <2>2, <3>1 DEF AtGoal, Sound, CommandStates, Moved
    <3>3. s \in CommandStates /\ s.at = "open" /\ s.hop = cmd[c].hop - 1
      BY <3>1, <3>2 DEF CommandStates, Moved, Steps
    <3>4. /\ s.doing = cmd[c].doing /\ s.chain = cmd[c].chain
          /\ s.goal = cmd[c].goal /\ s.question = cmd[c].question
      BY <3>1 DEF CommandStates, Moved
    <3>5. Set(c, s)
      BY <1>5, <2>2 DEF Verify, vouched
    <3> HIDE DEF s
    <3>6. Sound(s, granted)
      BY <1>1, <3>2, <3>3, <3>4 DEF Sound, Recording, CommandStates
    <3>7. QED
      BY <1>5, <3>5, <3>6, OneCommand DEF Verify, vouched
  <2>3. QED
    BY <2>1, <2>2
<1>6. ASSUME NEW c \in Commands, Refuse(c) PROVE AllSound'
  <2> DEFINE kind == CheckPort(file, Hop(c), cmd[c].shown)
             question == [kind |-> kind, line |-> Line(Hop(c), cmd[c].shown)]
             to == IF ReachesUser(c) THEN "told" ELSE "failed"
  <2>1. CASE cmd[c].doing = "connect" /\ ~cmd[c].retried
    <3> DEFINE s == [At(c, to) EXCEPT !.question = question]
    <3>1. kind \in {"unknown", "mismatch"}
      BY <1>6 DEF Refuse, CheckPort, vouched
    <3>2. question \in Questions /\ question # NoQuestion
      BY <1>1, <3>1, HopTyped DEF Questions, NoQuestion, Lines, Line
    <3>3. to \in {"told", "failed"}
      OBVIOUS
    <3>4. Set(c, s)
      BY <1>6, <2>1 DEF Refuse, vouched
    <3> HIDE DEF question, to
    <3>5. Moved(cmd[c], At(c, to), to)
      BY <1>1, <3>3, AtMoves DEF Ats
    <3>6. /\ s \in CommandStates /\ s.at = to /\ s.question = question
          /\ s.doing = cmd[c].doing /\ s.chain = cmd[c].chain /\ s.hop = cmd[c].hop
          /\ s.goal = cmd[c].goal
      BY <3>2, <3>5 DEF CommandStates, Moved
    <3> HIDE DEF s
    <3>7. Sound(s, granted)
      BY <1>1, <2>1, <3>2, <3>3, <3>6 DEF Sound, Recording
    <3>8. QED
      BY <1>6, <3>4, <3>7, OneCommand DEF Refuse, vouched
  <2>2. CASE ~ (cmd[c].doing = "connect" /\ ~cmd[c].retried)
    BY <1>2, <1>6, <2>2, OneCommand DEF Refuse, vouched
  <2>3. QED
    BY <2>1, <2>2
<1>7. ASSUME NEW c \in Commands, Fail(c) PROVE AllSound'
  BY <1>2, <1>7, OneCommand DEF Fail, vouched
<1>8. ASSUME NEW c \in Commands, Ask(c) PROVE AllSound'
  <2>1. Moved(cmd[c], At(c, "waiting"), "waiting") /\ cmd[c].at = "told"
    BY <1>1, <1>8, AtMoves DEF Ats, Ask, vouched
  <2>2. granted' = granted
    BY <1>8 DEF Ask, vouched
  <2>3. Sound(At(c, "waiting"), granted')
    BY <1>1, <2>1, <2>2 DEF Sound, Moved, Recording
  <2>4. QED
    BY <1>8, <2>2, <2>3, OneCommand DEF Ask, vouched
<1>9. ASSUME NEW trust \in BOOLEAN, Answer(trust) PROVE AllSound'
  <2>1. /\ cmd' = [c \in Commands |-> IF cmd[c].at = "waiting" THEN Answered(c, trust) ELSE cmd[c]]
        /\ granted' = IF trust THEN granted \cup Waiting ELSE granted
    BY <1>9 DEF Answer, vouched
  <2>2. ASSUME NEW c \in Commands, cmd[c].at = "waiting"
        PROVE  Sound(Answered(c, trust), granted')
    <3>1. CASE ~trust
      BY <1>2, <2>1, <3>1, SoundStays DEF Answered, Sound, Moved
    <3>2. CASE trust
      <4> DEFINE doing == IF cmd[c].question.kind = "unknown" THEN "accept" ELSE "replace"
                 s == Seek(c, Len(cmd[c].chain) + 1, doing)
      <4>1. doing \in {"accept", "replace"} /\ Answered(c, trust) = s
        BY <3>2 DEF Answered
      <4>2. Len(cmd[c].chain) \in Nat \ {0}
        BY <1>1, ChainsTyped DEF CommandStates
      <4> HIDE DEF doing
      <4>3. \/ Moved(cmd[c], s, "failed")
            \/ /\ s \in CommandStates /\ s.at = "open" /\ s.doing = doing
               /\ s.chain = cmd[c].chain /\ s.question = cmd[c].question
               /\ s.hop = Len(cmd[c].chain) /\ s.goal \in 1 .. Len(cmd[c].chain)
        BY <1>1, <4>1, <4>2, SeekTyped
      <4>4. cmd[c].question.line \in granted'
        BY <2>1, <2>2, <3>2 DEF Waiting, Asked
      <4> HIDE DEF s
      <4>5. Sound(s, granted')
        BY <1>1, <4>2, <4>3, <4>4 DEF Sound, Moved, Recording
      <4>6. QED
        BY <4>1, <4>5
    <3>3. QED
      BY <3>1, <3>2
  <2>3. ASSUME NEW c \in Commands, cmd[c].at # "waiting"
        PROVE  Sound(cmd[c], granted')
    BY <1>1, <2>1, <2>3 DEF Sound
  <2>4. ASSUME NEW c \in Commands PROVE Sound(cmd'[c], granted')
    BY <2>1, <2>2, <2>3
  <2>5. QED
    BY <2>1, <2>4 DEF AllSound, Sound
<1>10. ASSUME NEW c \in Commands, Compare(c) PROVE AllSound'
  <2> DEFINE to == IF cmd[c].doing = "accept" THEN "append" ELSE "read"
  <2>1. to \in {"append", "read"}
    OBVIOUS
  <2>2. Set(c, At(c, to)) /\ granted' = granted
    BY <1>10 DEF Compare, vouched
  <2> HIDE DEF to
  <2>3. Moved(cmd[c], At(c, to), to)
    BY <1>1, <2>1, AtMoves DEF Ats, Steps
  <2>4. cmd[c].at = "compare" /\ cmd[c].shown = cmd[c].question.line.key
    BY <1>10 DEF Compare, SameKey, Asked, vouched
  <2>5. Sound(At(c, to), granted)
    BY <1>1, <2>1, <2>3, <2>4 DEF Sound, Moved, Recording
  <2>6. QED
    BY <2>2, <2>5, OneCommand
<1>11. ASSUME NEW c \in Commands, CompareFails(c) PROVE AllSound'
  <2>1. CASE cmd[c].doing = "replace" /\ CheckPort(file, Hop(c), cmd[c].shown) = "match"
    <3> DEFINE s == Seek(c, cmd[c].goal, "replace")
    <3>1. Set(c, s) /\ granted' = granted
      BY <1>11, <2>1 DEF CompareFails, vouched
    <3>2. Len(cmd[c].chain) \in Nat \ {0} /\ cmd[c].goal \in 1 .. Len(cmd[c].chain) + 1
      BY <1>1, ChainsTyped DEF Sound, CommandStates
    <3>3. \/ Moved(cmd[c], s, "failed")
          \/ /\ s \in CommandStates /\ s.at = "open" /\ s.doing = "replace"
             /\ s.chain = cmd[c].chain /\ s.question = cmd[c].question
             /\ s.hop = Len(cmd[c].chain) /\ s.goal \in 1 .. Len(cmd[c].chain)
      BY <1>1, <3>2, SeekTyped
    <3> HIDE DEF s
    <3>4. Sound(s, granted)
      BY <1>1, <2>1, <3>2, <3>3 DEF Sound, Moved, Recording
    <3>5. QED
      BY <3>1, <3>4, OneCommand
  <2>2. CASE ~ (cmd[c].doing = "replace" /\ CheckPort(file, Hop(c), cmd[c].shown) = "match")
    BY <1>2, <1>11, <2>2, OneCommand DEF CompareFails, vouched
  <2>3. QED
    BY <2>1, <2>2
<1>12. ASSUME NEW c \in Commands PROVE Sound(Retried(c), granted)
  BY <1>1, RetriedTyped, ChainsTyped DEF Sound, Recording, CommandStates
<1>13. ASSUME NEW c \in Commands, Record(c) \/ WriteBack(c) PROVE AllSound'
  BY <1>12, <1>13, OneCommand DEF Record, WriteBack, vouched
<1>14. ASSUME NEW c \in Commands, Read(c) PROVE AllSound'
  <2> DEFINE line == Line(Asked(c).addr, cmd[c].shown)
             memory == OtherLines(file, line) \cup {line}
             s == [At(c, "truncate") EXCEPT !.memory = memory]
  <2>1. CASE CheckPort(file, line.addr, line.key) = "unknown"
    BY <1>2, <1>14, <2>1, OneCommand DEF Read, vouched
  <2>2. CASE ~ (CheckPort(file, line.addr, line.key) = "unknown")
    <3>1. Set(c, s) /\ granted' = granted
      BY <1>14, <2>2 DEF Read, vouched
    <3>2. cmd[c].doing # "connect" /\ Asked(c) \in granted /\ cmd[c].shown = Asked(c).key
      BY <1>1, <1>14 DEF Read, Sound, Recording, Asked, vouched
    <3>3. line = Asked(c)
      BY <1>1, <3>2, HopTyped DEF Lines, Line
    <3>4. memory \subseteq granted /\ memory \in SUBSET Lines
      BY <3>2, <3>3 DEF OtherLines, TrustIsGranted, WorldTyped
    <3>5. Moved(cmd[c], At(c, "truncate"), "truncate")
      BY <1>1, AtMoves DEF Ats, Steps
    <3> HIDE DEF memory
    <3>6. /\ s \in CommandStates /\ s.at = "truncate" /\ s.memory = memory
          /\ s.doing = cmd[c].doing /\ s.chain = cmd[c].chain /\ s.hop = cmd[c].hop
          /\ s.goal = cmd[c].goal /\ s.question = cmd[c].question /\ s.shown = cmd[c].shown
      BY <3>4, <3>5 DEF CommandStates, Moved
    <3> HIDE DEF s
    <3>7. Sound(s, granted)
      BY <1>1, <3>2, <3>4, <3>6 DEF Sound, Recording, Asked
    <3>8. QED
      BY <3>1, <3>7, OneCommand
  <2>3. QED
    BY <2>1, <2>2
<1>15. ASSUME NEW c \in Commands, Truncate(c) PROVE AllSound'
  <2>1. Moved(cmd[c], At(c, "write"), "write") /\ cmd[c].at = "truncate"
    BY <1>1, <1>15, AtMoves DEF Ats, Steps, Truncate, vouched
  <2>2. Sound(At(c, "write"), granted)
    BY <1>1, <2>1 DEF Sound, Moved, Recording
  <2>3. QED
    BY <1>15, <2>2, OneCommand DEF Truncate, vouched
<1>16. ASSUME NEW c \in Commands, WriteFails(c) PROVE AllSound'
  BY <1>2, <1>16, OneCommand DEF WriteFails, vouched
<1>17. CASE ChangeKey
  BY <1>17, NoCommand DEF ChangeKey, vouched
<1>18. CASE AddLine
  BY <1>18, NoCommand DEF AddLine, vouched
<1>19. QED
  BY <1>0, <1>3, <1>4, <1>5, <1>6, <1>7, <1>8, <1>9, <1>10, <1>11, <1>13, <1>14, <1>15,
     <1>16, <1>17, <1>18 DEF TrustNext, vouched

\* What a command records is the line of its question, answered with yes.
LEMMA RecordsGranted ==
  ASSUME AllSound, NEW c \in Commands, cmd[c].at \in Recording
  PROVE  /\ Asked(c) \in granted /\ Asked(c) \in Lines
         /\ Line(Asked(c).addr, cmd[c].shown) = Asked(c)
         /\ cmd[c].at \in {"truncate", "write"} => cmd[c].memory \subseteq granted
<1>1. Sound(cmd[c], granted)
  BY DEF AllSound
<1>2. Asked(c) \in granted /\ Asked(c) \in Lines /\ cmd[c].shown = Asked(c).key
  BY <1>1, HopTyped DEF Sound, Asked
<1>3. QED
  BY <1>1, <1>2 DEF Sound, Lines, Line

LEMMA StepsOfFile ==
  [TrustNext]_trustVars =>
    \/ UNCHANGED <<file, granted, entered, replaced>>
    \/ UNCHANGED <<file, entered, replaced>> /\ \E trust \in BOOLEAN : Answer(trust)
    \/ \E c \in Commands : Record(c) \/ Truncate(c) \/ WriteBack(c) \/ WriteFails(c)
    \/ AddLine
<1>1. CASE UNCHANGED trustVars
  BY <1>1 DEF trustVars, vouched, history
<1>2. ASSUME NEW c \in Commands,
             \/ Start(c) \/ Open(c) \/ Verify(c) \/ Refuse(c) \/ Fail(c) \/ Ask(c)
             \/ Compare(c) \/ CompareFails(c) \/ Read(c)
      PROVE  UNCHANGED <<file, granted, entered, replaced>>
  BY <1>2 DEF Start, Open, Verify, Refuse, Fail, Ask, Compare, CompareFails, Read,
              vouched, history
<1>3. CASE ChangeKey
  BY <1>3 DEF ChangeKey, vouched, history
<1>4. ASSUME NEW trust \in BOOLEAN, Answer(trust)
      PROVE  UNCHANGED <<file, entered, replaced>>
  BY <1>4 DEF Answer, history
<1>5. QED
  BY <1>1, <1>2, <1>3, <1>4 DEF TrustNext

\* No answer is forgotten.
LEMMA StepGranted ==
  ASSUME AllSound, WorldTyped, TrustIsGranted, [TrustNext]_trustVars
  PROVE  TrustIsGranted'
<1> USE DEF TrustIsGranted
<1>1. CASE UNCHANGED <<file, granted, entered, replaced>>
  BY <1>1
<1>2. ASSUME NEW trust \in BOOLEAN, Answer(trust) PROVE TrustIsGranted'
  BY <1>2 DEF Answer, vouched
<1>3. ASSUME NEW c \in Commands, Record(c) PROVE TrustIsGranted'
  BY <1>3, RecordsGranted DEF Record, Recording, vouched
<1>4. ASSUME NEW c \in Commands, Truncate(c) PROVE TrustIsGranted'
  BY <1>4 DEF Truncate, vouched
<1>5. ASSUME NEW c \in Commands, WriteBack(c) PROVE TrustIsGranted'
  BY <1>5, RecordsGranted DEF WriteBack, Recording, vouched
<1>6. ASSUME NEW c \in Commands, WriteFails(c) PROVE TrustIsGranted'
  BY <1>6, RecordsGranted DEF WriteFails, Recording, vouched
<1>7. CASE AddLine
  BY <1>7 DEF AddLine, vouched
<1>8. QED
  BY <1>1, <1>2, <1>2, <1>3, <1>4, <1>5, <1>6, <1>7, StepsOfFile

LEMMA StepWorldTyped ==
  ASSUME AllSound, WorldTyped, [TrustNext]_trustVars
  PROVE  WorldTyped'
<1> USE DEF WorldTyped
<1>1. ASSUME NEW c \in Commands
      PROVE  Asked(c) \in Lines /\ Asked(c).addr \in Addresses /\ cmd[c].question \in Questions
             /\ cmd[c].memory \in SUBSET Lines
  BY HopTyped DEF AllSound, Sound, CommandStates, Lines
<1>2. CASE UNCHANGED trustVars
  BY <1>2 DEF trustVars, hosts, history, vouched
<1>3. ASSUME NEW c \in Commands,
             \/ Start(c) \/ Open(c) \/ Verify(c) \/ Refuse(c) \/ Fail(c)
             \/ Compare(c) \/ CompareFails(c)
      PROVE  WorldTyped'
  BY <1>3 DEF Start, Open, Verify, Refuse, Fail, Compare, CompareFails, hosts, history, vouched
<1>4. ASSUME NEW c \in Commands, Ask(c) PROVE WorldTyped'
  BY <1>1, <1>4 DEF Ask, hosts, history, vouched
<1>5. ASSUME NEW trust \in BOOLEAN, Answer(trust) PROVE WorldTyped'
  <2>1. prompt.line \in Lines
    BY <1>5, NothingTyped DEF Answer, Questions, NoQuestion, vouched
  <2>2. Waiting \in SUBSET Lines
    BY <1>1 DEF Waiting
  <2>3. QED
    BY <1>5, <2>1, <2>2, NothingTyped DEF Answer, hosts, history
<1>6. ASSUME NEW c \in Commands, Record(c) PROVE WorldTyped'
  BY <1>1, <1>6, RecordsGranted DEF Record, Recording, hosts, vouched
<1>7. ASSUME NEW c \in Commands, Read(c) PROVE WorldTyped'
  BY <1>7 DEF Read, hosts, vouched
<1>8. ASSUME NEW c \in Commands, Truncate(c) PROVE WorldTyped'
  BY <1>8 DEF Truncate, hosts, history, vouched
<1>9. ASSUME NEW c \in Commands, WriteBack(c) PROVE WorldTyped'
  BY <1>1, <1>9 DEF WriteBack, hosts, vouched
<1>10. ASSUME NEW c \in Commands, WriteFails(c) PROVE WorldTyped'
  BY <1>1, <1>10 DEF WriteFails, hosts, vouched
<1>11. CASE ChangeKey
  BY <1>11, HostKeysAssumption DEF HostKeysAssumption, ChangeKey, history, vouched
<1>12. CASE AddLine
  <2>1. \A a \in Addresses : Line(a, presents[a]) \in Lines
    BY DEF Line, Lines
  <2>2. additions' \in 0 .. MaxOthers
    BY <1>12, HostKeysAssumption DEF HostKeysAssumption, AddLine, vouched
  <2>3. QED
    BY <1>12, <2>1, <2>2 DEF AddLine, hosts, vouched
<1>13. QED
  BY <1>2, <1>3, <1>4, <1>5, <1>6, <1>7, <1>8, <1>9, <1>10, <1>11, <1>12 DEF TrustNext, vouched

-----------------------------------------------------------------------------
(* Rewriting known_hosts.                                                  *)

\* A line is not lost, or was lost to the replacement of its address.
Kept(l, lines) == l \in lines \/ \E a \in replaced : l.addr \in Answering(a)

\* Undisturbed, at most one command rewrites, and what it has in memory
\* lacks only lines it replaces.
RewritesAlone ==
  ~disturbed =>
    /\ \A c, d \in Commands : Rewriting(c) /\ Rewriting(d) => c = d
    /\ \A c \in Commands : Rewriting(c) =>
         \A l \in entered : Kept(l, cmd[c].memory) \/ l.addr \in Answering(Asked(c).addr)

\* A step that begins no rewrite and ends no write.
RewritersStay ==
  /\ \A c \in Commands : Rewriting(c)' =>
       Rewriting(c) /\ cmd'[c].memory = cmd[c].memory /\ Asked(c)' = Asked(c)
  /\ \A c \in Commands : cmd'[c].at = "write" <=> cmd[c].at = "write"

LEMMA OneStays ==
  ASSUME AllSound, NEW c \in Commands, NEW s, Set(c, s),
         s.at \notin {"truncate", "write"}, cmd[c].at # "write"
  PROVE  RewritersStay
<1>1. cmd' = [cmd EXCEPT ![c] = s] /\ cmd \in [Commands -> CommandStates]
  BY DEF Set, AllSound
<1>2. cmd'[c] = s /\ \A d \in Commands \ {c} : cmd'[d] = cmd[d]
  BY <1>1
<1>3. QED
  BY <1>2 DEF RewritersStay, Rewriting, Asked

LEMMA StepsOfRewriting ==
  ASSUME AllSound, WorldTyped, [TrustNext]_trustVars
  PROVE  \/ RewritersStay
         \/ \E c \in Commands : Read(c) \/ Truncate(c) \/ WriteBack(c) \/ WriteFails(c)
<1>0. CASE UNCHANGED cmd
  BY <1>0 DEF RewritersStay, Rewriting, Asked
<1>1. ASSUME NEW c \in Commands
      PROVE  /\ Sound(cmd[c], granted) /\ cmd[c] \in CommandStates
             /\ Len(cmd[c].chain) \in Nat \ {0}
  BY ChainsTyped DEF AllSound, Sound, CommandStates
<1>2. ASSUME NEW c \in Commands, NEW place \in Ats PROVE At(c, place).at = place
  BY <1>1, <1>2, AtMoves DEF Moved
<1>3. ASSUME NEW c \in Commands, NEW i \in 1 .. Len(cmd[c].chain) + 1,
             NEW doing \in {"accept", "replace"}
      PROVE  Seek(c, i, doing).at \in {"open", "failed"}
  BY <1>1, SeekTyped DEF Moved
<1>4. ASSUME NEW c \in Commands, Start(c) PROVE RewritersStay
  BY <1>2, <1>4, OneStays DEF Start, Ats, Steps, vouched
<1>5. ASSUME NEW c \in Commands, Open(c) PROVE RewritersStay
  <2> DEFINE to == IF cmd[c].doing # "connect" /\ AtGoal(c) THEN "compare" ELSE "verify"
             s == [cmd[c] EXCEPT !.shown = presents[Hop(c)], !.at = to]
  <2>1. Set(c, s) /\ cmd[c].at = "open" /\ to \notin {"truncate", "write"}
    BY <1>5 DEF Open, vouched
  <2> HIDE DEF to
  <2>2. s.at = to
    BY <1>1 DEF CommandStates
  <2> HIDE DEF s
  <2>3. QED
    BY <2>1, <2>2, OneStays
<1>6. ASSUME NEW c \in Commands, Verify(c) PROVE RewritersStay
  <2>1. At(c, "open") \in CommandStates /\ At(c, "open").at = "open"
    BY <1>1, AtMoves DEF Moved, Ats, Steps
  <2>2. [At(c, "open") EXCEPT !.hop = @ - 1].at = "open"
    BY <2>1 DEF CommandStates
  <2>3. At(c, "connected").at = "connected"
    BY <1>2 DEF Ats
  <2>4. QED
    BY <1>6, <2>2, <2>3, OneStays DEF Verify, vouched
<1>7. ASSUME NEW c \in Commands, Refuse(c) PROVE RewritersStay
  <2> DEFINE to == IF ReachesUser(c) THEN "told" ELSE "failed"
             question == [kind |-> CheckPort(file, Hop(c), cmd[c].shown),
                          line |-> Line(Hop(c), cmd[c].shown)]
  <2>1. to \in {"told", "failed"}
    OBVIOUS
  <2>2. \/ Set(c, [At(c, to) EXCEPT !.question = question])
        \/ Set(c, At(c, "failed"))
    BY <1>7 DEF Refuse, vouched
  <2> HIDE DEF to, question
  <2>3. At(c, to) \in CommandStates /\ At(c, to).at = to
    BY <1>1, <2>1, AtMoves DEF Moved, Ats
  <2>4. [At(c, to) EXCEPT !.question = question].at = to
    BY <2>3 DEF CommandStates
  <2>5. At(c, "failed").at = "failed" /\ cmd[c].at = "verify"
    BY <1>2, <1>7 DEF Ats, Refuse, vouched
  <2>6. QED
    BY <2>1, <2>2, <2>4, <2>5, OneStays
<1>8. ASSUME NEW c \in Commands, Fail(c) PROVE RewritersStay
  BY <1>2, <1>8, OneStays DEF Fail, Ats, vouched
<1>9. ASSUME NEW c \in Commands, Ask(c) PROVE RewritersStay
  BY <1>2, <1>9, OneStays DEF Ask, Ats, vouched
<1>10. ASSUME NEW trust \in BOOLEAN, Answer(trust) PROVE RewritersStay
  <2>1. cmd' = [c \in Commands |-> IF cmd[c].at = "waiting" THEN Answered(c, trust) ELSE cmd[c]]
    BY <1>10 DEF Answer, vouched
  <2>2. ASSUME NEW c \in Commands, cmd[c].at = "waiting"
        PROVE  cmd'[c].at \in {"open", "failed"}
    <3> DEFINE doing == IF cmd[c].question.kind = "unknown" THEN "accept" ELSE "replace"
    <3>1. Answered(c, trust) = IF trust THEN Seek(c, Len(cmd[c].chain) + 1, doing) ELSE At(c, "failed")
      BY DEF Answered
    <3>2. doing \in {"accept", "replace"} /\ Len(cmd[c].chain) + 1 \in 1 .. Len(cmd[c].chain) + 1
      BY <1>1
    <3> HIDE DEF doing
    <3>3. Seek(c, Len(cmd[c].chain) + 1, doing).at \in {"open", "failed"}
      BY <1>3, <3>2
    <3>4. At(c, "failed").at = "failed"
      BY <1>2 DEF Ats
    <3>5. QED
      BY <2>1, <2>2, <3>1, <3>3, <3>4
  <2>3. ASSUME NEW c \in Commands, cmd[c].at # "waiting" PROVE cmd'[c] = cmd[c]
    BY <2>1, <2>3
  <2>4. QED
    BY <2>2, <2>3 DEF RewritersStay, Rewriting, Asked
<1>11. ASSUME NEW c \in Commands, Compare(c) PROVE RewritersStay
  <2>1. At(c, "append").at = "append" /\ At(c, "read").at = "read"
    BY <1>2 DEF Ats, Steps
  <2>2. QED
    BY <1>11, <2>1, OneStays DEF Compare, vouched
<1>12. ASSUME NEW c \in Commands, CompareFails(c) PROVE RewritersStay
  <2>1. At(c, "failed").at = "failed"
    BY <1>2 DEF Ats
  <2>2. cmd[c].goal \in 1 .. Len(cmd[c].chain) + 1
    BY <1>1 DEF Sound, CommandStates
  <2>3. Seek(c, cmd[c].goal, "replace").at \in {"open", "failed"}
    BY <1>3, <2>2
  <2>4. QED
    BY <1>12, <2>1, <2>3, OneStays DEF CompareFails, vouched
<1>13. ASSUME NEW c \in Commands, Record(c) PROVE RewritersStay
  BY <1>1, <1>13, RetriedTyped, OneStays DEF Record, vouched
<1>14. CASE ChangeKey \/ AddLine
  BY <1>0, <1>14 DEF ChangeKey, AddLine, vouched
<1>15. QED
  BY <1>0, <1>4, <1>5, <1>6, <1>7, <1>8, <1>9, <1>10, <1>11, <1>12, <1>13, <1>14
     DEF TrustNext, trustVars, vouched

LEMMA ReadState ==
  ASSUME AllSound, WorldTyped, NEW c \in Commands, Read(c)
  PROVE  /\ \A d \in Commands \ {c} : cmd'[d] = cmd[d]
         /\ cmd'[c].at \in {"truncate", "failed"}
         /\ cmd'[c].at = "truncate" =>
              Asked(c)' = Asked(c) /\ cmd'[c].memory = OtherLines(file, Asked(c)) \cup {Asked(c)}
<1> DEFINE line == Line(Asked(c).addr, cmd[c].shown)
           memory == OtherLines(file, line) \cup {line}
           s == [At(c, "truncate") EXCEPT !.memory = memory]
<1>1. cmd \in [Commands -> CommandStates] /\ cmd[c] \in CommandStates
  BY DEF AllSound
<1>2. line = Asked(c) /\ Asked(c) \in Lines
  BY RecordsGranted DEF Read, Recording, vouched
<1>3. At(c, "failed").at = "failed"
  BY <1>1, AtMoves DEF Ats, Moved
<1>4. Moved(cmd[c], At(c, "truncate"), "truncate")
  BY <1>1, AtMoves DEF Ats, Steps
<1>5. memory \in SUBSET Lines /\ memory = OtherLines(file, Asked(c)) \cup {Asked(c)}
  BY <1>2 DEF OtherLines, WorldTyped
<1>6. cmd' = [cmd EXCEPT ![c] = s] \/ cmd' = [cmd EXCEPT ![c] = At(c, "failed")]
  BY DEF Read, Set, vouched
<1> HIDE DEF memory
<1>7. s.at = "truncate" /\ s.question = cmd[c].question /\ s.memory = memory
  BY <1>4, <1>5 DEF Moved, CommandStates
<1> HIDE DEF s
<1>8. QED
  BY <1>1, <1>3, <1>5, <1>6, <1>7 DEF Asked

LEMMA SetState ==
  ASSUME AllSound, NEW c \in Commands, NEW s, Set(c, s)
  PROVE  cmd'[c] = s /\ \A d \in Commands \ {c} : cmd'[d] = cmd[d]
BY DEF AllSound, Set

Survival == RewritesAlone /\ LinesSurvive

LEMMA StepSurvives ==
  ASSUME AllSound, WorldTyped, Survival, [TrustNext]_trustVars
  PROVE  Survival'
<1>1. ASSUME NEW c \in Commands PROVE cmd[c] \in CommandStates
  BY DEF AllSound
<1>2. CASE RewritersStay /\ UNCHANGED <<file, entered, replaced, disturbed>>
  BY <1>2 DEF Survival, RewritesAlone, LinesSurvive, RewritersStay, Kept
<1>3. CASE /\ RewritersStay /\ UNCHANGED replaced
           /\ \E l \in Lines : file' = file \cup {l} /\ entered' = entered \cup {l}
           /\ disturbed \/ (\E c \in Commands : Rewriting(c)') => disturbed'
  <2>1. PICK l \in Lines : file' = file \cup {l} /\ entered' = entered \cup {l}
    BY <1>3
  <2>2. CASE disturbed'
    BY <2>2 DEF Survival, RewritesAlone, LinesSurvive
  <2>3. CASE ~disturbed'
    <3>1. ~disturbed /\ \A c \in Commands : ~Rewriting(c)'
      BY <1>3, <2>3
    <3>2. \A c \in Commands : cmd'[c].at # "write" /\ cmd[c].at # "write"
      BY <1>3, <3>1 DEF RewritersStay, Rewriting
    <3>3. QED
      BY <1>3, <2>1, <3>1, <3>2 DEF Survival, RewritesAlone, LinesSurvive
  <2>4. QED
    BY <2>2, <2>3
<1>4. ASSUME NEW c \in Commands, Record(c) PROVE Survival'
  <2>1. RewritersStay
    BY <1>1, <1>4, RetriedTyped, OneStays DEF Record, vouched
  <2>2. cmd'[c].at = "open" /\ \A d \in Commands \ {c} : cmd'[d] = cmd[d]
    BY <1>1, <1>4, RetriedTyped, SetState DEF Record, vouched
  <2>3. disturbed \/ (\E d \in Commands : Rewriting(d)') => disturbed'
    BY <1>4, <2>2 DEF Record, SomebodyElseRewrites, Rewriting, vouched
  <2>4. Asked(c) \in Lines /\ Line(Asked(c).addr, cmd[c].shown) = Asked(c)
    BY <1>4, RecordsGranted DEF Record, Recording, vouched
  <2>5. QED
    BY <1>3, <1>4, <2>1, <2>3, <2>4 DEF Record, vouched
<1>5. CASE AddLine
  <2>1. PICK a \in Addresses : /\ file' = file \cup {Line(a, presents[a])}
                               /\ entered' = entered \cup {Line(a, presents[a])}
    BY <1>5 DEF AddLine, vouched
  <2>2. Line(a, presents[a]) \in Lines
    BY DEF WorldTyped, Line, Lines
  <2>3. RewritersStay /\ UNCHANGED replaced
    BY <1>5 DEF AddLine, RewritersStay, Rewriting, Asked, vouched
  <2>4. disturbed \/ (\E c \in Commands : Rewriting(c)') => disturbed'
    BY <1>5 DEF AddLine, Rewriting, vouched
  <2>5. QED
    BY <1>3, <2>1, <2>2, <2>3, <2>4
<1>6. ASSUME NEW c \in Commands, Read(c) PROVE Survival'
  <2>1. CASE disturbed'
    BY <2>1 DEF Survival, RewritesAlone, LinesSurvive
  <2>2. CASE ~disturbed'
    <3>1. ~disturbed /\ \A d \in Commands \ {c} : ~Rewriting(d)
      BY <1>6, <2>2 DEF Read, SomebodyElseRewrites, vouched
    <3>2. cmd[c].at = "read" /\ UNCHANGED <<file, entered, replaced>>
      BY <1>6 DEF Read, vouched
    <3>3. \A l \in entered : Kept(l, file)
      BY <3>1, <3>2 DEF Survival, LinesSurvive, Rewriting, Kept
    <3>4. /\ \A d \in Commands \ {c} : cmd'[d] = cmd[d]
          /\ cmd'[c].at \in {"truncate", "failed"}
          /\ cmd'[c].at = "truncate" =>
               Asked(c)' = Asked(c) /\ cmd'[c].memory = OtherLines(file, Asked(c)) \cup {Asked(c)}
      BY <1>6, ReadState
    <3>5. LinesSurvive'
      BY <3>2, <3>3 DEF LinesSurvive, Kept
    <3>6. \A d, e \in Commands : Rewriting(d)' /\ Rewriting(e)' => d = e
      BY <3>1, <3>4 DEF Rewriting
    <3>7. ASSUME NEW d \in Commands, Rewriting(d)', NEW l \in entered'
          PROVE  (Kept(l, cmd[d].memory) \/ l.addr \in Answering(Asked(d).addr))'
      <4>1. d = c /\ cmd'[c].at = "truncate"
        BY <3>1, <3>4, <3>7 DEF Rewriting
      <4>2. l \in file /\ l.addr \notin Answering(Asked(c).addr) => l \in cmd'[c].memory
        BY <3>4, <4>1 DEF OtherLines
      <4>3. QED
        BY <3>2, <3>3, <3>4, <4>1, <4>2 DEF Kept
    <3>8. QED
      BY <3>5, <3>6, <3>7 DEF Survival, RewritesAlone
  <2>3. QED
    BY <2>1, <2>2
<1>7. ASSUME NEW c \in Commands, Truncate(c) PROVE Survival'
  <2>1. At(c, "write").at = "write" /\ At(c, "write").memory = cmd[c].memory
        /\ At(c, "write").question = cmd[c].question /\ cmd[c].at = "truncate"
    BY <1>1, <1>7, AtMoves DEF Truncate, Moved, Ats, Steps, vouched
  <2>2. /\ cmd'[c] = At(c, "write") /\ \A d \in Commands \ {c} : cmd'[d] = cmd[d]
        /\ UNCHANGED <<entered, replaced, disturbed>>
    BY <1>7, SetState DEF Truncate, history, vouched
  <2>3. LinesSurvive'
    BY <2>1, <2>2 DEF LinesSurvive
  <2>4. \A d \in Commands : /\ Rewriting(d)' <=> Rewriting(d)
                            /\ cmd'[d].memory = cmd[d].memory /\ Asked(d)' = Asked(d)
    BY <2>1, <2>2 DEF Rewriting, Asked
  <2>5. RewritesAlone'
    BY <2>2, <2>4 DEF Survival, RewritesAlone, Kept
  <2>6. QED
    BY <2>3, <2>5 DEF Survival
<1>8. ASSUME NEW c \in Commands, WriteBack(c) PROVE Survival'
  <2>1. /\ cmd'[c] = Retried(c) /\ Retried(c).at = "open" /\ cmd[c].at = "write"
        /\ \A d \in Commands \ {c} : cmd'[d] = cmd[d]
    BY <1>1, <1>8, RetriedTyped, SetState DEF WriteBack, vouched
  <2>2. /\ file' = cmd[c].memory /\ entered' = entered \cup {Asked(c)}
        /\ replaced' = replaced \cup {Asked(c).addr} /\ disturbed' = disturbed
    BY <1>8 DEF WriteBack, vouched
  <2>3. CASE disturbed
    BY <2>2, <2>3 DEF Survival, RewritesAlone, LinesSurvive
  <2>4. CASE ~disturbed
    <3>1. \A d \in Commands : ~Rewriting(d)'
      BY <2>1, <2>4 DEF Survival, RewritesAlone, Rewriting
    <3>2. ASSUME NEW l \in entered' PROVE l \in file' \/ \E a \in replaced' : l.addr \in Answering(a)
      <4>1. CASE l \in entered
        BY <2>1, <2>2, <2>4, <4>1 DEF Survival, RewritesAlone, Rewriting, Kept
      <4>2. CASE l = Asked(c)
        BY <2>2, <4>2 DEF Answering
      <4>3. QED
        BY <2>2, <4>1, <4>2
    <3>3. QED
      BY <3>1, <3>2 DEF Survival, RewritesAlone, LinesSurvive
  <2>5. QED
    BY <2>3, <2>4
<1>9. ASSUME NEW c \in Commands, WriteFails(c) PROVE Survival'
  BY <1>9 DEF WriteFails, Survival, RewritesAlone, LinesSurvive, vouched
<1>10. QED
  <2>1. CASE \E c \in Commands : Read(c) \/ Truncate(c) \/ WriteBack(c) \/ WriteFails(c)
    BY <1>6, <1>7, <1>8, <1>9, <2>1
  <2>2. CASE AddLine \/ \E c \in Commands : Record(c)
    BY <1>4, <1>5, <2>2
  <2>3. CASE /\ ~ (\E c \in Commands : Read(c) \/ Truncate(c) \/ WriteBack(c) \/ WriteFails(c))
             /\ ~ (AddLine \/ \E c \in Commands : Record(c))
    <3>1. RewritersStay
      BY <2>3, StepsOfRewriting
    <3>2. UNCHANGED <<file, entered, replaced, disturbed>>
      <4>1. ASSUME NEW c \in Commands,
                   \/ Start(c) \/ Open(c) \/ Verify(c) \/ Refuse(c) \/ Fail(c) \/ Ask(c)
                   \/ Compare(c) \/ CompareFails(c)
            PROVE  UNCHANGED <<file, entered, replaced, disturbed>>
        BY <4>1 DEF Start, Open, Verify, Refuse, Fail, Ask, Compare, CompareFails, history
      <4>2. ASSUME NEW trust \in BOOLEAN, Answer(trust)
            PROVE  UNCHANGED <<file, entered, replaced, disturbed>>
        BY <4>2 DEF Answer, history
      <4>3. CASE ChangeKey \/ UNCHANGED trustVars
        BY <4>3 DEF ChangeKey, trustVars, history
      <4>4. QED
        BY <2>3, <4>1, <4>2, <4>3 DEF TrustNext
    <3>3. QED
      BY <1>2, <3>1, <3>2
  <2>4. QED
    BY <2>1, <2>2, <2>3

-----------------------------------------------------------------------------
(* The theorems.                                                           *)

TrustIInv == AllSound /\ WorldTyped /\ TrustIsGranted /\ Survival

LEMMA TrustInvariant == TrustSpec => []TrustIInv
<1>1. TrustInit => TrustIInv
  <2> SUFFICES ASSUME TrustInit PROVE Survival
    BY InitSound DEF TrustIInv
  <2>1. \A c \in Commands : cmd[c].at = "idle"
    BY BegunTyped DEF TrustInit
  <2>2. QED
    BY <2>1 DEF TrustInit, Survival, RewritesAlone, LinesSurvive, Rewriting
<1>2. TrustIInv /\ [TrustNext]_trustVars => TrustIInv'
  BY StepSound, StepWorldTyped, StepGranted, StepSurvives DEF TrustIInv
<1>3. QED
  BY <1>1, <1>2, PTL DEF TrustSpec

\* The variables keep their types; in particular no command ever looks for
\* a hop outside of its chain.
THEOREM TrustTypeCorrect == TrustSpec => []TrustTypeOK
<1>1. TrustIInv => TrustTypeOK
  <2> SUFFICES ASSUME TrustIInv PROVE TrustTypeOK
    OBVIOUS
  <2>1. ASSUME NEW c \in Commands
        PROVE  {cmd[c].hop, cmd[c].goal} \subseteq 0 .. Len(cmd[c].chain)
    BY ChainsTyped DEF TrustIInv, AllSound, Sound, CommandStates
  <2>2. QED
    BY <2>1 DEF TrustIInv, AllSound, WorldTyped, TrustTypeOK
<1>2. QED
  BY <1>1, TrustInvariant, PTL

\* Every line of known_hosts is of a question that was answered with yes, or
\* of another program, however commands, answers and key changes interleave.
THEOREM KeysAreGranted == TrustSpec => []TrustIsGranted
<1>1. TrustIInv => TrustIsGranted
  BY DEF TrustIInv
<1>2. QED
  BY <1>1, TrustInvariant, PTL

\* replace_host_key loses no line of another address, unless a rewrite
\* fails or something else changes the file meanwhile.
THEOREM OtherLinesSurvive == TrustSpec => []LinesSurvive
<1>1. TrustIInv => LinesSurvive
  BY DEF TrustIInv, Survival
<1>2. QED
  BY <1>1, TrustInvariant, PTL

-----------------------------------------------------------------------------
(* TRANSFERS                                                               *)

-----------------------------------------------------------------------------
(* The inductive invariant.                                                *)

Renaming == {"atomic", "overwriting", "unlink", "plain"}

\* Which operations come to which states.
PathOfKind ==
  \A j \in Jobs :
    /\ pc[j] \in Uploading \cup Staging => job[j].kind \in {"upload", "save"}
    /\ pc[j] \in {"scan", "root"} => job[j].kind = "upload"
    /\ pc[j] \in Fetching => job[j].kind = "download"
    /\ pc[j] = "act" => job[j].kind \in {"touch", "rename", "delete"}
    /\ pc[j] \in {"overwriting", "unlink"} => job[j].overwrite

\* A staging file is its job's own; it is whole when it is renamed, unless
\* the server has renamed it already and the connection is gone.
StageIsOwn ==
  \A j \in Jobs :
    /\ stage[j] = Absent \/ stage[j].by = j
    /\ pc[j] \notin Staging \cup {"fetch", "failed", "dead"} => stage[j] = Absent
    /\ pc[j] \in {"write", "fetch"} => stage[j].by = j
    /\ pc[j] \in Renaming => Whole(stage[j]) \/ (~link[j] /\ stage[j] = Absent)

\* An entry is in place, and what is there is the job's if it is alone.
Landed(j, i) == Entries[i] \in placed[j] /\ (Alone(j) => Target(j, i) = Own(j))
Passed(j, i) == Entries[i] \in skipped[j] \/ Landed(j, i)

\* The entries before the current one are in place, or could not be read.
PlacedSoFar ==
  \A j \in Jobs :
    /\ at[j] \in 1 .. Last(j)
    /\ pc[j] \in {"idle", "root"} => at[j] = 1
    /\ pc[j] \in {"file"} \cup Staging => \A i \in 1 .. at[j] - 1 : Passed(j, i)

\* Those the scan has passed were free, or links.
ScannedSoFar ==
  \A j \in Jobs :
    /\ pc[j] = "scan" => \A i \in 1 .. at[j] - 1 : Entries[i] \in free[j] \cup Links
    /\ pc[j] \in {"root", "file"} \cup Staging /\ job[j].kind = "upload" /\ ~job[j].overwrite =>
         \A i \in 1 .. Last(j) : Entries[i] \in free[j] \cup Links

Inv == TypeOK /\ PathOfKind /\ StageIsOwn /\ PlacedSoFar

-----------------------------------------------------------------------------
LEMMA EntriesTyped ==
  /\ Len(Entries) \in Nat \ {0} /\ DOMAIN Entries = 1 .. Len(Entries)
  /\ \A i \in 1 .. Len(Entries) : Entries[i] \in Names
  BY TransferAssumption DEF TransferAssumption, Names

LEMMA ContentsTyped ==
  /\ Absent \in Contents /\ Foreign \in Contents
  /\ ~Whole(Absent) /\ Whole(Foreign)
  /\ \A j \in Jobs : [by |-> j, part |-> 0] \in Contents /\ Absent.by # j
  BY TransferAssumption DEF TransferAssumption, Contents, Absent, Foreign, Whole

LEMMA LastTyped == ASSUME TypeOK, NEW j \in Jobs
                   PROVE  Last(j) \in 1 .. Len(Entries) /\ Dest(j) \in Names
  BY EntriesTyped DEF TypeOK, Last, Dest, JobSpec

LEMMA MoreEntries == ASSUME TypeOK, NEW j \in Jobs
                     PROVE  /\ [at EXCEPT ![j] = 1] \in [Jobs -> DOMAIN Entries]
                            /\ at[j] < Last(j) =>
                                 [at EXCEPT ![j] = at[j] + 1] \in [Jobs -> DOMAIN Entries]
<1>1. at \in [Jobs -> DOMAIN Entries]
  BY DEF TypeOK
<1>2. 1 \in DOMAIN Entries /\ (at[j] < Last(j) => at[j] + 1 \in DOMAIN Entries)
  BY <1>1, LastTyped, EntriesTyped
<1>3. QED
  BY <1>1, <1>2

LEMMA InitTyped == Init => TypeOK
<1> SUFFICES ASSUME Init PROVE TypeOK
  OBVIOUS
<1>1. /\ job \in [Jobs -> JobSpec] /\ server \in [posix : BOOLEAN, overwrite : BOOLEAN]
      /\ remote \in [Names -> {Absent, Foreign}] /\ folder \in BOOLEAN
  BY ScenariosAssumption DEF Init, ScenariosAssumption
<1>2. remote \in [Names -> Contents]
  BY <1>1, ContentsTyped
<1>3. at \in [Jobs -> DOMAIN Entries] /\ stage \in [Jobs -> Contents] /\ local \in Contents
  BY ContentsTyped, EntriesTyped DEF Init
<1>4. /\ pc \in [Jobs -> Uploading \cup Staging \cup Fetching \cup {"act"} \cup Over]
      /\ {free, placed, skipped} \subseteq [Jobs -> SUBSET Names]
      /\ cancelled \in [Jobs -> BOOLEAN] /\ link \in [Jobs -> BOOLEAN]
      /\ made \in [Jobs -> BOOLEAN]
  BY DEF Init, Over
<1>5. QED
  BY <1>1, <1>2, <1>3, <1>4 DEF TypeOK

-----------------------------------------------------------------------------
(* Type correctness.                                                       *)

\* A part more of a file that is not whole.
LEMMA OneMore == ASSUME TypeOK, NEW j \in Jobs, ~Whole(stage[j])
                 PROVE  [stage EXCEPT ![j].part = @ + 1] \in [Jobs -> Contents]
<1>1. stage[j].part \in 0 .. Chunks /\ stage[j].part + 1 \in 0 .. Chunks
  BY TransferAssumption DEF TransferAssumption, TypeOK, Contents, Whole
<1>2. [stage[j] EXCEPT !.part = @ + 1] \in Contents
  BY <1>1 DEF TypeOK, Contents
<1>3. QED
  BY <1>2 DEF TypeOK

LEMMA StepTyped == TypeOK /\ [Next]_vars => TypeOK'
<1> SUFFICES ASSUME TypeOK, [Next]_vars PROVE TypeOK'
  OBVIOUS
<1> USE DEF Uploading, Staging, Fetching, Over
<1>0. CASE UNCHANGED vars
  BY <1>0 DEF TypeOK, vars, asked, through, disk
<1>1. CASE Crash
  BY <1>1 DEF TypeOK, Crash, asked, through, disk
<1>2. ASSUME NEW j \in Jobs,
             \/ Begin(j) \/ FailEarly(j) \/ Upload(j) \/ Act(j) \/ Download(j)
             \/ Cancel(j) \/ LoseLink(j)
      PROVE  TypeOK'
  <2> USE DEF asked, through, disk
  <2>1. CASE Begin(j)
    BY <2>1 DEF TypeOK, Begin, Step
  <2>2. CASE FailEarly(j)
    BY <2>2 DEF TypeOK, FailEarly
  <2>3. CASE Scan(j)
    <3>1. at' \in [Jobs -> DOMAIN Entries]
      BY <2>3, MoreEntries DEF Scan, ScanOn
    <3>2. free' \in [Jobs -> SUBSET Names]
      BY <2>3, LastTyped DEF TypeOK, Scan
    <3>3. QED
      BY <2>3, <3>1, <3>2 DEF TypeOK, Scan, ScanOn, Step
  <2>4. CASE Conflict(j)
    BY <2>4 DEF TypeOK, Conflict, Step
  <2>5. CASE Root(j)
    BY <2>5 DEF TypeOK, Root, Step
  <2>6. CASE OpenStage(j)
    BY <2>6, ContentsTyped DEF TypeOK, OpenStage, Step
  <2>7. CASE Write(j)
    BY <2>7, OneMore DEF TypeOK, Write
  <2>8. CASE FinishStage(j)
    BY <2>8 DEF TypeOK, FinishStage, Step
  <2>9. ASSUME NEW rung \in {"atomic", "overwriting", "plain"}, Rename(j, rung)
        PROVE  TypeOK'
    <3>1. at' \in [Jobs -> DOMAIN Entries]
      BY <2>9, MoreEntries DEF TypeOK, Rename, NextEntry
    <3>2. remote' \in [Names -> Contents] /\ stage' \in [Jobs -> Contents]
      BY <2>9, LastTyped, ContentsTyped DEF TypeOK, Rename
    <3>3. placed' \in [Jobs -> SUBSET Names]
      BY <2>9, LastTyped DEF TypeOK, Rename
    <3>4. pc' \in [Jobs -> Uploading \cup Staging \cup Fetching \cup {"act"} \cup Over]
      BY <2>9 DEF TypeOK, Rename, NextEntry
    <3>5. QED
      BY <2>9, <3>1, <3>2, <3>3, <3>4 DEF TypeOK, Rename
  <2>10. CASE RenameFails(j)
    BY <2>10, ContentsTyped DEF TypeOK, RenameFails, NextRung, Discarded
  <2>11. CASE RenameUnheard(j)
    BY <2>11, LastTyped, ContentsTyped DEF TypeOK, RenameUnheard, NextRung
  <2>12. CASE Unlink(j)
    <3>1. remote' \in [Names -> Contents]
      BY <2>12, LastTyped, ContentsTyped DEF TypeOK, Unlink
    <3>2. QED
      BY <2>12, <3>1 DEF TypeOK, Unlink, Step, NextRung
  <2>13. CASE FailWriting(j)
    BY <2>13, ContentsTyped DEF TypeOK, FailWriting, Step, Discarded
  <2>14. CASE Act(j)
    <3>1. remote' \in [Names -> Contents]
      <4>1. CASE Touch(j)
        BY <4>1, ContentsTyped DEF TypeOK, Touch
      <4>2. CASE Move(j)
        <5> DEFINE from == Entries[Len(Entries)]
        <5>1. from \in Names
          BY EntriesTyped
        <5>2. remote[from] \in Contents
          BY <5>1 DEF TypeOK
        <5>3. remote' = [remote EXCEPT ![from] = Absent, ![Dest(j)] = remote[from]]
          BY <4>2 DEF Move
        <5> HIDE DEF from
        <5>4. [remote EXCEPT ![from] = Absent] \in [Names -> Contents]
          BY ContentsTyped DEF TypeOK
        <5>5. QED
          BY <5>2, <5>3, <5>4
      <4>3. CASE Delete(j)
        BY <4>3, ContentsTyped DEF TypeOK, Delete
      <4>4. QED
        BY <2>14, <4>1, <4>2, <4>3 DEF Act
    <3>2. at' \in [Jobs -> DOMAIN Entries]
      BY <2>14, MoreEntries DEF TypeOK, Act
    <3>3. pc' \in [Jobs -> Uploading \cup Staging \cup Fetching \cup {"act"} \cup Over]
      BY <2>14 DEF TypeOK, Act
    <3>4. QED
      BY <2>14, <3>1, <3>2, <3>3 DEF TypeOK, Act
  <2>15. CASE Look(j)
    BY <2>15 DEF TypeOK, Look, Step
  <2>16. CASE EnsureFolder(j)
    BY <2>16 DEF TypeOK, EnsureFolder, Step
  <2>17. CASE OpenLocal(j)
    BY <2>17, ContentsTyped DEF TypeOK, OpenLocal, Step
  <2>18. CASE Fetch(j)
    BY <2>18, OneMore DEF TypeOK, Fetch
  <2>19. CASE Land(j)
    BY <2>19, ContentsTyped DEF TypeOK, Land, Step
  <2>20. CASE FailDownload(j)
    BY <2>20, ContentsTyped DEF TypeOK, FailDownload
  <2>21. CASE Cancel(j)
    BY <2>21 DEF TypeOK, Cancel
  <2>22. CASE LoseLink(j)
    BY <2>22 DEF TypeOK, LoseLink
  <2>23. CASE Overlook(j)
    <3>1. at' \in [Jobs -> DOMAIN Entries]
      BY <2>23, MoreEntries DEF Overlook, ScanOn
    <3>2. free' \in [Jobs -> SUBSET Names]
      BY <2>23, LastTyped DEF TypeOK, Overlook
    <3>3. QED
      BY <2>23, <3>1, <3>2 DEF TypeOK, Overlook, ScanOn, Step
  <2>24. CASE Skip(j)
    <3>1. at' \in [Jobs -> DOMAIN Entries]
      BY <2>24, MoreEntries DEF TypeOK, Skip, NextEntry
    <3>2. skipped' \in [Jobs -> SUBSET Names]
      BY <2>24, LastTyped DEF TypeOK, Skip
    <3>3. QED
      BY <2>24, <3>1, <3>2 DEF TypeOK, Skip, NextEntry
  <2>25. QED
    BY <1>2, <2>1, <2>2, <2>3, <2>4, <2>5, <2>6, <2>7, <2>8, <2>9, <2>10, <2>11, <2>12,
       <2>13,
       <2>14, <2>15, <2>16, <2>17, <2>18, <2>19, <2>20, <2>21, <2>22,
       <2>23, <2>24
    DEF Upload, Download
<1>3. QED
  BY <1>0, <1>1, <1>2 DEF Next

-----------------------------------------------------------------------------
(* Ways and staging files.                                                 *)

LEMMA StepKeepsPath == TypeOK /\ PathOfKind /\ [Next]_vars => PathOfKind'
<1> SUFFICES ASSUME TypeOK, PathOfKind, [Next]_vars PROVE PathOfKind'
  OBVIOUS
<1> USE DEF TypeOK, PathOfKind, JobSpec, Kinds, Uploading, Staging, Fetching, Over, asked, through
<1>0. CASE UNCHANGED vars
  BY <1>0 DEF vars
<1>1. CASE Crash
  BY <1>1 DEF Crash
<1>2. ASSUME NEW j \in Jobs,
             \/ Begin(j) \/ FailEarly(j) \/ Upload(j) \/ Act(j) \/ Download(j)
             \/ Cancel(j) \/ LoseLink(j)
      PROVE  PathOfKind'
  <2>1. CASE Begin(j)
    BY <2>1 DEF Begin, Step
  <2>2. CASE FailEarly(j)
    BY <2>2 DEF FailEarly
  <2>3. CASE Scan(j)
    BY <2>3 DEF Scan, ScanOn, Step
  <2>4. CASE Conflict(j)
    BY <2>4 DEF Conflict, Step
  <2>5. CASE Root(j)
    BY <2>5 DEF Root, Step
  <2>6. CASE OpenStage(j)
    BY <2>6 DEF OpenStage, Step
  <2>7. CASE Write(j)
    BY <2>7 DEF Write
  <2>8. CASE FinishStage(j)
    BY <2>8 DEF FinishStage, Step, Written
  <2>9. ASSUME NEW rung \in {"atomic", "overwriting", "plain"}, Rename(j, rung)
        PROVE  PathOfKind'
    BY <2>9 DEF Rename, NextEntry
  <2>10. CASE RenameFails(j)
    BY <2>10 DEF RenameFails, NextRung
  <2>11. CASE RenameUnheard(j)
    BY <2>11 DEF RenameUnheard, NextRung
  <2>12. CASE Unlink(j)
    BY <2>12 DEF Unlink, Step, NextRung
  <2>13. CASE FailWriting(j)
    BY <2>13 DEF FailWriting, Step
  <2>14. CASE Act(j)
    BY <2>14 DEF Act
  <2>15. CASE Look(j)
    BY <2>15 DEF Look, Step
  <2>16. CASE EnsureFolder(j)
    BY <2>16 DEF EnsureFolder, Step
  <2>17. CASE OpenLocal(j)
    BY <2>17 DEF OpenLocal, Step
  <2>18. CASE Fetch(j)
    BY <2>18 DEF Fetch
  <2>19. CASE Land(j)
    BY <2>19 DEF Land, Step
  <2>20. CASE FailDownload(j)
    BY <2>20 DEF FailDownload
  <2>21. CASE Cancel(j)
    BY <2>21 DEF Cancel
  <2>22. CASE LoseLink(j)
    BY <2>22 DEF LoseLink
  <2>23. CASE Overlook(j)
    BY <2>23 DEF Overlook, ScanOn, Step
  <2>24. CASE Skip(j)
    BY <2>24 DEF Skip, NextEntry
  <2>25. QED
    BY <1>2, <2>1, <2>2, <2>3, <2>4, <2>5, <2>6, <2>7, <2>8, <2>9, <2>10, <2>11,
       <2>12, <2>13, <2>14, <2>15, <2>16, <2>17, <2>18, <2>19, <2>20, <2>21, <2>22,
       <2>23, <2>24
    DEF Upload, Download
<1>3. QED
  BY <1>0, <1>1, <1>2 DEF Next

LEMMA StepKeepsStage == TypeOK /\ PathOfKind /\ StageIsOwn /\ [Next]_vars => StageIsOwn'
<1> SUFFICES ASSUME TypeOK, PathOfKind, StageIsOwn, [Next]_vars PROVE StageIsOwn'
  OBVIOUS
<1> USE DEF TypeOK, PathOfKind, StageIsOwn, Renaming, Uploading, Staging, Fetching, Over
<1>0. CASE UNCHANGED vars
  BY <1>0 DEF vars
<1>1. CASE Crash
  BY <1>1 DEF Crash
<1>2. ASSUME NEW j \in Jobs,
             \/ Begin(j) \/ FailEarly(j) \/ Upload(j) \/ Act(j) \/ Download(j)
             \/ Cancel(j) \/ LoseLink(j)
      PROVE  StageIsOwn'
  <2>1. CASE Begin(j)
    BY <2>1 DEF Begin, Step
  <2>2. CASE FailEarly(j)
    BY <2>2 DEF FailEarly
  <2>3. CASE Scan(j)
    BY <2>3 DEF Scan, ScanOn, Step
  <2>4. CASE Conflict(j)
    BY <2>4 DEF Conflict, Step
  <2>5. CASE Root(j)
    BY <2>5 DEF Root, Step
  <2>6. CASE OpenStage(j)
    BY <2>6 DEF OpenStage, Step
  <2>7. CASE Write(j)
    BY <2>7 DEF Write
  <2>8. CASE FinishStage(j)
    BY <2>8 DEF FinishStage, Step, Written
  <2>9. ASSUME NEW rung \in {"atomic", "overwriting", "plain"}, Rename(j, rung)
        PROVE  StageIsOwn'
    BY <2>9 DEF Rename, NextEntry
  <2>10. CASE RenameFails(j)
    BY <2>10 DEF RenameFails, NextRung, Discarded
  <2>11. CASE RenameUnheard(j)
    BY <2>11 DEF RenameUnheard, NextRung
  <2>12. CASE Unlink(j)
    BY <2>12 DEF Unlink, Step, NextRung
  <2>13. CASE FailWriting(j)
    BY <2>13 DEF FailWriting, Step, Discarded
  <2>14. CASE Act(j)
    BY <2>14 DEF Act
  <2>15. CASE Look(j)
    BY <2>15 DEF Look, Step
  <2>16. CASE EnsureFolder(j)
    BY <2>16 DEF EnsureFolder, Step
  <2>17. CASE OpenLocal(j)
    BY <2>17 DEF OpenLocal, Step
  <2>18. CASE Fetch(j)
    BY <2>18 DEF Fetch
  <2>19. CASE Land(j)
    BY <2>19 DEF Land, Step
  <2>20. CASE FailDownload(j)
    BY <2>20 DEF FailDownload
  <2>21. CASE Cancel(j)
    BY <2>21 DEF Cancel
  <2>22. CASE LoseLink(j)
    BY <2>22 DEF LoseLink
  <2>23. CASE Overlook(j)
    BY <2>23 DEF Overlook, ScanOn, Step
  <2>24. CASE Skip(j)
    BY <2>24 DEF Skip, NextEntry
  <2>25. QED
    BY <1>2, <2>1, <2>2, <2>3, <2>4, <2>5, <2>6, <2>7, <2>8, <2>9, <2>10, <2>11,
       <2>12, <2>13, <2>14, <2>15, <2>16, <2>17, <2>18, <2>19, <2>20, <2>21, <2>22,
       <2>23, <2>24
    DEF Upload, Download
<1>3. QED
  BY <1>0, <1>1, <1>2 DEF Next

-----------------------------------------------------------------------------
(* What is at the destinations.                                            *)

Rungs == {"atomic", "overwriting", "plain"}

LEMMA StepsOfRemote ==
  [Next]_vars =>
    \/ UNCHANGED remote
    \/ \E j \in Jobs : \/ \E rung \in Rungs : Rename(j, rung)
                       \/ RenameUnheard(j) \/ Unlink(j) \/ Act(j)
BY DEF Next, Upload, Download, Begin, FailEarly, Scan, Overlook, Conflict, Root, Skip,
       OpenStage, Write, FinishStage, RenameFails, FailWriting, Look, EnsureFolder, OpenLocal, Fetch, Land,
       FailDownload, Cancel, LoseLink, Crash, vars, Rungs

LEMMA StepsOfLocal == [Next]_vars => UNCHANGED local \/ \E j \in Jobs : Land(j)
BY DEF Next, Upload, Download, Begin, FailEarly, Scan, Overlook, Conflict, Root, Skip,
       OpenStage, Write, FinishStage, Rename, RenameFails, RenameUnheard, Unlink, FailWriting, Act, Look,
       EnsureFolder, OpenLocal, Fetch, FailDownload, Cancel, LoseLink, Crash, vars, disk

\* A staging file that gets the name of its destination is whole.
LEMMA RenamedIsWhole ==
  ASSUME StageIsOwn, NEW j \in Jobs, pc[j] \in Rungs, Takes(j, pc[j])
  PROVE  Whole(stage[j])
BY DEF StageIsOwn, Renaming, Rungs, Takes

LEMMA StepNeverTears == TypeOK /\ StageIsOwn /\ NeverTorn /\ [Next]_vars => NeverTorn'
<1> SUFFICES ASSUME TypeOK, StageIsOwn, NeverTorn, [Next]_vars PROVE NeverTorn'
  OBVIOUS
<1>1. remote \in [Names -> Contents]
  BY DEF TypeOK
<1>2. ASSUME NEW f \in Names PROVE remote'[f] = Absent \/ Whole(remote'[f])
  <2>1. CASE UNCHANGED remote
    BY <2>1 DEF NeverTorn
  <2>2. ASSUME NEW j \in Jobs, NEW rung \in Rungs, Rename(j, rung)
        PROVE  remote'[f] = Absent \/ Whole(remote'[f])
    BY <1>1, <2>2, RenamedIsWhole DEF NeverTorn, Rename
  <2>3. ASSUME NEW j \in Jobs, RenameUnheard(j)
        PROVE  remote'[f] = Absent \/ Whole(remote'[f])
    BY <1>1, <2>3, RenamedIsWhole DEF NeverTorn, RenameUnheard, Rungs
  <2>4. ASSUME NEW j \in Jobs, Unlink(j)
        PROVE  remote'[f] = Absent \/ Whole(remote'[f])
    BY <1>1, <2>4 DEF NeverTorn, Unlink
  <2>5. ASSUME NEW j \in Jobs, Act(j)
        PROVE  remote'[f] = Absent \/ Whole(remote'[f])
    <3>1. CASE Touch(j)
      BY <1>1, <3>1, ContentsTyped DEF NeverTorn, Touch
    <3>2. CASE Move(j)
      BY <1>1, <3>2, EntriesTyped DEF NeverTorn, Move
    <3>3. CASE Delete(j)
      BY <1>1, <3>3 DEF NeverTorn, Delete
    <3>4. QED
      BY <2>5, <3>1, <3>2, <3>3 DEF Act
  <2>6. QED
    BY <2>1, <2>2, <2>3, <2>4, <2>5, StepsOfRemote
<1>3. local' = Absent \/ Whole(local')
  <2>1. CASE UNCHANGED local
    BY <2>1 DEF NeverTorn
  <2>2. ASSUME NEW j \in Jobs, Land(j) PROVE Whole(local')
    BY <2>2 DEF Land, Written
  <2>3. QED
    BY <2>1, <2>2, StepsOfLocal
<1>4. QED
  BY <1>2, <1>3 DEF NeverTorn

LEMMA StepRemovesForReplacement ==
  ASSUME TypeOK, PathOfKind, StageIsOwn, [Next]_vars, NEW f \in Names,
         remote[f] # Absent, remote'[f] = Absent
  PROVE  \E j \in Jobs : \/ pc[j] = "act" /\ job[j].kind \in {"rename", "delete"}
                         \/ /\ pc[j] = "unlink" /\ pc'[j] = "plain" /\ job[j].overwrite
                            /\ Dest(j) = f /\ Whole(stage'[j]) /\ stage'[j].by = j
<1>1. /\ remote \in [Names -> Contents]
      /\ pc \in [Jobs -> Uploading \cup Staging \cup Fetching \cup {"act"} \cup Over]
  BY DEF TypeOK
<1>2. ASSUME NEW j \in Jobs, NEW rung \in Rungs, Rename(j, rung) PROVE FALSE
  BY <1>1, <1>2, RenamedIsWhole, ContentsTyped DEF Rename
<1>3. ASSUME NEW j \in Jobs, RenameUnheard(j) PROVE FALSE
  BY <1>1, <1>3, RenamedIsWhole, ContentsTyped DEF RenameUnheard, Rungs
<1>4. ASSUME NEW j \in Jobs, Unlink(j)
      PROVE  /\ pc[j] = "unlink" /\ pc'[j] = "plain" /\ job[j].overwrite
             /\ Dest(j) = f /\ Whole(stage'[j]) /\ stage'[j].by = j
  <2>1. pc[j] = "unlink" /\ pc'[j] = "plain" /\ stage' = stage
    BY <1>1, <1>4 DEF Unlink, Step, NextRung
  <2>2. job[j].overwrite
    BY <2>1 DEF PathOfKind
  <2>3. link[j] /\ Dest(j) = f
    BY <1>1, <1>4 DEF Unlink
  <2>4. Whole(stage[j]) /\ stage[j].by = j
    BY <2>1, <2>3, ContentsTyped DEF StageIsOwn, Renaming
  <2>5. QED
    BY <2>1, <2>2, <2>3, <2>4
<1>5. ASSUME NEW j \in Jobs, Act(j) PROVE pc[j] = "act" /\ job[j].kind \in {"rename", "delete"}
  <2>1. pc[j] = "act"
    BY <1>5 DEF Act
  <2>2. ~Touch(j)
    BY <1>1, ContentsTyped DEF Touch
  <2>3. QED
    BY <1>5, <2>1, <2>2 DEF Act, Move, Delete
<1>6. QED
  BY <1>2, <1>3, <1>4, <1>5, StepsOfRemote

-----------------------------------------------------------------------------
(* Failures.                                                               *)

NoLitter ==
  \A j \in Jobs : pc[j] = "failed" /\ (link[j] \/ Downloads(j)) => stage[j] = Absent

FolderOfFiles ==
  local # Absent \/ (\E j \in Jobs : Downloads(j) /\ stage[j] # Absent) => folder

LEMMA StepLeavesNoLitter ==
  TypeOK /\ PathOfKind /\ StageIsOwn /\ NoLitter /\ [Next]_vars =>
    NoLitter'
<1> SUFFICES ASSUME TypeOK, PathOfKind, StageIsOwn, NoLitter, [Next]_vars
             PROVE  NoLitter'
  OBVIOUS
<1> USE DEF TypeOK, PathOfKind, StageIsOwn, NoLitter, Downloads, Uploading, Staging,
   Fetching, Over, asked, through
<1>0. CASE UNCHANGED vars
  BY <1>0 DEF vars
<1>1. CASE Crash
  BY <1>1 DEF Crash
<1>2. ASSUME NEW j \in Jobs,
             \/ Begin(j) \/ FailEarly(j) \/ Upload(j) \/ Act(j) \/ Download(j)
             \/ Cancel(j) \/ LoseLink(j)
      PROVE  NoLitter'
  <2>1. CASE Begin(j)
    BY <2>1 DEF Begin, Step
  <2>2. CASE FailEarly(j)
    BY <2>2 DEF FailEarly
  <2>3. CASE Scan(j)
    BY <2>3 DEF Scan, ScanOn, Step
  <2>4. CASE Conflict(j)
    BY <2>4 DEF Conflict, Step
  <2>5. CASE Root(j)
    BY <2>5 DEF Root, Step
  <2>6. CASE OpenStage(j)
    BY <2>6 DEF OpenStage, Step
  <2>7. CASE Write(j)
    BY <2>7 DEF Write
  <2>8. CASE FinishStage(j)
    BY <2>8 DEF FinishStage, Step, Written
  <2>9. ASSUME NEW rung \in {"atomic", "overwriting", "plain"}, Rename(j, rung)
        PROVE  NoLitter'
    BY <2>9 DEF Rename, NextEntry
  <2>10. CASE RenameFails(j)
    BY <2>10 DEF RenameFails, NextRung, Discarded
  <2>11. CASE RenameUnheard(j)
    BY <2>11 DEF RenameUnheard, NextRung
  <2>12. CASE Unlink(j)
    BY <2>12 DEF Unlink, Step, NextRung
  <2>13. CASE FailWriting(j)
    BY <2>13 DEF FailWriting, Step, Discarded
  <2>14. CASE Act(j)
    BY <2>14 DEF Act
  <2>15. CASE Look(j)
    BY <2>15 DEF Look, Step
  <2>16. CASE EnsureFolder(j)
    BY <2>16 DEF EnsureFolder, Step
  <2>17. CASE OpenLocal(j)
    BY <2>17 DEF OpenLocal, Step
  <2>18. CASE Fetch(j)
    BY <2>18 DEF Fetch
  <2>19. CASE Land(j)
    BY <2>19 DEF Land, Step
  <2>20. CASE FailDownload(j)
    BY <2>20 DEF FailDownload
  <2>21. CASE Cancel(j)
    BY <2>21 DEF Cancel
  <2>22. CASE LoseLink(j)
    BY <2>22 DEF LoseLink
  <2>23. CASE Overlook(j)
    BY <2>23 DEF Overlook, ScanOn, Step
  <2>24. CASE Skip(j)
    BY <2>24 DEF Skip, NextEntry
  <2>25. QED
    BY <1>2, <2>1, <2>2, <2>3, <2>4, <2>5, <2>6, <2>7, <2>8, <2>9, <2>10, <2>11,
       <2>12, <2>13, <2>14, <2>15, <2>16, <2>17, <2>18, <2>19, <2>20, <2>21, <2>22,
       <2>23, <2>24
    DEF Upload, Download
<1>3. QED
  BY <1>0, <1>1, <1>2 DEF Next

LEMMA StepKeepsFolder ==
  TypeOK /\ PathOfKind /\ StageIsOwn /\ FolderOfFiles /\ [Next]_vars =>
    FolderOfFiles'
<1> SUFFICES ASSUME TypeOK, PathOfKind, StageIsOwn, FolderOfFiles, [Next]_vars
             PROVE  FolderOfFiles'
  OBVIOUS
<1> USE DEF TypeOK, PathOfKind, FolderOfFiles, Downloads, Uploading, Staging, asked, through, disk
<1>0. CASE UNCHANGED vars
  BY <1>0 DEF vars
<1>1. CASE Crash
  BY <1>1 DEF Crash
<1>2. ASSUME NEW j \in Jobs,
             \/ Begin(j) \/ FailEarly(j) \/ Upload(j) \/ Act(j) \/ Download(j)
             \/ Cancel(j) \/ LoseLink(j)
      PROVE  FolderOfFiles'
  <2>1. CASE Begin(j)
    BY <2>1 DEF Begin, Step
  <2>2. CASE FailEarly(j)
    BY <2>2 DEF FailEarly
  <2>3. CASE Scan(j)
    BY <2>3 DEF Scan, ScanOn, Step
  <2>4. CASE Conflict(j)
    BY <2>4 DEF Conflict, Step
  <2>5. CASE Root(j)
    BY <2>5 DEF Root, Step
  <2>6. CASE OpenStage(j)
    BY <2>6 DEF OpenStage, Step
  <2>7. CASE Write(j)
    BY <2>7 DEF Write
  <2>8. CASE FinishStage(j)
    BY <2>8 DEF FinishStage, Step, Written
  <2>9. ASSUME NEW rung \in {"atomic", "overwriting", "plain"}, Rename(j, rung)
        PROVE  FolderOfFiles'
    BY <2>9 DEF Rename, NextEntry
  <2>10. CASE RenameFails(j)
    BY <2>10 DEF RenameFails, NextRung, Discarded
  <2>11. CASE RenameUnheard(j)
    BY <2>11 DEF RenameUnheard, NextRung
  <2>12. CASE Unlink(j)
    BY <2>12 DEF Unlink, Step, NextRung
  <2>13. CASE FailWriting(j)
    BY <2>13 DEF FailWriting, Step, Discarded
  <2>14. CASE Act(j)
    BY <2>14 DEF Act
  <2>15. CASE Look(j)
    BY <2>15 DEF Look, Step
  <2>16. CASE EnsureFolder(j)
    BY <2>16 DEF EnsureFolder, Step
  <2>17. CASE OpenLocal(j)
    BY <2>17 DEF OpenLocal, Step
  <2>18. CASE Fetch(j)
    BY <2>18, ContentsTyped DEF Fetch, StageIsOwn
  <2>19. CASE Land(j)
    <3>1. Downloads(j) /\ stage[j] # Absent /\ folder' = folder
      BY <2>19, ContentsTyped DEF Land, Step, Written, Fetching
    <3>2. QED
      BY <3>1
  <2>20. CASE FailDownload(j)
    BY <2>20 DEF FailDownload, Emptied
  <2>21. CASE Cancel(j)
    BY <2>21 DEF Cancel
  <2>22. CASE LoseLink(j)
    BY <2>22 DEF LoseLink
  <2>23. CASE Overlook(j)
    BY <2>23 DEF Overlook, ScanOn, Step
  <2>24. CASE Skip(j)
    BY <2>24 DEF Skip, NextEntry
  <2>25. QED
    BY <1>2, <2>1, <2>2, <2>3, <2>4, <2>5, <2>6, <2>7, <2>8, <2>9, <2>10, <2>11,
       <2>12, <2>13, <2>14, <2>15, <2>16, <2>17, <2>18, <2>19, <2>20, <2>21, <2>22,
       <2>23, <2>24
    DEF Upload, Download
<1>3. QED
  BY <1>0, <1>1, <1>2 DEF Next

-----------------------------------------------------------------------------
(* Completeness.                                                           *)

\* A job's part of PlacedSoFar and of OkIsComplete.
PlacedOf(j) ==
  /\ at[j] \in 1 .. Last(j)
  /\ pc[j] \in {"idle", "root"} => at[j] = 1
  /\ pc[j] \in {"file"} \cup Staging => \A i \in 1 .. at[j] - 1 : Passed(j, i)

OkOf(j) ==
  pc[j] = "done" /\ job[j].kind \in {"upload", "save", "download"} =>
    \A i \in 1 .. Last(j) : Passed(j, i)

LEMMA OkIsEachOne == OkIsComplete <=> \A j \in Jobs : OkOf(j)
BY DEF OkIsComplete, OkOf, Passed, Landed

LEMMA PlacedIsEachOne == PlacedSoFar <=> \A j \in Jobs : PlacedOf(j)
BY DEF PlacedSoFar, PlacedOf

\* Of an entry that is passed nothing is taken back, unless somebody else
\* does it.
LEMMA PassedStays ==
  ASSUME NEW j \in Jobs, NEW i, Passed(j, i), job' = job, Alone(j)' => Alone(j),
         placed[j] \subseteq placed'[j], skipped[j] \subseteq skipped'[j],
         Alone(j)' => local' = local /\ remote'[Entries[i]] = remote[Entries[i]]
  PROVE  Passed(j, i)'
BY DEF Passed, Landed, Target, Own, Downloads

StepOf(j) ==
  \/ Begin(j) \/ FailEarly(j) \/ Upload(j) \/ Act(j) \/ Download(j) \/ Cancel(j) \/ LoseLink(j)

\* The steps of a job that move nothing at the destinations and pass no entry.
Quiet(j) ==
  \/ Begin(j) \/ FailEarly(j) \/ Conflict(j) \/ Root(j) \/ OpenStage(j) \/ Write(j)
  \/ FinishStage(j) \/ RenameFails(j) \/ FailWriting(j) \/ Look(j) \/ EnsureFolder(j)
  \/ OpenLocal(j) \/ Fetch(j) \/ FailDownload(j) \/ Cancel(j) \/ LoseLink(j)

LEMMA QuietStays ==
  ASSUME TypeOK, PathOfKind, NEW j \in Jobs, Quiet(j)
  PROVE  /\ UNCHANGED <<job, at, placed, skipped, remote, local>>
         /\ \A k \in Jobs \ {j} : pc'[k] = pc[k]
         /\ pc'[j] \in {"idle", "root"} => pc[j] \in {"idle", "root"}
         /\ pc'[j] \in {"file"} \cup Staging => pc[j] \in {"idle", "root", "file"} \cup Staging
         /\ pc'[j] = "done" => pc[j] = "done"
         /\ pc'[j] = "idle" => pc' = pc
<1> USE DEF TypeOK, PathOfKind, Uploading, Staging, Fetching, Over, asked, through, disk
<1>1. CASE Begin(j) \/ FailEarly(j) \/ Conflict(j) \/ Root(j) \/ Cancel(j) \/ LoseLink(j)
  BY <1>1 DEF Begin, FailEarly, Conflict, Root, Cancel, LoseLink, Step
<1>2. CASE OpenStage(j) \/ Write(j) \/ FinishStage(j) \/ FailWriting(j)
  BY <1>2 DEF OpenStage, Write, FinishStage, FailWriting, Step
<1>3. CASE RenameFails(j)
  BY <1>3 DEF RenameFails, NextRung
<1>4. CASE Look(j) \/ EnsureFolder(j) \/ OpenLocal(j) \/ Fetch(j) \/ FailDownload(j)
  BY <1>4 DEF Look, EnsureFolder, OpenLocal, Fetch, FailDownload, Step
<1>5. QED
  BY <1>1, <1>2, <1>3, <1>4 DEF Quiet

\* Whatever a job does, the others stand where they stood; and one that has
\* not begun does nothing.
LEMMA OthersStand ==
  ASSUME TypeOK, PathOfKind, NEW j \in Jobs, StepOf(j)
  PROVE  /\ job' = job
         /\ \A k \in Jobs \ {j} : /\ pc'[k] = pc[k] /\ at'[k] = at[k]
                                  /\ placed'[k] = placed[k] /\ skipped'[k] = skipped[k]
         /\ pc'[j] = "idle" => UNCHANGED <<pc, remote, local>>
<1> USE DEF TypeOK, asked, through, disk
<1>1. CASE Quiet(j)
  BY <1>1, QuietStays
<1>2. CASE Scan(j)
  BY <1>2 DEF Scan, ScanOn, Step
<1>3. CASE Overlook(j)
  BY <1>3 DEF Overlook, ScanOn, Step
<1>4. CASE Skip(j)
  BY <1>4 DEF Skip, NextEntry
<1>5. ASSUME NEW rung \in Rungs, Rename(j, rung)
      PROVE  /\ job' = job /\ pc'[j] # "idle"
             /\ \A k \in Jobs \ {j} : /\ pc'[k] = pc[k] /\ at'[k] = at[k]
                                      /\ placed'[k] = placed[k] /\ skipped'[k] = skipped[k]
  BY <1>5 DEF Rename, NextEntry
<1>6. CASE RenameUnheard(j)
  BY <1>6 DEF RenameUnheard, NextRung
<1>7. CASE Unlink(j)
  BY <1>7 DEF Unlink, Step, NextRung
<1>8. CASE Act(j)
  BY <1>8 DEF Act
<1>9. CASE Land(j)
  BY <1>9 DEF Land, Step
<1>10. QED
  BY <1>1, <1>2, <1>3, <1>4, <1>5, <1>6, <1>7, <1>8, <1>9
     DEF StepOf, Quiet, Upload, Download, Rungs

LEMMA OthersPass ==
  ASSUME TypeOK, PathOfKind, NEW j \in Jobs, StepOf(j), NEW k \in Jobs \ {j},
         PlacedOf(k), OkOf(k)
  PROVE  (PlacedOf(k) /\ OkOf(k))'
<1>1. /\ job' = job /\ pc'[k] = pc[k] /\ at'[k] = at[k]
      /\ placed'[k] = placed[k] /\ skipped'[k] = skipped[k]
  BY OthersStand
<1>2. Alone(k)' => Alone(k) /\ UNCHANGED <<remote, local>>
  <2>1. Alone(k)' => pc'[j] = "idle"
    BY DEF Alone
  <2>2. QED
    BY <2>1, OthersStand DEF Alone
<1>3. ASSUME NEW i, Passed(k, i) PROVE Passed(k, i)'
  BY <1>1, <1>2, <1>3, PassedStays
<1>4. Last(k)' = Last(k)
  BY <1>1 DEF Last
<1>5. QED
  BY <1>1, <1>3, <1>4 DEF PlacedOf, OkOf

\* On to the next entry when this one is passed.
LEMMA NextEntryPlaces ==
  ASSUME TypeOK, NEW j \in Jobs, PlacedOf(j), pc[j] \in {"file"} \cup Staging,
         NextEntry(j), job' = job, \A i \in 1 .. at[j] : Passed(j, i)'
  PROVE  (PlacedOf(j) /\ OkOf(j))'
<1>1. Last(j)' = Last(j) /\ at[j] \in 1 .. Last(j) /\ Last(j) \in Nat
  BY LastTyped, EntriesTyped DEF Last, PlacedOf
<1>2. CASE at[j] < Last(j)
  <2>1. at'[j] = at[j] + 1 /\ pc'[j] = "file"
    BY <1>2 DEF NextEntry, TypeOK
  <2>2. at'[j] \in 1 .. Last(j)' /\ at'[j] - 1 = at[j]
    BY <1>1, <1>2, <2>1
  <2>3. QED
    BY <2>1, <2>2 DEF PlacedOf, OkOf
<1>3. CASE ~ (at[j] < Last(j))
  <2>1. at'[j] = at[j] /\ pc'[j] = "done" /\ at[j] = Last(j)
    BY <1>1, <1>3 DEF NextEntry, TypeOK
  <2>2. QED
    BY <1>1, <2>1 DEF PlacedOf, OkOf, Staging
<1>4. QED
  BY <1>2, <1>3

\* A whole staging file is the job's own file, whole.
LEMMA WholeIsOwn ==
  ASSUME TypeOK, StageIsOwn, NEW j \in Jobs, Whole(stage[j]) PROVE stage[j] = Own(j)
<1>1. stage[j] \in Contents /\ stage[j].by = j /\ stage[j].part = Chunks
  BY ContentsTyped DEF TypeOK, StageIsOwn, Whole
<1>2. QED
  BY <1>1 DEF Contents, Own

\* An entry is at one place of the walk only.
LEMMA EarlierElsewhere ==
  ASSUME TypeOK, NEW j \in Jobs, PlacedOf(j), NEW i \in 1 .. at[j] - 1
  PROVE  Entries[i] # Dest(j) /\ i \in 1 .. Last(j)
<1>1. /\ at[j] \in 1 .. Len(Entries) /\ Len(Entries) \in Nat /\ DOMAIN Entries = 1 .. Len(Entries)
      /\ at[j] <= Last(j) /\ Last(j) \in Nat
  BY EntriesTyped, LastTyped DEF TypeOK, PlacedOf
<1>2. i \in DOMAIN Entries /\ at[j] \in DOMAIN Entries /\ i # at[j]
  BY <1>1
<1>3. Entries[i] # Entries[at[j]]
  BY <1>2, TransferAssumption DEF TransferAssumption
<1>4. QED
  BY <1>1, <1>3 DEF Dest

\* What a step at the current destination does to the entries before it.
LEMMA EarlierPassed ==
  ASSUME TypeOK, NEW j \in Jobs, PlacedOf(j), pc[j] \in {"file"} \cup Staging,
         UNCHANGED <<job, local>>, placed[j] \subseteq placed'[j], skipped[j] \subseteq skipped'[j],
         \A k \in Jobs \ {j} : pc'[k] = pc[k],
         \A f \in Names \ {Dest(j)} : remote'[f] = remote[f]
  PROVE  \A i \in 1 .. at[j] - 1 : Passed(j, i)'
<1> SUFFICES ASSUME NEW i \in 1 .. at[j] - 1 PROVE Passed(j, i)'
  OBVIOUS
<1>1. Passed(j, i)
  BY DEF PlacedOf
<1>2. Entries[i] # Dest(j) /\ i \in 1 .. Last(j)
  BY EarlierElsewhere
<1>3. Entries[i] \in Names
  BY <1>2, EntriesTyped, LastTyped
<1>4. remote'[Entries[i]] = remote[Entries[i]]
  BY <1>2, <1>3
<1>5. Alone(j)' => Alone(j)
  BY DEF Alone
<1>6. QED
  BY <1>1, <1>4, <1>5, PassedStays

\* What a job's own step does to its part.
LEMMA OwnPlaces ==
  ASSUME TypeOK, PathOfKind, StageIsOwn, NEW j \in Jobs, StepOf(j), PlacedOf(j), OkOf(j)
  PROVE  (PlacedOf(j) /\ OkOf(j))'
<1>1. /\ job' = job /\ Last(j)' = Last(j)
      /\ \A k \in Jobs \ {j} : pc'[k] = pc[k]
      /\ Alone(j)' => Alone(j)
  BY OthersStand DEF Last, Alone
<1>2. at[j] \in 1 .. Last(j) /\ Last(j) \in Nat /\ Last(j) >= 1
  BY LastTyped, EntriesTyped DEF PlacedOf
<1>3. CASE Quiet(j)
  <2>1. UNCHANGED <<job, at, placed, skipped, remote, local>>
    BY <1>3, QuietStays
  <2>2. ASSUME NEW i, Passed(j, i) PROVE Passed(j, i)'
    BY <1>1, <2>1, <2>2, PassedStays
  <2>3. PlacedOf(j)'
    <3>1. pc'[j] \in {"idle", "root"} => at'[j] = 1
      BY <1>3, <2>1, QuietStays DEF PlacedOf
    <3>2. ASSUME pc'[j] \in {"file"} \cup Staging, NEW i \in 1 .. at'[j] - 1
          PROVE  Passed(j, i)'
      <4>1. pc[j] \in {"idle", "root", "file"} \cup Staging
        BY <1>3, <3>2, QuietStays
      <4>2. Passed(j, i)
        BY <2>1, <3>2, <4>1 DEF PlacedOf
      <4>3. QED
        BY <2>2, <4>2
    <3>3. QED
      BY <1>1, <1>2, <2>1, <3>1, <3>2 DEF PlacedOf
  <2>4. OkOf(j)'
    <3>1. ASSUME pc'[j] = "done", job'[j].kind \in {"upload", "save", "download"},
                 NEW i \in 1 .. Last(j)'
          PROVE  Passed(j, i)'
      <4>1. pc[j] = "done" /\ i \in 1 .. Last(j)
        BY <1>1, <1>3, <3>1, QuietStays
      <4>2. Passed(j, i)
        BY <1>1, <3>1, <4>1 DEF OkOf
      <4>3. QED
        BY <2>2, <4>2
    <3>2. QED
      BY <3>1 DEF OkOf
  <2>5. QED
    BY <2>3, <2>4
<1>4. CASE Scan(j) \/ Overlook(j)
  <2>1. pc[j] = "scan" /\ ScanOn(j)
    BY <1>4 DEF Scan, Overlook, ScanOn, Step
  <2>2. CASE at[j] < Last(j)
    <3>1. at'[j] = at[j] + 1 /\ pc'[j] = "scan"
      BY <2>1, <2>2 DEF ScanOn, Step, TypeOK
    <3>2. QED
      BY <1>1, <1>2, <2>2, <3>1 DEF PlacedOf, OkOf, Staging
  <2>3. CASE ~ (at[j] < Last(j))
    <3>1. at'[j] = 1 /\ pc'[j] = "root"
      BY <2>1, <2>3 DEF ScanOn, Step, TypeOK
    <3>2. QED
      BY <1>1, <1>2, <3>1 DEF PlacedOf, OkOf, Staging
  <2>4. QED
    BY <2>2, <2>3
<1>5. CASE Skip(j)
  <2>1. /\ pc[j] = "file" /\ NextEntry(j) /\ UNCHANGED <<remote, local, placed>>
        /\ skipped'[j] = skipped[j] \cup {Dest(j)}
    BY <1>5 DEF Skip, TypeOK, disk
  <2>2. \A i \in 1 .. at[j] - 1 : Passed(j, i)'
    BY <1>1, <2>1, EarlierPassed
  <2>3. ASSUME NEW i, i = at[j] PROVE Passed(j, i)'
    BY <2>1, <2>3 DEF Passed, Dest
  <2>4. \A i \in 1 .. at[j] : Passed(j, i)'
    BY <1>2, <2>2, <2>3
  <2>5. QED
    BY <1>1, <2>1, <2>4, NextEntryPlaces
<1>6. ASSUME NEW rung \in Rungs, Rename(j, rung) PROVE (PlacedOf(j) /\ OkOf(j))'
  <2>1. /\ pc[j] \in Rungs /\ Takes(j, pc[j]) /\ NextEntry(j) /\ UNCHANGED <<local, skipped>>
        /\ remote' = [remote EXCEPT ![Dest(j)] = stage[j]]
        /\ placed'[j] = placed[j] \cup {Dest(j)}
    BY <1>6 DEF Rename, TypeOK, disk
  <2>2. pc[j] \in Staging /\ ~Downloads(j)
    BY <2>1 DEF Rungs, Staging, PathOfKind, Downloads
  <2>3. remote'[Dest(j)] = Own(j) /\ \A f \in Names \ {Dest(j)} : remote'[f] = remote[f]
    BY <2>1, RenamedIsWhole, WholeIsOwn, LastTyped DEF TypeOK
  <2>4. \A i \in 1 .. at[j] - 1 : Passed(j, i)'
    BY <1>1, <2>1, <2>2, <2>3, EarlierPassed
  <2>5. ASSUME NEW i, i = at[j] PROVE Passed(j, i)'
    BY <1>1, <2>1, <2>2, <2>3, <2>5 DEF Passed, Landed, Target, Downloads, Own, Dest
  <2>6. \A i \in 1 .. at[j] : Passed(j, i)'
    BY <1>2, <2>4, <2>5
  <2>7. QED
    BY <1>1, <2>1, <2>2, <2>6, NextEntryPlaces
<1>7. CASE RenameUnheard(j) \/ Unlink(j)
  <2>1. /\ pc[j] \in Staging /\ UNCHANGED <<at, local, placed, skipped>>
        /\ pc'[j] \in Staging \cup {"failed"}
        /\ \A f \in Names \ {Dest(j)} : remote'[f] = remote[f]
    BY <1>7 DEF RenameUnheard, Unlink, Step, NextRung, Staging, TypeOK, disk, through
  <2>2. \A i \in 1 .. at[j] - 1 : Passed(j, i)'
    BY <1>1, <2>1, EarlierPassed
  <2>3. QED
    BY <1>1, <1>2, <2>1, <2>2 DEF PlacedOf, OkOf, Staging
<1>8. CASE Act(j)
  <2>1. pc[j] = "act" /\ job[j].kind \in {"touch", "rename", "delete"}
    BY <1>8 DEF Act, PathOfKind
  <2>2. OkOf(j)'
    BY <1>1, <2>1 DEF OkOf
  <2>3. CASE at' = [at EXCEPT ![j] = at[j] + 1] /\ at[j] < Last(j) /\ pc' = pc
    <3>1. at'[j] \in 1 .. Last(j) /\ pc'[j] = "act"
      BY <1>2, <2>1, <2>3 DEF TypeOK
    <3>2. QED
      BY <1>1, <2>2, <3>1 DEF PlacedOf, Staging
  <2>4. CASE at' = at /\ \E reply \in {"done", "failed"} : pc' = [pc EXCEPT ![j] = reply]
    <3>1. at'[j] \in 1 .. Last(j) /\ pc'[j] \in {"done", "failed"}
      BY <1>2, <2>4 DEF TypeOK
    <3>2. QED
      BY <1>1, <2>2, <3>1 DEF PlacedOf, Staging
  <2>5. QED
    BY <1>8, <2>3, <2>4 DEF Act
<1>9. CASE Land(j)
  <2>1. /\ pc[j] = "fetch" /\ pc'[j] = "done" /\ at' = at /\ Whole(stage[j])
        /\ local' = stage[j] /\ placed'[j] = Names
    BY <1>9 DEF Land, Step, Written, TypeOK
  <2>2. Downloads(j) /\ local' = Own(j)
    BY <2>1, WholeIsOwn DEF PathOfKind, Fetching, Downloads
  <2>3. ASSUME NEW i \in 1 .. Last(j) PROVE Passed(j, i)'
    <3>1. Entries[i] \in Names
      BY EntriesTyped, LastTyped
    <3>2. QED
      BY <1>1, <2>1, <2>2, <3>1 DEF Passed, Landed, Target, Downloads, Own
  <2>4. QED
    BY <1>1, <1>2, <2>1, <2>3 DEF PlacedOf, OkOf, Staging
<1>10. QED
  BY <1>3, <1>4, <1>5, <1>6, <1>7, <1>8, <1>9 DEF StepOf, Quiet, Upload, Download, Rungs

LEMMA StepPlaces ==
  TypeOK /\ PathOfKind /\ StageIsOwn /\ PlacedSoFar /\ OkIsComplete /\ [Next]_vars =>
    (PlacedSoFar /\ OkIsComplete)'
<1> SUFFICES ASSUME TypeOK, PathOfKind, StageIsOwn, \A k \in Jobs : PlacedOf(k) /\ OkOf(k),
                    [Next]_vars, NEW k \in Jobs
             PROVE  (PlacedOf(k) /\ OkOf(k))'
  BY OkIsEachOne, PlacedIsEachOne DEF PlacedSoFar, PlacedOf, OkIsComplete, OkOf, Passed, Landed
<1>1. ASSUME NEW j \in Jobs, StepOf(j) PROVE (PlacedOf(k) /\ OkOf(k))'
  BY <1>1, OwnPlaces, OthersPass
<1>2. CASE Crash \/ UNCHANGED vars
  <2>1. /\ UNCHANGED <<job, at, placed, skipped, remote, local>>
        /\ \A j \in Jobs : pc'[j] \in {pc[j], "dead"}
    <3>1. CASE Crash
      <4>1. UNCHANGED <<job, at, placed, skipped, remote, local>>
        BY <3>1 DEF Crash, asked, through, disk
      <4>2. pc' = [j \in Jobs |-> IF pc[j] \in Over \ {"idle"} THEN pc[j] ELSE "dead"]
        BY <3>1 DEF Crash
      <4>3. QED
        BY <4>1, <4>2
    <3>2. CASE UNCHANGED vars
      BY <3>2 DEF vars, asked, through, disk
    <3>3. QED
      BY <1>2, <3>1, <3>2
  <2>2. Alone(k)' => Alone(k)
    BY <2>1 DEF Alone
  <2>3. ASSUME NEW i, Passed(k, i) PROVE Passed(k, i)'
    BY <2>1, <2>2, <2>3, PassedStays
  <2>4. Last(k)' = Last(k)
    BY <2>1 DEF Last
  <2>5. QED
    BY <2>1, <2>3, <2>4 DEF PlacedOf, OkOf, Staging
<1>3. QED
  BY <1>1, <1>2 DEF Next, StepOf

LEMMA StepScans ==
  TypeOK /\ PathOfKind /\ PlacedSoFar /\ ScannedSoFar /\ PlacesOnlyFree /\ [Next]_vars =>
    (ScannedSoFar /\ PlacesOnlyFree)'
<1> SUFFICES ASSUME TypeOK, PathOfKind, PlacedSoFar, ScannedSoFar, PlacesOnlyFree, [Next]_vars
             PROVE  (ScannedSoFar /\ PlacesOnlyFree)'
  OBVIOUS
<1> USE DEF TypeOK, PathOfKind, PlacedSoFar, ScannedSoFar, PlacesOnlyFree, Last,
   Uploading, Staging, Fetching, Over, asked, through
<1>0. CASE UNCHANGED vars
  BY <1>0 DEF vars
<1>1. CASE Crash
  BY <1>1 DEF Crash
<1>2. ASSUME NEW j \in Jobs,
             \/ Begin(j) \/ FailEarly(j) \/ Upload(j) \/ Act(j) \/ Download(j)
             \/ Cancel(j) \/ LoseLink(j)
      PROVE  (ScannedSoFar /\ PlacesOnlyFree)'
  <2>1. CASE Begin(j)
    BY <2>1 DEF Begin, Step
  <2>2. CASE FailEarly(j)
    BY <2>2 DEF FailEarly
  <2>3. CASE Scan(j) \/ Overlook(j)
    <3>1. /\ pc[j] = "scan" /\ at[j] \in 1 .. Last(j) /\ Last(j) \in Nat
          /\ UNCHANGED <<job, placed>>
          /\ \A i \in 1 .. at[j] - 1 : Entries[i] \in free[j] \cup Links
      BY <2>3, LastTyped, EntriesTyped DEF Scan, Overlook, ScanOn, Step
    <3>2. /\ ScanOn(j)
          /\ free'[j] = free[j] \cup {Dest(j)} \/ (free'[j] = free[j] /\ ~Scanned(j))
          /\ \A k \in Jobs : free[k] \subseteq free'[k]
      <4>1. CASE Scan(j)
        BY <4>1 DEF Scan
      <4>2. CASE Overlook(j)
        BY <4>2 DEF Overlook
      <4>3. QED
        BY <2>3, <4>1, <4>2
    <3>3. ~Scanned(j) => Entries[at[j]] \in Links
      BY DEF Scanned, Dest
    <3>4. \A i \in 1 .. at[j] : Entries[i] \in free'[j] \cup Links
      BY <3>1, <3>2, <3>3 DEF Dest
    <3>5. PlacesOnlyFree'
      BY <3>1, <3>2
    <3>7. CASE at[j] < Last(j)
      <4>1. at' = [at EXCEPT ![j] = at[j] + 1] /\ pc' = pc
        BY <3>1, <3>2, <3>7 DEF ScanOn, Step
      <4>2. at'[j] - 1 = at[j]
        BY <3>1, <4>1
      <4>3. ScannedSoFar'
        BY <3>1, <3>2, <3>4, <4>1, <4>2
      <4>4. QED
        BY <3>5, <4>3
    <3>8. CASE ~(at[j] < Last(j))
      <4>1. at' = [at EXCEPT ![j] = 1] /\ pc' = [pc EXCEPT ![j] = "root"] /\ at[j] = Last(j)
        BY <3>1, <3>2, <3>8 DEF ScanOn, Step
      <4>2. ScannedSoFar'
        BY <3>1, <3>2, <3>4, <4>1
      <4>3. QED
        BY <3>5, <4>2
    <3>9. QED
      BY <3>7, <3>8
  <2>4. CASE Conflict(j)
    BY <2>4 DEF Conflict, Step
  <2>5. CASE Root(j)
    BY <2>5 DEF Root, Step
  <2>6. CASE OpenStage(j)
    BY <2>6 DEF OpenStage, Step
  <2>7. CASE Write(j)
    BY <2>7 DEF Write
  <2>8. CASE FinishStage(j)
    BY <2>8 DEF FinishStage, Step, Written
  <2>9. ASSUME NEW rung \in {"atomic", "overwriting", "plain"}, Rename(j, rung)
        PROVE  (ScannedSoFar /\ PlacesOnlyFree)'
    <3>1. pc[j] \in Staging /\ at[j] \in 1 .. Last(j) /\ UNCHANGED <<job, free>>
      BY <2>9 DEF Rename
    <3>2. placed' = [placed EXCEPT ![j] = placed[j] \cup {Entries[at[j]]}]
      BY <2>9 DEF Rename, Dest
    <3>3. job[j].kind = "upload" /\ ~job[j].overwrite => Entries[at[j]] \in free[j] \cup Links
      BY <3>1
    <3>4. PlacesOnlyFree'
      BY <3>1, <3>2, <3>3
    <3>5. pc' = [pc EXCEPT ![j] = "file"] \/ pc' = [pc EXCEPT ![j] = "done"]
      BY <2>9 DEF Rename, NextEntry
    <3>6. ScannedSoFar'
      <4>1. pc'[j] \in {"file", "done"} /\ \A k \in Jobs \ {j} : pc'[k] = pc[k]
        BY <3>5
      <4>2. \A k \in Jobs \ {j} : at'[k] = at[k]
        BY <2>9 DEF Rename, NextEntry
      <4>3. QED
        BY <3>1, <4>1, <4>2
    <3>7. QED
      BY <3>4, <3>6
  <2>10. CASE RenameFails(j)
    BY <2>10 DEF RenameFails, NextRung
  <2>11. CASE RenameUnheard(j)
    BY <2>11 DEF RenameUnheard, NextRung
  <2>12. CASE Unlink(j)
    BY <2>12 DEF Unlink, Step, NextRung
  <2>13. CASE FailWriting(j)
    BY <2>13 DEF FailWriting, Step
  <2>14. CASE Act(j)
    <3>1. /\ pc[j] = "act" /\ UNCHANGED <<job, free, placed>>
          /\ pc'[j] \in {"act", "done", "failed"}
          /\ \A k \in Jobs \ {j} : pc'[k] = pc[k] /\ at'[k] = at[k]
      BY <2>14 DEF Act
    <3>2. QED
      BY <3>1
  <2>15. CASE Look(j)
    BY <2>15 DEF Look, Step
  <2>16. CASE EnsureFolder(j)
    BY <2>16 DEF EnsureFolder, Step
  <2>17. CASE OpenLocal(j)
    BY <2>17 DEF OpenLocal, Step
  <2>18. CASE Fetch(j)
    BY <2>18 DEF Fetch
  <2>19. CASE Land(j)
    BY <2>19 DEF Land, Step
  <2>20. CASE FailDownload(j)
    BY <2>20 DEF FailDownload
  <2>21. CASE Cancel(j)
    BY <2>21 DEF Cancel
  <2>22. CASE LoseLink(j)
    BY <2>22 DEF LoseLink
  <2>23. CASE Skip(j)
    <3>1. pc[j] = "file" /\ UNCHANGED <<job, free, placed>>
      BY <2>23 DEF Skip
    <3>2. pc'[j] \in {"file", "done"} /\ \A k \in Jobs \ {j} : pc'[k] = pc[k] /\ at'[k] = at[k]
      BY <2>23 DEF Skip, NextEntry
    <3>3. QED
      BY <3>1, <3>2
  <2>24. QED
    BY <1>2, <2>1, <2>2, <2>3, <2>4, <2>5, <2>6, <2>7, <2>8, <2>9, <2>10, <2>11,
       <2>12, <2>13, <2>14, <2>15, <2>16, <2>17, <2>18, <2>19, <2>20, <2>21, <2>22,
       <2>23
    DEF Upload, Download
<1>3. QED
  BY <1>0, <1>1, <1>2 DEF Next

-----------------------------------------------------------------------------
(* The theorems.                                                           *)

IInv ==
  /\ TypeOK /\ PathOfKind /\ StageIsOwn /\ NeverTorn /\ NoLitter /\ FolderOfFiles
  /\ PlacedSoFar /\ OkIsComplete /\ ScannedSoFar /\ PlacesOnlyFree

LEMMA InitEstablishes == Init => IInv
<1> SUFFICES ASSUME Init PROVE IInv
  OBVIOUS
<1>1. TypeOK
  BY InitTyped
<1>2. /\ \A j \in Jobs : /\ pc[j] = "idle" /\ at[j] = 1 /\ stage[j] = Absent
                         /\ free[j] = {} /\ placed[j] = {} /\ link[j]
      /\ local = Absent
  BY DEF Init
<1>3. NeverTorn
  BY <1>2, ScenariosAssumption, ContentsTyped DEF Init, ScenariosAssumption, NeverTorn
<1>4. PathOfKind /\ StageIsOwn /\ NoLitter /\ FolderOfFiles
  BY <1>2 DEF PathOfKind, StageIsOwn, NoLitter, FolderOfFiles, Renaming, Uploading, Staging,
              Fetching
<1>5. PlacedSoFar
  BY <1>1, <1>2, LastTyped, EntriesTyped DEF PlacedSoFar, Staging
<1>6. OkIsComplete /\ ScannedSoFar /\ PlacesOnlyFree
  BY <1>2 DEF OkIsComplete, ScannedSoFar, PlacesOnlyFree, Staging
<1>7. QED
  BY <1>1, <1>3, <1>4, <1>5, <1>6 DEF IInv

LEMMA StepPreserves == IInv /\ [Next]_vars => IInv'
<1> SUFFICES ASSUME IInv, [Next]_vars PROVE IInv'
  OBVIOUS
<1>1. TypeOK' /\ PathOfKind' /\ StageIsOwn' /\ NeverTorn'
  BY StepTyped, StepKeepsPath, StepKeepsStage, StepNeverTears DEF IInv
<1>2. NoLitter' /\ FolderOfFiles'
  BY StepLeavesNoLitter, StepKeepsFolder DEF IInv
<1>3. PlacedSoFar' /\ OkIsComplete'
  BY StepPlaces DEF IInv
<1>4. ScannedSoFar' /\ PlacesOnlyFree'
  BY StepScans DEF IInv
<1>5. QED
  BY <1>1, <1>2, <1>3, <1>4 DEF IInv

LEMMA InvariantHolds == Spec => []IInv
<1>1. Init => IInv
  BY InitEstablishes
<1>2. IInv /\ [Next]_vars => IInv'
  BY StepPreserves
<1>3. QED
  BY <1>1, <1>2, PTL DEF Spec

\* The variables of the transfers keep their types.
THEOREM TypeCorrect == Spec => []TypeOK
<1>1. IInv => TypeOK
  BY DEF IInv
<1>2. QED
  BY <1>1, InvariantHolds, PTL

\* A destination is whole or absent in every state, whatever runs beside,
\* fails, is cancelled or crashes: upload_file, write_file, download_path.
THEOREM DestinationsAreNeverTorn == Spec => []NeverTorn
<1>1. IInv => NeverTorn
  BY DEF IInv
<1>2. QED
  BY <1>1, InvariantHolds, PTL

\* A failed transfer leaves no staging file on a host it can reach, and no
\* folder is taken from under a file.
THEOREM FailuresCleanUp == Spec => []FailureCleansUp
<1>1. IInv => FailureCleansUp
  BY DEF IInv, NoLitter, FolderOfFiles, FailureCleansUp
<1>2. QED
  BY <1>1, InvariantHolds, PTL

\* A transfer that reports success has renamed every entry into place but the
\* ones its walk could not read (upload_directory passes over those and says
\* Ok), and as long as nobody else has begun, each destination holds the whole
\* file of this transfer and not of a rename that was not heard of.
THEOREM SuccessIsComplete == Spec => []OkIsComplete
<1>1. IInv => OkIsComplete
  BY DEF IInv
<1>2. QED
  BY <1>1, InvariantHolds, PTL

\* upload_path without overwrite places only what its scan found free, or could
\* not look at.
THEOREM OnlyFreeIsPlaced == Spec => []PlacesOnlyFree
<1>1. IInv => PlacesOnlyFree
  BY DEF IInv
<1>2. QED
  BY <1>1, InvariantHolds, PTL

\* The rename ladder removes a destination only when its replacement is
\* whole and on the server.
THEOREM RemovalHasReplacement == Spec => RemovedForReplacement
<1>1. IInv /\ [Next]_vars =>
        [\A f \in Names : remote[f] # Absent /\ remote'[f] = Absent =>
           \E j \in Jobs : \/ pc[j] = "act" /\ job[j].kind \in {"rename", "delete"}
                           \/ /\ pc[j] = "unlink" /\ pc'[j] = "plain" /\ job[j].overwrite
                              /\ Dest(j) = f /\ Whole(stage'[j]) /\ stage'[j].by = j]_vars
  BY StepRemovesForReplacement DEF IInv
<1>2. QED
  BY <1>1, InvariantHolds, PTL DEF Spec, RemovedForReplacement

-----------------------------------------------------------------------------
(* LOG STREAMS                                                             *)

\* What is known of the records, without what the bytes become.
Fields == {"phase", "left", "kept", "said"}
Announced == {bus[i] : i \in DOMAIN bus}

LogTyped ==
  /\ LogTypeOK
  /\ viewer \in [id : Streams \cup {NoStream}, current : BOOLEAN]
  /\ ahead \in [Streams -> SUBSET Streams]
  /\ stream = [s \in Streams |-> stream[s]]
  /\ \A s \in Streams : stream[s] = [f \in Fields |-> stream[s][f]]
  /\ bus \in Seq(Announced)

\* A stream is being opened for a start that was sent and not answered.
StartsAreAwaited ==
  \A s \in Streams : stream[s].phase = "starting" => following[s] = "started"

\* Whoever still waits for a close when the viewer has an identifier was
\* waiting before the start of that was sent: its own start comes before the
\* answer.
WaitersAreAhead ==
  viewer.id # NoStream =>
    /\ following[viewer.id] \in {"started", "over"}
    /\ \A s \in Streams : following[s] = "stopping" =>
         following[viewer.id] = "started" /\ s \in ahead[viewer.id]

\* An end that is announced has happened.
EndsAreTrue ==
  \A event \in Announced :
    event.ends # "no" => viewer.id = NoStream \/ stream[viewer.id].phase = "gone"

LogIInv ==
  LogTyped /\ StartsAreAwaited /\ WaitersAreAhead /\ EndsAreTrue /\ NoOrphanStream

LEMMA LogAssumption == NoStream \notin Streams
BY LogStreamAssumption DEF LogStreamAssumption

LEMMA ElementsOf ==
  ASSUME NEW S, NEW q \in Seq(S)
  PROVE  q \in Seq({q[i] : i \in DOMAIN q})
OBVIOUS

LEMMA AppendElements ==
  ASSUME NEW S, NEW q \in Seq(S), NEW e, NEW r, r = Append(q, e)
  PROVE  /\ r \in Seq({r[i] : i \in DOMAIN r})
         /\ \A i \in DOMAIN r : r[i] = e \/ \E k \in DOMAIN q : r[i] = q[k]
<1>1. /\ Len(q) \in Nat /\ DOMAIN q = 1 .. Len(q) /\ DOMAIN r = 1 .. Len(q) + 1
      /\ \A i \in 1 .. Len(q) : r[i] = q[i]
      /\ r[Len(q) + 1] = e
  OBVIOUS
<1>2. ASSUME NEW i \in DOMAIN r PROVE r[i] = e \/ \E k \in DOMAIN q : r[i] = q[k]
  <2>1. i = Len(q) + 1 \/ i \in 1 .. Len(q)
    BY <1>1
  <2>2. QED
    BY <1>1, <2>1
<1>3. PICK T : T = S \cup {e}
  OBVIOUS
<1>4. q \in Seq(T) /\ e \in T
  BY <1>3
<1>5. r \in Seq(T)
  BY <1>4
<1>6. r \in Seq({r[i] : i \in DOMAIN r})
  BY <1>5, ElementsOf
<1>7. QED
  BY <1>2, <1>6

LEMMA TailElements ==
  ASSUME NEW S, NEW q \in Seq(S), q # << >>
  PROVE  /\ Tail(q) \in Seq({Tail(q)[i] : i \in DOMAIN Tail(q)})
         /\ \A i \in DOMAIN Tail(q) : \E k \in DOMAIN q : Tail(q)[i] = q[k]
         /\ \E k \in DOMAIN q : Head(q) = q[k]
<1>1. PICK r : r = Tail(q)
  OBVIOUS
<1>2. /\ Len(q) \in Nat /\ DOMAIN q = 1 .. Len(q) /\ r \in Seq(S) /\ DOMAIN r = 1 .. Len(q) - 1
      /\ \A i \in 1 .. Len(q) - 1 : r[i] = q[i + 1]
      /\ 1 \in DOMAIN q /\ Head(q) = q[1]
  BY <1>1
<1>3. \A i \in DOMAIN r : i + 1 \in DOMAIN q /\ r[i] = q[i + 1]
  BY <1>2
<1>4. \A x \in Seq(S) : x \in Seq({x[i] : i \in DOMAIN x})
  BY ElementsOf
<1>5. r \in Seq({r[i] : i \in DOMAIN r})
  BY <1>2, <1>4
<1>6. QED
  BY <1>1, <1>2, <1>3, <1>5

StreamTyped ==
  /\ stream = [s \in Streams |-> stream[s]]
  /\ \A s \in Streams : stream[s] = [f \in Fields |-> stream[s][f]]

Phases == {"none", "starting", "live", "gone", "refused"}

\* What a step of one stream leaves of the others.
LEMMA StreamStep ==
  ASSUME StreamTyped, NEW s \in Streams, NEW r, r = [f \in Fields |-> r[f]],
         stream' = [stream EXCEPT ![s] = r]
  PROVE  StreamTyped' /\ stream'[s] = r /\ \A t \in Streams : t # s => stream'[t] = stream[t]
<1>1. stream'[s] = r /\ \A t \in Streams : t # s => stream'[t] = stream[t]
  BY DEF StreamTyped
<1>2. stream' = [t \in Streams |-> stream'[t]]
  BY <1>1 DEF StreamTyped
<1>3. \A t \in Streams : stream'[t] = [f \in Fields |-> stream'[t][f]]
  BY <1>1 DEF StreamTyped
<1>4. QED
  BY <1>1, <1>2, <1>3 DEF StreamTyped

\* A stream comes to a phase.
LEMMA PhaseStep ==
  ASSUME StreamTyped, NEW s \in Streams, NEW phase, SetPhase(s, phase)
  PROVE  /\ StreamTyped' /\ stream'[s].phase = phase
         /\ \A t \in Streams : t # s => stream'[t].phase = stream[t].phase
<1>1. PICK p : p = stream[s]
  OBVIOUS
<1>2. PICK r : r = [p EXCEPT !.phase = phase]
  OBVIOUS
<1>3. p = [f \in Fields |-> p[f]]
  BY <1>1 DEF StreamTyped
<1>4. r = [f \in Fields |-> r[f]] /\ r.phase = phase
  BY <1>2, <1>3 DEF Fields
<1>5. stream' = [stream EXCEPT ![s] = r]
  BY <1>1, <1>2 DEF SetPhase
<1>6. QED
  BY <1>4, <1>5, StreamStep

-----------------------------------------------------------------------------
(* What the parts of the invariant need of a step.                         *)

LogShape ==
  /\ following \in [Streams -> {"unused", "stopping", "started", "over"}]
  /\ awaited \in [Streams -> Streams \cup {NoStream}]
  /\ closeAsked \subseteq Streams /\ closing \subseteq Streams
  /\ watched \in Streams \cup {NoStream}
  /\ viewer \in [id : Streams \cup {NoStream}, current : BOOLEAN]
  /\ ahead \in [Streams -> SUBSET Streams]

LEMMA TypedParts ==
  LogTyped <=> /\ LogShape /\ StreamTyped /\ bus \in Seq(Announced)
               /\ \A s \in Streams : stream[s].phase \in Phases
BY DEF LogTyped, LogTypeOK, LogShape, StreamTyped, Phases

LEMMA ViewerFacts ==
  ASSUME LogShape
  PROVE  /\ viewer.id \in Streams \cup {NoStream} /\ viewer.current \in BOOLEAN
         /\ \A id \in Streams \cup {NoStream} : \A v : v = [viewer EXCEPT !.id = id] =>
              v \in [id : Streams \cup {NoStream}, current : BOOLEAN] /\ v.id = id
              /\ (v.current <=> viewer.current)
BY DEF LogShape

\* What SendStart does, whoever calls it.
LEMMA SendStartFacts ==
  ASSUME LogTyped, NEW s \in Streams, SendStart(s)
  PROVE  /\ viewer' \in [id : Streams \cup {NoStream}, current : BOOLEAN] /\ viewer'.id = s
         /\ StreamTyped' /\ stream'[s].phase = "starting"
         /\ \A t \in Streams : t # s => stream'[t].phase = stream[t].phase
         /\ \A t \in Streams : stream'[t].phase \in Phases
         /\ ahead' \in [Streams -> SUBSET Streams]
         /\ ahead'[s] = {t \in Streams \ {s} : following[t] = "stopping"}
         /\ bus' = << >> /\ watched' = NoStream
<1>1. LogShape /\ StreamTyped /\ \A t \in Streams : stream[t].phase \in Phases
  BY TypedParts
<1>2. viewer' \in [id : Streams \cup {NoStream}, current : BOOLEAN] /\ viewer'.id = s
  BY <1>1, ViewerFacts DEF SendStart
<1>3. /\ StreamTyped' /\ stream'[s].phase = "starting"
      /\ \A t \in Streams : t # s => stream'[t].phase = stream[t].phase
  BY <1>1, PhaseStep DEF SendStart
<1>4. \A t \in Streams : stream'[t].phase \in Phases
  BY <1>1, <1>3 DEF Phases
<1>5. /\ ahead' \in [Streams -> SUBSET Streams]
      /\ ahead'[s] = {t \in Streams \ {s} : following[t] = "stopping"}
  BY <1>1 DEF SendStart, LogShape
<1>6. QED
  BY <1>2, <1>3, <1>4, <1>5 DEF SendStart, Unwatched

LEMMA NothingAnnounced ==
  ASSUME bus' = << >>
  PROVE  (bus \in Seq(Announced))' /\ EndsAreTrue'
<1>1. bus' \in Seq({bus'[i] : i \in DOMAIN bus'}) /\ DOMAIN bus' = {}
  OBVIOUS
<1>2. QED
  BY <1>1 DEF Announced, EndsAreTrue

LEMMA SameAnnounced ==
  ASSUME bus' = bus
  PROVE  Announced' = Announced
BY DEF Announced

LEMMA FollowKeeps ==
  ASSUME LogIInv, NEW s \in Streams, Follow(s)
  PROVE  LogIInv'
<1>1. LogShape /\ StreamTyped /\ \A t \in Streams : stream[t].phase \in Phases
  BY TypedParts DEF LogIInv
<1>2. viewer.id \in Streams \cup {NoStream} /\ following[s] = "unused" /\ closeAsked' = closeAsked
  BY <1>1, ViewerFacts DEF Follow
<1>3. stream[s].phase # "starting"
  BY <1>2 DEF LogIInv, StartsAreAwaited
<1>4. CASE viewer.id = NoStream
  <2>1. /\ SendStart(s) /\ following' = [following EXCEPT ![s] = "started"]
        /\ UNCHANGED <<awaited, closing>>
    BY <1>4 DEF Follow
  <2>2. /\ viewer' \in [id : Streams \cup {NoStream}, current : BOOLEAN] /\ viewer'.id = s
        /\ StreamTyped' /\ stream'[s].phase = "starting"
        /\ \A t \in Streams : t # s => stream'[t].phase = stream[t].phase
        /\ \A t \in Streams : stream'[t].phase \in Phases
        /\ ahead' \in [Streams -> SUBSET Streams]
        /\ ahead'[s] = {t \in Streams \ {s} : following[t] = "stopping"}
        /\ bus' = << >> /\ watched' = NoStream
    BY <2>1, SendStartFacts DEF LogIInv
  <2>3. (bus \in Seq(Announced))' /\ EndsAreTrue'
    BY <2>2, NothingAnnounced
  <2>4. /\ following' \in [Streams -> {"unused", "stopping", "started", "over"}]
        /\ following'[s] = "started" /\ \A t \in Streams : t # s => following'[t] = following[t]
    BY <1>1, <2>1 DEF LogShape
  <2>5. LogShape'
    BY <1>1, <1>2, <2>1, <2>2, <2>4 DEF LogShape
  <2>6. LogTyped'
    BY <2>2, <2>3, <2>5 DEF LogTyped, LogTypeOK, LogShape, StreamTyped, Phases
  <2>7. StartsAreAwaited'
    BY <2>2, <2>4 DEF LogIInv, StartsAreAwaited
  <2>8. WaitersAreAhead'
    BY <2>2, <2>4 DEF WaitersAreAhead
  <2>9. NoOrphanStream'
    BY <1>2, <1>4, <2>1, <2>2, <2>4, LogAssumption DEF LogIInv, NoOrphanStream
  <2>10. QED
    BY <2>3, <2>6, <2>7, <2>8, <2>9 DEF LogIInv
<1>5. CASE viewer.id # NoStream
  <2>1. /\ viewer' = [viewer EXCEPT !.id = NoStream] /\ DropStream
        /\ following' = [following EXCEPT ![s] = "stopping"]
        /\ awaited' = [awaited EXCEPT ![s] = viewer.id]
        /\ UNCHANGED <<ahead, stream>>
    BY <1>5 DEF Follow
  <2>2. viewer' \in [id : Streams \cup {NoStream}, current : BOOLEAN] /\ viewer'.id = NoStream
    BY <1>1, <2>1, ViewerFacts
  <2>3. closing' = closing \cup {viewer.id} /\ bus' = << >> /\ watched' = NoStream
    BY <1>5, <2>1 DEF DropStream, Unwatched
  <2>4. (bus \in Seq(Announced))' /\ EndsAreTrue'
    BY <2>3, NothingAnnounced
  <2>5. /\ following' \in [Streams -> {"unused", "stopping", "started", "over"}]
        /\ following'[s] = "stopping" /\ \A t \in Streams : t # s => following'[t] = following[t]
    BY <1>1, <2>1 DEF LogShape
  <2>6. LogShape'
    BY <1>1, <1>2, <1>5, <2>1, <2>2, <2>3, <2>5 DEF LogShape
  <2>7. StreamTyped' /\ \A t \in Streams : stream'[t].phase \in Phases
    BY <1>1, <2>1 DEF StreamTyped
  <2>8. LogTyped'
    BY <2>4, <2>6, <2>7 DEF LogTyped, LogTypeOK, LogShape, StreamTyped, Phases
  <2>9. StartsAreAwaited'
    BY <1>3, <2>1, <2>5 DEF LogIInv, StartsAreAwaited
  <2>10. WaitersAreAhead'
    BY <2>2 DEF WaitersAreAhead
  <2>11. NoOrphanStream'
    BY <1>2, <2>1, <2>3, <2>5 DEF LogIInv, NoOrphanStream
  <2>12. QED
    BY <2>4, <2>8, <2>9, <2>10, <2>11 DEF LogIInv
<1>6. QED
  BY <1>4, <1>5

LEMMA TypedAgain ==
  ASSUME LogShape', StreamTyped', \A t \in Streams : stream'[t].phase \in Phases,
         (bus \in Seq(Announced))'
  PROVE  LogTyped'
BY DEF LogTyped, LogTypeOK, LogShape, StreamTyped, Phases

LEMMA StreamsStay ==
  ASSUME LogTyped, UNCHANGED stream
  PROVE  StreamTyped' /\ \A t \in Streams : stream'[t].phase \in Phases
BY TypedParts DEF StreamTyped

LEMMA BusStays ==
  ASSUME LogTyped, UNCHANGED bus
  PROVE  (bus \in Seq(Announced))'
BY TypedParts, SameAnnounced

LEMMA AfterStopKeeps ==
  ASSUME LogIInv, NEW s \in Streams, AfterStop(s)
  PROVE  LogIInv'
<1>1. LogShape /\ StreamTyped /\ \A t \in Streams : stream[t].phase \in Phases
  BY TypedParts DEF LogIInv
<1>2. /\ following[s] = "stopping" /\ SendStart(s)
      /\ following' = [following EXCEPT ![s] = "started"]
      /\ UNCHANGED <<awaited, closeAsked, closing>>
  BY DEF AfterStop
<1>3. /\ viewer' \in [id : Streams \cup {NoStream}, current : BOOLEAN] /\ viewer'.id = s
      /\ StreamTyped' /\ stream'[s].phase = "starting"
      /\ \A t \in Streams : t # s => stream'[t].phase = stream[t].phase
      /\ \A t \in Streams : stream'[t].phase \in Phases
      /\ ahead' \in [Streams -> SUBSET Streams]
      /\ ahead'[s] = {t \in Streams \ {s} : following[t] = "stopping"}
      /\ bus' = << >> /\ watched' = NoStream
  BY <1>2, SendStartFacts DEF LogIInv
<1>4. (bus \in Seq(Announced))' /\ EndsAreTrue'
  BY <1>3, NothingAnnounced
<1>5. /\ following' \in [Streams -> {"unused", "stopping", "started", "over"}]
      /\ following'[s] = "started" /\ \A t \in Streams : t # s => following'[t] = following[t]
  BY <1>1, <1>2 DEF LogShape
<1>6. LogShape'
  BY <1>1, <1>2, <1>3, <1>5 DEF LogShape
<1>7. LogTyped'
  BY <1>3, <1>4, <1>6, TypedAgain
<1>8. StartsAreAwaited'
  BY <1>3, <1>5 DEF LogIInv, StartsAreAwaited
<1>9. WaitersAreAhead'
  BY <1>3, <1>5 DEF WaitersAreAhead
\* What the viewer had until now has not been answered, as s waited for it.
<1>10. ASSUME NEW t \in Streams, viewer.id = t PROVE following[t] = "started"
  BY <1>2, <1>10, LogAssumption DEF LogIInv, WaitersAreAhead
<1>11. NoOrphanStream'
  BY <1>2, <1>3, <1>5, <1>10 DEF LogIInv, NoOrphanStream
<1>12. QED
  BY <1>4, <1>7, <1>8, <1>9, <1>11 DEF LogIInv

LEMMA StartedKeeps ==
  ASSUME LogIInv, NEW s \in Streams, Started(s)
  PROVE  LogIInv'
<1>1. LogShape
  BY TypedParts DEF LogIInv
<1>2. /\ following[s] = "started" /\ \A t \in ahead[s] : following[t] # "stopping"
      /\ stream[s].phase \in {"live", "gone"}
      /\ following' = [following EXCEPT ![s] = "over"]
      /\ closing' = IF StillWanted(s) THEN closing ELSE closing \cup {s}
      /\ UNCHANGED <<viewer, awaited, ahead, stream, closeAsked, bus, seen, watched>>
  BY DEF Started, Replied
<1>3. /\ following' \in [Streams -> {"unused", "stopping", "started", "over"}]
      /\ following'[s] = "over" /\ \A t \in Streams : t # s => following'[t] = following[t]
  BY <1>1, <1>2 DEF LogShape
<1>4. LogShape'
  BY <1>1, <1>2, <1>3 DEF LogShape
<1>5. LogTyped'
  BY <1>2, <1>4, TypedAgain, StreamsStay, BusStays DEF LogIInv
<1>6. StartsAreAwaited'
  BY <1>2, <1>3 DEF LogIInv, StartsAreAwaited
<1>7. WaitersAreAhead'
  BY <1>2, <1>3 DEF LogIInv, WaitersAreAhead
<1>8. EndsAreTrue'
  BY <1>2, SameAnnounced DEF LogIInv, EndsAreTrue
<1>9. NoOrphanStream'
  BY <1>2, <1>3 DEF LogIInv, NoOrphanStream, StillWanted
<1>10. QED
  BY <1>5, <1>6, <1>7, <1>8, <1>9 DEF LogIInv

LEMMA StartFailedKeeps ==
  ASSUME LogIInv, NEW s \in Streams, StartFailed(s)
  PROVE  LogIInv'
<1>1. LogShape
  BY TypedParts DEF LogIInv
<1>2. /\ following[s] = "started" /\ \A t \in ahead[s] : following[t] # "stopping"
      /\ stream[s].phase = "refused"
      /\ following' = [following EXCEPT ![s] = "over"]
      /\ UNCHANGED <<awaited, ahead, stream, closeAsked, closing, bus, seen, watched>>
  BY DEF StartFailed, Replied
<1>3. /\ viewer' \in [id : Streams \cup {NoStream}, current : BOOLEAN]
      /\ viewer'.id = IF viewer.id = s THEN NoStream ELSE viewer.id
      /\ (viewer'.current <=> viewer.current)
  <2>1. PICK id : id = IF viewer.id = s THEN NoStream ELSE viewer.id
    OBVIOUS
  <2>2. id \in Streams \cup {NoStream}
    BY <1>1, <2>1, ViewerFacts
  <2>3. viewer' = [viewer EXCEPT !.id = id]
    BY <2>1 DEF StartFailed
  <2>4. QED
    BY <1>1, <2>1, <2>2, <2>3, ViewerFacts
<1>4. /\ following' \in [Streams -> {"unused", "stopping", "started", "over"}]
      /\ following'[s] = "over" /\ \A t \in Streams : t # s => following'[t] = following[t]
  BY <1>1, <1>2 DEF LogShape
<1>5. LogShape'
  BY <1>1, <1>2, <1>3, <1>4 DEF LogShape
<1>6. LogTyped'
  BY <1>2, <1>5, TypedAgain, StreamsStay, BusStays DEF LogIInv
<1>7. StartsAreAwaited'
  BY <1>2, <1>4 DEF LogIInv, StartsAreAwaited
<1>8. WaitersAreAhead'
  <2>1. CASE viewer.id = s
    BY <1>3, <2>1 DEF WaitersAreAhead
  <2>2. CASE viewer.id # s
    <3>1. viewer'.id = viewer.id /\ viewer.id \in Streams \cup {NoStream}
      BY <1>1, <1>3, <2>2, ViewerFacts
    <3>2. QED
      BY <1>2, <1>4, <2>2, <3>1 DEF LogIInv, WaitersAreAhead
  <2>3. QED
    BY <2>1, <2>2
<1>9. EndsAreTrue'
  BY <1>2, <1>3, SameAnnounced DEF LogIInv, EndsAreTrue
<1>10. NoOrphanStream'
  BY <1>2, <1>3, <1>4 DEF LogIInv, NoOrphanStream
<1>11. QED
  BY <1>6, <1>7, <1>8, <1>9, <1>10 DEF LogIInv

\* The viewer drops its identifier, if it has one, and has it closed.
LEMMA Drops ==
  ASSUME LogIInv, DropStream, viewer' \in [id : Streams \cup {NoStream}, current : BOOLEAN],
         viewer'.id = NoStream,
         UNCHANGED <<following, awaited, ahead, stream, closeAsked>>
  PROVE  LogIInv'
<1>1. LogShape
  BY TypedParts DEF LogIInv
<1>2. closing' = closing \cup ({viewer.id} \ {NoStream}) /\ bus' = << >> /\ watched' = NoStream
  BY DEF DropStream, Unwatched
<1>3. (bus \in Seq(Announced))' /\ EndsAreTrue'
  BY <1>2, NothingAnnounced
<1>4. LogShape'
  BY <1>1, <1>2, ViewerFacts DEF LogShape
<1>5. LogTyped'
  BY <1>3, <1>4, TypedAgain, StreamsStay DEF LogIInv
<1>6. StartsAreAwaited' /\ WaitersAreAhead'
  BY DEF LogIInv, StartsAreAwaited, WaitersAreAhead
<1>7. NoOrphanStream'
  BY <1>2, LogAssumption DEF LogIInv, NoOrphanStream
<1>8. QED
  BY <1>3, <1>5, <1>6, <1>7 DEF LogIInv

LEMMA PauseKeeps ==
  ASSUME LogIInv, Pause
  PROVE  LogIInv'
<1>1. LogShape
  BY TypedParts DEF LogIInv
<1>2. viewer' \in [id : Streams \cup {NoStream}, current : BOOLEAN] /\ viewer'.id = NoStream
  BY <1>1, ViewerFacts DEF Pause
<1>3. QED
  BY <1>2, Drops DEF Pause

LEMMA LeaveViewKeeps ==
  ASSUME LogIInv, LeaveView
  PROVE  LogIInv'
<1>1. LogShape
  BY TypedParts DEF LogIInv
<1>2. viewer' \in [id : Streams \cup {NoStream}, current : BOOLEAN] /\ viewer'.id = NoStream
  BY <1>1 DEF LeaveView, LogShape
<1>3. QED
  BY <1>2, Drops DEF LeaveView

\* A stream comes from one phase to another and nothing else changes.
LEMMA PhaseKeeps ==
  ASSUME LogIInv, NEW s \in Streams, StreamTyped',
         stream'[s].phase \in {"live", "refused"}, stream[s].phase = "starting",
         \A t \in Streams : t # s => stream'[t].phase = stream[t].phase,
         UNCHANGED <<viewer, following, awaited, ahead, closeAsked, closing, bus, seen, watched>>
  PROVE  LogIInv'
<1>1. LogShape /\ \A t \in Streams : stream[t].phase \in Phases
  BY TypedParts DEF LogIInv
<1>2. following[s] = "started"
  BY DEF LogIInv, StartsAreAwaited
<1>3. \A t \in Streams : stream'[t].phase \in Phases
  BY <1>1 DEF Phases
<1>4. LogTyped'
  BY <1>1, <1>3, TypedAgain, BusStays DEF LogIInv, LogShape
<1>5. StartsAreAwaited'
  BY DEF LogIInv, StartsAreAwaited
<1>6. WaitersAreAhead'
  BY DEF LogIInv, WaitersAreAhead
<1>7. EndsAreTrue'
  <2>1. SUFFICES ASSUME NEW event \in Announced', event.ends # "no", viewer.id # NoStream
                 PROVE  stream'[viewer.id].phase = "gone"
    BY DEF EndsAreTrue
  <2>2. stream[viewer.id].phase = "gone" /\ viewer.id \in Streams
    BY <1>1, <2>1, SameAnnounced, ViewerFacts DEF LogIInv, EndsAreTrue
  <2>3. QED
    BY <2>2
<1>8. NoOrphanStream'
  BY <1>2 DEF LogIInv, NoOrphanStream
<1>9. QED
  BY <1>4, <1>5, <1>6, <1>7, <1>8 DEF LogIInv

\* Fields of a stream's record that change together.
LEMMA FieldFacts ==
  ASSUME StreamTyped, NEW s \in Streams, NEW phase, NEW left, NEW kept, NEW said, NEW r,
         r = [stream[s] EXCEPT !.phase = phase, !.left = left, !.kept = kept, !.said = said]
  PROVE  r = [f \in Fields |-> r[f]] /\ r.phase = phase
<1>1. PICK p : p = stream[s]
  OBVIOUS
<1>2. p = [f \in Fields |-> p[f]]
  BY <1>1 DEF StreamTyped
<1>3. r = [p EXCEPT !.phase = phase, !.left = left, !.kept = kept, !.said = said]
  BY <1>1
<1>4. QED
  BY <1>2, <1>3 DEF Fields

LEMMA OpensStreamKeeps ==
  ASSUME LogIInv, NEW s \in Streams, OpensStream(s)
  PROVE  LogIInv'
<1>1. StreamTyped
  BY TypedParts DEF LogIInv
<1>2. PICK said \in Outputs[s] :
        stream' = [stream EXCEPT ![s].phase = "live", ![s].said = said,
                                 ![s].left = Sequence!FlattenSeq(said)]
  BY Zenon DEF OpensStream
<1>3. PICK left : left = Sequence!FlattenSeq(said)
  OBVIOUS
<1>4. PICK p : p = stream[s]
  OBVIOUS
<1>5. PICK r : r = [p EXCEPT !.phase = "live", !.said = said, !.left = left]
  OBVIOUS
<1>6. stream' = [stream EXCEPT ![s] = r]
  BY <1>1, <1>2, <1>3, <1>4, <1>5 DEF StreamTyped
<1>7. p = [f \in Fields |-> p[f]]
  BY <1>1, <1>4 DEF StreamTyped
<1>8. r = [f \in Fields |-> r[f]] /\ r.phase = "live"
  BY <1>5, <1>7 DEF Fields
<1>9. /\ StreamTyped' /\ stream'[s].phase = "live"
      /\ \A t \in Streams : t # s => stream'[t].phase = stream[t].phase
  BY <1>1, <1>6, <1>8, StreamStep
<1>10. /\ stream[s].phase = "starting"
       /\ UNCHANGED <<viewer, following, awaited, ahead, closeAsked, closing, bus, seen, watched>>
  BY DEF OpensStream
<1>11. QED
  BY <1>9, <1>10, PhaseKeeps

LEMMA StartFailsKeeps ==
  ASSUME LogIInv, NEW s \in Streams, StartFails(s)
  PROVE  LogIInv'
<1>1. StreamTyped
  BY TypedParts DEF LogIInv
<1>2. /\ stream[s].phase = "starting" /\ SetPhase(s, "refused")
      /\ UNCHANGED <<viewer, following, awaited, ahead, closeAsked, closing, bus, seen, watched>>
  BY DEF StartFails
<1>3. /\ StreamTyped' /\ stream'[s].phase = "refused"
      /\ \A t \in Streams : t # s => stream'[t].phase = stream[t].phase
  BY <1>1, <1>2, PhaseStep
<1>4. QED
  BY <1>2, <1>3, PhaseKeeps

\* What a stream emits is announced if it is the viewer's.
LEMMA EmitFacts ==
  ASSUME bus \in Seq(Announced), NEW s, NEW text, NEW ends, Emit(s, text, ends)
  PROVE  /\ (bus \in Seq(Announced))'
         /\ \A event \in Announced' : event \in Announced \/ (viewer.id = s /\ event.ends = ends)
<1>1. CASE bus' = bus
  <2>1. Announced' = Announced
    BY <1>1, SameAnnounced
  <2>2. QED
    BY <1>1, <2>1
<1>2. CASE viewer.id = s /\ bus' = Append(bus, [text |-> text, ends |-> ends])
  <2>1. PICK e : e = [text |-> text, ends |-> ends]
    OBVIOUS
  <2>2. e.ends = ends
    BY <2>1
  <2>3. PICK q, r, S : q = bus /\ r = bus' /\ S = Announced
    OBVIOUS
  <2>4. q \in Seq(S) /\ r = Append(q, e)
    BY <1>2, <2>1, <2>3
  <2>5. /\ r \in Seq({r[i] : i \in DOMAIN r})
        /\ \A i \in DOMAIN r : r[i] = e \/ \E k \in DOMAIN q : r[i] = q[k]
    BY <2>4, AppendElements
  <2>6. Announced' = {r[i] : i \in DOMAIN r} /\ Announced = {q[i] : i \in DOMAIN q}
    BY <2>3 DEF Announced
  <2>7. \A event \in Announced' : event \in Announced \/ event = e
    BY <2>5, <2>6
  <2>8. (bus \in Seq(Announced))'
    BY <2>3, <2>5, <2>6
  <2>9. QED
    BY <1>2, <2>2, <2>7, <2>8
<1>3. QED
  BY <1>1, <1>2 DEF Emit

LEMMA ReadsOutputKeeps ==
  ASSUME LogIInv, NEW s \in Streams, ReadsOutput(s)
  PROVE  LogIInv'
<1>1. LogShape /\ StreamTyped /\ bus \in Seq(Announced) /\ \A t \in Streams : stream[t].phase \in Phases
  BY TypedParts DEF LogIInv
<1>2. PICK left, kept, text :
        /\ stream' = [stream EXCEPT ![s].left = left, ![s].kept = kept]
        /\ Emit(s, text, "no")
  BY DEF ReadsOutput
<1>3. UNCHANGED <<viewer, following, awaited, ahead, closeAsked, closing, seen, watched>>
  BY DEF ReadsOutput
<1>4. PICK p : p = stream[s]
  OBVIOUS
<1>5. PICK r : r = [p EXCEPT !.left = left, !.kept = kept]
  OBVIOUS
<1>6. p = [f \in Fields |-> p[f]]
  BY <1>1, <1>4 DEF StreamTyped
<1>7. r = [f \in Fields |-> r[f]] /\ r.phase = p.phase
  BY <1>5, <1>6 DEF Fields
<1>8. stream' = [stream EXCEPT ![s] = r]
  BY <1>1, <1>2, <1>4, <1>5 DEF StreamTyped
<1>9. /\ StreamTyped' /\ stream'[s] = r
      /\ \A t \in Streams : t # s => stream'[t] = stream[t]
  BY <1>1, <1>7, <1>8, StreamStep
<1>10. \A t \in Streams : stream'[t].phase = stream[t].phase
  BY <1>4, <1>7, <1>9
<1>11. /\ (bus \in Seq(Announced))'
       /\ \A event \in Announced' : event \in Announced \/ (viewer.id = s /\ event.ends = "no")
  BY <1>1, <1>2, EmitFacts
<1>12. LogTyped'
  BY <1>1, <1>3, <1>9, <1>10, <1>11, TypedAgain DEF LogShape
<1>13. StartsAreAwaited' /\ WaitersAreAhead' /\ NoOrphanStream'
  BY <1>3, <1>10 DEF LogIInv, StartsAreAwaited, WaitersAreAhead, NoOrphanStream
<1>14. EndsAreTrue'
  <2>1. viewer.id \in Streams \cup {NoStream}
    BY <1>1, ViewerFacts
  <2>2. QED
    BY <1>3, <1>10, <1>11, <2>1 DEF LogIInv, EndsAreTrue
<1>15. QED
  BY <1>12, <1>13, <1>14 DEF LogIInv

LEMMA EndsStreamKeeps ==
  ASSUME LogIInv, NEW s \in Streams, EndsStream(s)
  PROVE  LogIInv'
<1>1. LogShape /\ StreamTyped /\ bus \in Seq(Announced) /\ \A t \in Streams : stream[t].phase \in Phases
  BY TypedParts DEF LogIInv
<1>2. PICK ends, text : Emit(s, text, ends)
  BY DEF EndsStream
<1>3. /\ stream[s].phase = "live"
      /\ stream' = [stream EXCEPT ![s].phase = "gone", ![s].left = << >>, ![s].kept = << >>]
      /\ closeAsked' = closeAsked \ {s}
      /\ UNCHANGED <<viewer, following, awaited, ahead, closing, seen, watched>>
  BY DEF EndsStream
<1>4. PICK p : p = stream[s]
  OBVIOUS
<1>5. PICK r : r = [p EXCEPT !.phase = "gone", !.left = << >>, !.kept = << >>]
  OBVIOUS
<1>6. p = [f \in Fields |-> p[f]]
  BY <1>1, <1>4 DEF StreamTyped
<1>7. r = [f \in Fields |-> r[f]] /\ r.phase = "gone"
  BY <1>5, <1>6 DEF Fields
<1>8. stream' = [stream EXCEPT ![s] = r]
  BY <1>1, <1>3, <1>4, <1>5 DEF StreamTyped
<1>9. /\ StreamTyped' /\ stream'[s].phase = "gone"
      /\ \A t \in Streams : t # s => stream'[t].phase = stream[t].phase
  BY <1>1, <1>7, <1>8, StreamStep
<1>10. /\ (bus \in Seq(Announced))'
       /\ \A event \in Announced' : event \in Announced \/ viewer.id = s
  BY <1>1, <1>2, EmitFacts
<1>11. \A t \in Streams : stream'[t].phase \in Phases
  BY <1>1, <1>9 DEF Phases
<1>12. LogTyped'
  BY <1>1, <1>3, <1>9, <1>10, <1>11, TypedAgain DEF LogShape
<1>13. StartsAreAwaited' /\ WaitersAreAhead'
  BY <1>3, <1>9 DEF LogIInv, StartsAreAwaited, WaitersAreAhead
<1>14. NoOrphanStream'
  BY <1>3, <1>9 DEF LogIInv, NoOrphanStream
<1>15. EndsAreTrue'
  <2>1. viewer.id \in Streams \cup {NoStream}
    BY <1>1, ViewerFacts
  <2>2. QED
    BY <1>3, <1>9, <1>10, <2>1 DEF LogIInv, EndsAreTrue
<1>16. QED
  BY <1>12, <1>13, <1>14, <1>15 DEF LogIInv

\* Messages to streams, and the viewer on screen again: the rest stays.
LEMMA QuietStep ==
  ASSUME LogIInv, closeAsked' \subseteq Streams, closing' \subseteq Streams,
         viewer' \in [id : Streams \cup {NoStream}, current : BOOLEAN], viewer'.id = viewer.id,
         UNCHANGED <<following, awaited, ahead, stream, bus, watched>>,
         NoOrphanStream'
  PROVE  LogIInv'
<1>1. LogShape
  BY TypedParts DEF LogIInv
<1>2. LogShape'
  BY <1>1 DEF LogShape
<1>3. LogTyped'
  BY <1>2, TypedAgain, StreamsStay, BusStays DEF LogIInv
<1>4. StartsAreAwaited' /\ WaitersAreAhead'
  BY DEF LogIInv, StartsAreAwaited, WaitersAreAhead
<1>5. EndsAreTrue'
  BY SameAnnounced DEF LogIInv, EndsAreTrue
<1>6. QED
  BY <1>3, <1>4, <1>5 DEF LogIInv

LEMMA CloseKeeps ==
  ASSUME LogIInv, NEW s \in Streams, Close(s)
  PROVE  LogIInv'
<1>1. LogShape
  BY TypedParts DEF LogIInv
<1>2. /\ closing' = closing \ {s}
      /\ closeAsked' = IF stream[s].phase = "live" THEN closeAsked \cup {s} ELSE closeAsked
      /\ UNCHANGED <<viewer, following, awaited, ahead, stream, bus, seen, watched>>
  BY DEF Close
<1>3. NoOrphanStream'
  BY <1>2 DEF LogIInv, NoOrphanStream
<1>4. QED
  BY <1>1, <1>2, <1>3, QuietStep DEF LogShape

LEMMA CloseServerKeeps ==
  ASSUME LogIInv, CloseServer
  PROVE  LogIInv'
<1>1. LogShape
  BY TypedParts DEF LogIInv
<1>2. /\ closeAsked' = closeAsked \cup {s \in Streams : stream[s].phase = "live"}
      /\ UNCHANGED <<viewer, following, awaited, ahead, stream, closing, bus, seen, watched>>
  BY DEF CloseServer
<1>3. NoOrphanStream'
  BY <1>2 DEF LogIInv, NoOrphanStream
<1>4. QED
  BY <1>1, <1>2, <1>3, QuietStep DEF LogShape

LEMMA ReturnToViewKeeps ==
  ASSUME LogIInv, ReturnToView
  PROVE  LogIInv'
<1>1. LogShape
  BY TypedParts DEF LogIInv
<1>2. UNCHANGED <<following, awaited, ahead, stream, closeAsked, closing, bus, seen, watched>>
  BY DEF ReturnToView
<1>3. /\ viewer' \in [id : Streams \cup {NoStream}, current : BOOLEAN] /\ viewer'.id = viewer.id
      /\ viewer'.current
  BY <1>1 DEF ReturnToView, LogShape
<1>4. NoOrphanStream'
  BY <1>2, <1>3 DEF LogIInv, NoOrphanStream
<1>5. QED
  BY <1>1, <1>2, <1>3, <1>4, QuietStep DEF LogShape

LEMMA DeliverKeeps ==
  ASSUME LogIInv, Deliver
  PROVE  LogIInv'
<1>1. LogShape /\ bus \in Seq(Announced)
  BY TypedParts DEF LogIInv
<1>2. PICK event : event = Head(bus)
  OBVIOUS
<1>3. /\ bus # << >> /\ bus' = Tail(bus)
      /\ viewer' = IF event.ends = "no" THEN viewer ELSE [viewer EXCEPT !.id = NoStream]
      /\ watched' = IF event.ends = "eof" THEN viewer.id ELSE NoStream
      /\ UNCHANGED <<following, awaited, ahead, stream, closeAsked, closing>>
  BY <1>2 DEF Deliver
<1>4. /\ (bus \in Seq(Announced))' /\ event \in Announced
      /\ Announced' \subseteq Announced
  <2>1. PICK q, r, S : q = bus /\ r = bus' /\ S = Announced
    OBVIOUS
  <2>2. q \in Seq(S) /\ q # << >> /\ r = Tail(q)
    BY <1>1, <1>3, <2>1
  <2>3. /\ r \in Seq({r[i] : i \in DOMAIN r})
        /\ \A i \in DOMAIN r : \E k \in DOMAIN q : r[i] = q[k]
        /\ \E k \in DOMAIN q : Head(q) = q[k]
    <3>1. /\ Tail(q) \in Seq({Tail(q)[i] : i \in DOMAIN Tail(q)})
          /\ \A i \in DOMAIN Tail(q) : \E k \in DOMAIN q : Tail(q)[i] = q[k]
          /\ \E k \in DOMAIN q : Head(q) = q[k]
      BY <2>2, TailElements
    <3>2. QED
      BY <2>2, <3>1
  <2>4. Announced' = {r[i] : i \in DOMAIN r} /\ Announced = {q[i] : i \in DOMAIN q}
    BY <2>1 DEF Announced
  <2>5. event = Head(q)
    BY <1>2, <2>1
  <2>6. QED
    BY <2>1, <2>3, <2>4, <2>5
<1>5. viewer.id \in Streams \cup {NoStream}
  BY <1>1, ViewerFacts
<1>6. /\ viewer' \in [id : Streams \cup {NoStream}, current : BOOLEAN]
      /\ viewer'.id = IF event.ends = "no" THEN viewer.id ELSE NoStream
      /\ (viewer'.current <=> viewer.current)
  <2>1. CASE event.ends = "no"
    BY <1>1, <1>3, <2>1 DEF LogShape
  <2>2. CASE event.ends # "no"
    <3>1. viewer' = [viewer EXCEPT !.id = NoStream]
      BY <1>3, <2>2
    <3>2. QED
      BY <1>1, <2>2, <3>1, ViewerFacts
  <2>3. QED
    BY <2>1, <2>2
<1>7. LogShape'
  BY <1>1, <1>3, <1>5, <1>6 DEF LogShape
<1>8. LogTyped'
  BY <1>3, <1>4, <1>7, TypedAgain, StreamsStay DEF LogIInv
<1>9. StartsAreAwaited'
  BY <1>3 DEF LogIInv, StartsAreAwaited
<1>10. WaitersAreAhead'
  BY <1>3, <1>6 DEF LogIInv, WaitersAreAhead
<1>11. EndsAreTrue'
  BY <1>3, <1>4, <1>6 DEF LogIInv, EndsAreTrue
<1>12. NoOrphanStream'
  <2>1. SUFFICES ASSUME NEW s \in Streams, stream[s].phase = "live", viewer.id = s, viewer.current
                 PROVE  viewer'.id = s
    BY <1>3, <1>6 DEF LogIInv, NoOrphanStream
  <2>2. event.ends = "no"
    BY <1>4, <2>1, LogAssumption DEF LogIInv, EndsAreTrue
  <2>3. QED
    BY <1>6, <2>1, <2>2
<1>13. QED
  BY <1>8, <1>9, <1>10, <1>11, <1>12 DEF LogIInv

LEMMA LogInitHolds == LogInit => LogIInv
<1> SUFFICES ASSUME LogInit PROVE LogIInv
  OBVIOUS
<1>1. PICK n : n = NotStarted
  OBVIOUS
<1>2. n = [f \in Fields |-> n[f]] /\ n.phase = "none"
  BY <1>1 DEF NotStarted, Fields
<1>3. stream = [s \in Streams |-> n]
  BY <1>1 DEF LogInit
<1>4. StreamTyped /\ \A s \in Streams : stream[s].phase = "none"
  BY <1>2, <1>3 DEF StreamTyped
<1>5. LogShape
  BY DEF LogInit, LogShape
<1>6. bus \in Seq(Announced) /\ Announced = {}
  <2>1. bus = << >>
    BY DEF LogInit
  <2>2. << >> \in Seq({}) /\ DOMAIN << >> = {}
    OBVIOUS
  <2>3. Announced = {}
    BY <2>1, <2>2 DEF Announced
  <2>4. QED
    BY <2>1, <2>2, <2>3
<1>7. LogTyped
  BY <1>4, <1>5, <1>6 DEF LogTyped, LogTypeOK, LogShape, StreamTyped
<1>8. viewer.id = NoStream
  BY DEF LogInit
<1>9. QED
  BY <1>4, <1>6, <1>7, <1>8
  DEF LogIInv, StartsAreAwaited, WaitersAreAhead, EndsAreTrue, NoOrphanStream

LEMMA LogStepPreserves == LogIInv /\ [LogNext]_logVars => LogIInv'
<1> SUFFICES ASSUME LogIInv, [LogNext]_logVars PROVE LogIInv'
  OBVIOUS
<1>1. CASE UNCHANGED logVars
  <2>1. UNCHANGED <<viewer, following, awaited, ahead, stream, closeAsked, closing, bus, seen, watched>>
    BY <1>1 DEF logVars
  <2>2. NoOrphanStream'
    BY <2>1 DEF LogIInv, NoOrphanStream
  <2>3. LogShape
    BY TypedParts DEF LogIInv
  <2>4. QED
    BY <2>1, <2>2, <2>3, QuietStep DEF LogShape
<1>2. ASSUME NEW s \in Streams,
             \/ Follow(s) \/ AfterStop(s) \/ Started(s) \/ StartFailed(s)
             \/ OpensStream(s) \/ StartFails(s)
             \/ ReadsOutput(s) \/ EndsStream(s) \/ Close(s)
      PROVE  LogIInv'
  BY <1>2, FollowKeeps, AfterStopKeeps, StartedKeeps, StartFailedKeeps, OpensStreamKeeps,
     StartFailsKeeps, ReadsOutputKeeps, EndsStreamKeeps, CloseKeeps
<1>3. CASE Pause \/ LeaveView \/ ReturnToView \/ Deliver \/ CloseServer
  BY <1>3, PauseKeeps, LeaveViewKeeps, ReturnToViewKeeps, DeliverKeeps, CloseServerKeeps
<1>4. QED
  BY <1>1, <1>2, <1>3 DEF LogNext

LEMMA LogInvariant == LogSpec => []LogIInv
BY LogInitHolds, LogStepPreserves, PTL DEF LogSpec

\* Every stream is in a phase that log_stream.rs knows, and the viewer has an
\* identifier or none.
THEOREM LogTypeCorrect == LogSpec => []LogTypeOK
<1>1. LogIInv => LogTypeOK
  BY DEF LogIInv, LogTyped
<1>2. QED
  BY <1>1, LogInvariant, PTL

\* No stream outlives the wish for it, however starting, stopping, restarting,
\* leaving the view and coming back interleave with the replies and events.
THEOREM NoStreamIsOrphaned == LogSpec => []NoOrphanStream
<1>1. LogIInv => NoOrphanStream
  BY DEF LogIInv
<1>2. QED
  BY <1>1, LogInvariant, PTL

-----------------------------------------------------------------------------
(* THE DECODER OF LOG STREAMS                                              *)

-----------------------------------------------------------------------------
(* What the decoder shows.                                                 *)

Bytes == Seq(ByteKinds)

\* The least of the numbers of a set.
LEMMA Least ==
  ASSUME NEW T \in SUBSET Nat, T # {}
  PROVE  \E n \in T : \A m \in T : n <= m
<1>1. PICK n \in T : \A m \in T : <<m, n>> \notin OpToRel(<, Nat)
  BY NatLessThanWellFounded, WFMin
<1>2. \A m \in T : ~(m < n)
  BY <1>1 DEF OpToRel
<1>3. QED
  BY <1>2

LEMMA WidthIs ==
  /\ ByteKinds = {"ascii", "lead2", "lead3", "cont", "never"}
  /\ \A k \in ByteKinds : Width[k] \in 0 .. 3
  /\ Width["cont"] = 0
BY DEF ByteKinds, Width

\* How many bytes of a character stand at the beginning of some bytes.
Counted(bytes, n) ==
  LET width == Width[bytes[1]]
      within == Smaller(width, Len(bytes))
  IN  /\ n \in 0 .. within
      /\ n = 0 <=> width = 0
      /\ \A i \in 2 .. n : bytes[i] = "cont"
      /\ n < within => bytes[n + 1] # "cont" \/ width = 0

LEMMA CountedOnce ==
  ASSUME NEW bytes \in Bytes, bytes # << >>
  PROVE  /\ \E n \in Nat : Counted(bytes, n)
         /\ \A m, n \in Nat : Counted(bytes, m) /\ Counted(bytes, n) => m = n
<1>1. PICK w : w = Width[bytes[1]]
  OBVIOUS
<1>2. PICK L : L = Len(bytes)
  OBVIOUS
<1>3. w \in 0 .. 3 /\ L \in Nat /\ L >= 1
  BY <1>1, <1>2, WidthIs DEF Bytes
<1>4. PICK v : v = Smaller(w, L)
  OBVIOUS
<1>5. v \in 0 .. 3 /\ (v = 0 <=> w = 0)
  BY <1>3, <1>4 DEF Smaller
<1> DEFINE B(n) == /\ n \in 0 .. v /\ (n = 0 <=> w = 0)
                   /\ \A i \in 2 .. n : bytes[i] = "cont"
                   /\ n < v => bytes[n + 1] # "cont" \/ w = 0
<1>6. \A n : Counted(bytes, n) <=> B(n)
  BY <1>1, <1>2, <1>4 DEF Counted
<1>7. \E n \in Nat : B(n)
  <2>1. CASE v = 0
    BY <1>3, <1>5, <2>1
  <2>2. CASE v = 1 \/ (v > 1 /\ bytes[2] # "cont")
    <3>1. B(1)
      BY <1>3, <1>5, <2>2
    <3>2. QED
      BY <3>1
  <2>3. CASE v > 1 /\ bytes[2] = "cont" /\ (v = 2 \/ bytes[3] # "cont")
    <3>1. B(2)
      BY <1>3, <1>5, <2>3
    <3>2. QED
      BY <3>1
  <2>4. CASE v = 3 /\ bytes[2] = "cont" /\ bytes[3] = "cont"
    <3>1. \A i \in 2 .. 3 : i = 2 \/ i = 3
      OBVIOUS
    <3>2. B(3)
      BY <1>3, <1>5, <2>4, <3>1
    <3>3. QED
      BY <3>2
  <2>5. QED
    BY <1>5, <2>1, <2>2, <2>3, <2>4
<1>8. ASSUME NEW m \in Nat, NEW n \in Nat, B(m), B(n), m < n PROVE FALSE
  <2>1. m # 0 /\ w # 0 /\ n <= v
    BY <1>8, <1>3, <1>5
  <2>2. m + 1 \in 2 .. n
    BY <1>8, <2>1
  <2>3. bytes[m + 1] = "cont"
    BY <1>8, <2>2
  <2>4. QED
    BY <1>5, <1>8, <2>1, <2>3
<1> HIDE DEF B
<1>9. \A m, n \in Nat : B(m) /\ B(n) => m = n
  <2>1. \A m, n \in Nat : m = n \/ m < n \/ n < m
    OBVIOUS
  <2>2. QED
    BY <1>8, <2>1
<1>10. QED
  BY <1>6, <1>7, <1>9

\* FirstUnit without the choice in its definition.
LEMMA UnitOf ==
  ASSUME NEW bytes \in Bytes, bytes # << >>, NEW n \in Nat, Counted(bytes, n)
  PROVE  LET width == Width[bytes[1]]
             unit == FirstUnit(bytes)
         IN  /\ width = 0 => unit = [kind |-> "error", size |-> 1]
             /\ width # 0 /\ n = width => unit = [kind |-> "char", size |-> n]
             /\ width # 0 /\ n # width /\ n = Len(bytes) => unit = [kind |-> "cut", size |-> n]
             /\ width # 0 /\ n # width /\ n # Len(bytes) => unit = [kind |-> "error", size |-> n]
<1> DEFINE width == Width[bytes[1]]
           within == Smaller(width, Len(bytes))
           good == CHOOSE k \in 0 .. within :
                     /\ k = 0 <=> width = 0
                     /\ \A i \in 2 .. k : bytes[i] = "cont"
                     /\ k < within => bytes[k + 1] # "cont" \/ width = 0
<1>1. width \in 0 .. 3 /\ Len(bytes) \in Nat /\ within \in Nat
  BY WidthIs DEF Bytes, Smaller
<1>2. Counted(bytes, good) /\ good \in 0 .. within
  BY DEF Counted
<1>3. good \in Nat
  BY <1>1, <1>2
<1> DEFINE U(k) == CASE width = 0 -> [kind |-> "error", size |-> 1]
                     [] width > 0 /\ k = width -> [kind |-> "char", size |-> k]
                     [] k < width /\ k = Len(bytes) -> [kind |-> "cut", size |-> k]
                     [] k < width /\ k < Len(bytes) -> [kind |-> "error", size |-> k]
<1>4. FirstUnit(bytes) = U(good)
  BY DEF FirstUnit
<1> HIDE DEF good, within
<1>5. good = n
  BY <1>2, <1>3, CountedOnce
<1>6. n <= width /\ n <= Len(bytes) /\ (n = 0 <=> width = 0)
  BY <1>1 DEF Counted, Smaller, width
<1> HIDE DEF width
<1>7. /\ width = 0 => U(n) = [kind |-> "error", size |-> 1]
      /\ width # 0 /\ n = width => U(n) = [kind |-> "char", size |-> n]
      /\ width # 0 /\ n # width /\ n = Len(bytes) => U(n) = [kind |-> "cut", size |-> n]
      /\ width # 0 /\ n # width /\ n # Len(bytes) => U(n) = [kind |-> "error", size |-> n]
  BY <1>1, <1>6
<1> HIDE DEF U
<1>8. QED
  BY <1>4, <1>5, <1>7 DEF width

UnitKinds == {"char", "error", "cut"}

LEMMA UnitShape ==
  ASSUME NEW bytes \in Bytes, bytes # << >>
  PROVE  /\ FirstUnit(bytes) \in [kind : UnitKinds, size : 1 .. Len(bytes)]
         /\ FirstUnit(bytes).kind = "cut" => FirstUnit(bytes).size = Len(bytes)
<1>1. PICK n \in Nat : Counted(bytes, n)
  BY CountedOnce
<1>2. PICK w : w = Width[bytes[1]]
  OBVIOUS
<1>3. PICK L : L = Len(bytes)
  OBVIOUS
<1>4. w \in 0 .. 3 /\ L \in Nat /\ L >= 1
  BY <1>2, <1>3, WidthIs DEF Bytes
<1>5. n <= w /\ n <= L /\ (n = 0 <=> w = 0)
  BY <1>1, <1>2, <1>3, <1>4 DEF Counted, Smaller
<1>6. PICK u : u = FirstUnit(bytes)
  OBVIOUS
<1>7. /\ w = 0 => u = [kind |-> "error", size |-> 1]
      /\ w # 0 /\ n = w => u = [kind |-> "char", size |-> n]
      /\ w # 0 /\ n # w /\ n = L => u = [kind |-> "cut", size |-> n]
      /\ w # 0 /\ n # w /\ n # L => u = [kind |-> "error", size |-> n]
  BY <1>1, <1>2, <1>3, <1>6, UnitOf
<1>8. u \in [kind : UnitKinds, size : 1 .. L] /\ (u.kind = "cut" => u.size = L)
  BY <1>4, <1>5, <1>7 DEF UnitKinds
<1>9. QED
  BY <1>3, <1>6, <1>8

\* A unit that has its end stays what it is, whatever follows.
LEMMA UnitStays ==
  ASSUME NEW a \in Bytes, a # << >>, NEW b \in Bytes, FirstUnit(a).kind # "cut"
  PROVE  FirstUnit(a \o b) = FirstUnit(a)
<1>1. PICK n \in Nat : Counted(a, n)
  BY CountedOnce
<1>2. PICK w : w = Width[a[1]]
  OBVIOUS
<1>3. PICK c : c = a \o b
  OBVIOUS
<1>4. PICK L : L = Len(a)
  OBVIOUS
<1>5. PICK M : M = Len(c)
  OBVIOUS
<1>6. /\ c \in Bytes /\ c # << >> /\ L \in Nat /\ L >= 1 /\ M \in Nat /\ M >= L
      /\ \A i \in 1 .. L : c[i] = a[i]
  BY <1>3, <1>4, <1>5 DEF Bytes
<1>7. w \in 0 .. 3 /\ w = Width[c[1]]
  BY <1>2, <1>6, WidthIs DEF Bytes
<1>8. /\ n \in 0 .. Smaller(w, L) /\ (n = 0 <=> w = 0)
      /\ \A i \in 2 .. n : a[i] = "cont"
      /\ n < Smaller(w, L) => a[n + 1] # "cont" \/ w = 0
  BY <1>1, <1>2, <1>4 DEF Counted
<1>9. PICK u : u = FirstUnit(a)
  OBVIOUS
<1>10. /\ w = 0 => u = [kind |-> "error", size |-> 1]
       /\ w # 0 /\ n = w => u = [kind |-> "char", size |-> n]
       /\ w # 0 /\ n # w /\ n = L => u = [kind |-> "cut", size |-> n]
       /\ w # 0 /\ n # w /\ n # L => u = [kind |-> "error", size |-> n]
  BY <1>1, <1>2, <1>4, <1>9, UnitOf
<1>11. n <= w /\ n <= L /\ (w # 0 /\ n # w => n < w /\ n < L)
  <2>1. n <= w /\ n <= L
    BY <1>6, <1>7, <1>8 DEF Smaller
  <2>2. u.kind # "cut"
    BY <1>9
  <2>3. ~(w # 0 /\ n # w /\ n = L)
    BY <1>10, <2>2
  <2>4. QED
    BY <1>6, <1>7, <2>1, <2>3
<1>12. Counted(c, n)
  <2>1. n \in 0 .. Smaller(w, M)
    BY <1>6, <1>7, <1>11 DEF Smaller
  <2>2. \A i \in 2 .. n : c[i] = "cont"
    BY <1>6, <1>8, <1>11
  <2>3. n < Smaller(w, M) => c[n + 1] # "cont" \/ w = 0
    <3>1. CASE w = 0 \/ n = w
      BY <1>6, <1>7, <3>1 DEF Smaller
    <3>2. CASE w # 0 /\ n # w
      <4>1. n < Smaller(w, L) /\ n + 1 \in 1 .. L
        BY <1>6, <1>7, <1>11, <3>2 DEF Smaller
      <4>2. QED
        BY <1>6, <1>8, <4>1
    <3>3. QED
      BY <3>1, <3>2
  <2>4. QED
    BY <1>5, <1>7, <1>8, <2>1, <2>2, <2>3 DEF Counted
<1>13. PICK v : v = FirstUnit(c)
  OBVIOUS
<1>14. /\ w = 0 => v = [kind |-> "error", size |-> 1]
       /\ w # 0 /\ n = w => v = [kind |-> "char", size |-> n]
       /\ w # 0 /\ n # w /\ n # M => v = [kind |-> "error", size |-> n]
  BY <1>5, <1>6, <1>7, <1>12, <1>13, UnitOf
<1>15. w # 0 /\ n # w => n # L /\ n # M
  BY <1>6, <1>7, <1>11
<1>16. v = u
  BY <1>10, <1>14, <1>15
<1>17. QED
  BY <1>3, <1>9, <1>13, <1>16

\* A character that is not continued is an error as long as what there is.
LEMMA UnitBreaksOff ==
  ASSUME NEW a \in Bytes, a # << >>, NEW b \in Bytes, b # << >>, b[1] # "cont",
         FirstUnit(a).kind = "cut"
  PROVE  FirstUnit(a \o b) = [kind |-> "error", size |-> Len(a)]
<1>1. PICK n \in Nat : Counted(a, n)
  BY CountedOnce
<1>2. PICK w : w = Width[a[1]]
  OBVIOUS
<1>3. PICK c : c = a \o b
  OBVIOUS
<1>4. PICK L : L = Len(a)
  OBVIOUS
<1>5. PICK M : M = Len(c)
  OBVIOUS
<1>6. /\ c \in Bytes /\ c # << >> /\ L \in Nat /\ L >= 1 /\ M \in Nat /\ M > L
      /\ \A i \in 1 .. L : c[i] = a[i]
      /\ c[L + 1] = b[1]
  BY <1>3, <1>4, <1>5 DEF Bytes
<1>7. w \in 0 .. 3 /\ w = Width[c[1]]
  BY <1>2, <1>6, WidthIs DEF Bytes
<1>8. /\ n \in 0 .. Smaller(w, L) /\ (n = 0 <=> w = 0)
      /\ \A i \in 2 .. n : a[i] = "cont"
  BY <1>1, <1>2, <1>4 DEF Counted
<1>9. w # 0 /\ n # w /\ n = L /\ n < w
  <2>1. PICK u : u = FirstUnit(a)
    OBVIOUS
  <2>2. /\ w = 0 => u = [kind |-> "error", size |-> 1]
        /\ w # 0 /\ n = w => u = [kind |-> "char", size |-> n]
        /\ w # 0 /\ n # w /\ n # L => u = [kind |-> "error", size |-> n]
    BY <1>1, <1>2, <1>4, <2>1, UnitOf
  <2>3. u.kind = "cut"
    BY <2>1
  <2>4. w # 0 /\ n # w /\ n = L
    BY <2>2, <2>3
  <2>5. QED
    BY <1>6, <1>7, <1>8, <2>4 DEF Smaller
<1>10. Counted(c, n)
  <2>1. n \in 0 .. Smaller(w, M)
    BY <1>6, <1>7, <1>9 DEF Smaller
  <2>2. \A i \in 2 .. n : c[i] = "cont"
    BY <1>6, <1>8, <1>9
  <2>3. c[n + 1] # "cont"
    BY <1>6, <1>9
  <2>4. QED
    BY <1>5, <1>7, <1>8, <2>1, <2>2, <2>3 DEF Counted
<1>11. FirstUnit(c) = [kind |-> "error", size |-> n]
  <2>1. n # M
    BY <1>6, <1>9
  <2>2. QED
    BY <1>5, <1>6, <1>7, <1>9, <1>10, <2>1, UnitOf
<1>12. QED
  BY <1>3, <1>4, <1>9, <1>11

\* Induction, on sets instead of predicates.
LEMMA ByNumber ==
  ASSUME NEW Good, 0 \in Good, \A n \in Nat : n \in Good => n + 1 \in Good
  PROVE  \A n \in Nat : n \in Good
<1> DEFINE Bad == Nat \ Good
<1>1. SUFFICES ASSUME Bad # {} PROVE FALSE
  OBVIOUS
<1>2. Bad \in SUBSET Nat
  OBVIOUS
<1>3. PICK n \in Bad : \A m \in Bad : n <= m
  <2> HIDE DEF Bad
  <2> QED
    BY <1>1, <1>2, Least
<1>4. n \in Nat /\ n # 0 /\ n \notin Good
  OBVIOUS
<1>5. n - 1 \in Nat /\ ~(n <= n - 1) /\ (n - 1) + 1 = n
  BY <1>4
<1>6. n - 1 \in Good
  BY <1>3, <1>5
<1>7. QED
  BY <1>4, <1>5, <1>6

LEMMA ByLength ==
  ASSUME NEW S, NEW Good,
         \A q \in Seq(S) : (\A r \in Seq(S) : Len(r) < Len(q) => r \in Good) => q \in Good
  PROVE  \A q \in Seq(S) : q \in Good
<1> DEFINE Bad == {n \in Nat : \E q \in Seq(S) : q \notin Good /\ Len(q) = n}
<1>1. SUFFICES ASSUME Bad # {} PROVE FALSE
  <2>1. \A q \in Seq(S) : Len(q) \in Nat
    OBVIOUS
  <2>2. \A q \in Seq(S) : q \notin Good => Len(q) \in Bad
    BY <2>1
  <2> HIDE DEF Bad
  <2>3. QED
    BY <2>2
<1>2. Bad \in SUBSET Nat
  OBVIOUS
<1>3. PICK n \in Bad : \A m \in Bad : n <= m
  <2> HIDE DEF Bad
  <2> QED
    BY <1>1, <1>2, Least
<1>4. PICK q \in Seq(S) : q \notin Good /\ n = Len(q)
  OBVIOUS
<1>5. ASSUME NEW r \in Seq(S), Len(r) < Len(q) PROVE r \in Good
  <2>1. Len(r) \in Nat /\ Len(q) \in Nat
    OBVIOUS
  <2>2. r \notin Good => Len(r) \in Bad
    BY <2>1
  <2> HIDE DEF Bad
  <2>3. r \notin Good => n <= Len(r)
    BY <1>3, <2>2
  <2>4. QED
    BY <1>4, <1>5, <2>1, <2>3
<1>6. QED
  BY <1>4, <1>5

-----------------------------------------------------------------------------
(* Drained exists: it is the union of functions on ever longer bytes.      *)

Rest(bytes) == SubSeq(bytes, FirstUnit(bytes).size + 1, Len(bytes))
Character(bytes) ==
  IF FirstUnit(bytes).kind = "char" THEN SubSeq(bytes, 1, FirstUnit(bytes).size) ELSE Replacement

\* One turn of the loop, with f for the others.
Turn(f, bytes) ==
  IF Stops(bytes) THEN [text |-> << >>, kept |-> bytes]
  ELSE [text |-> <<Character(bytes)>> \o f[Rest(bytes)].text, kept |-> f[Rest(bytes)].kept]

LEMMA RestIsShorter ==
  ASSUME NEW bytes \in Bytes, ~Stops(bytes)
  PROVE  /\ bytes # << >> /\ FirstUnit(bytes).kind # "cut"
         /\ FirstUnit(bytes).size \in 1 .. Len(bytes)
         /\ Rest(bytes) \in Bytes /\ Len(Rest(bytes)) < Len(bytes)
<1>1. bytes # << >> /\ FirstUnit(bytes).kind # "cut"
  BY DEF Stops
<1>2. PICK k : k = FirstUnit(bytes).size
  OBVIOUS
<1>3. PICK L : L = Len(bytes)
  OBVIOUS
<1>4. k \in 1 .. L /\ L \in Nat
  BY <1>1, <1>2, <1>3, UnitShape DEF Bytes
<1>5. SubSeq(bytes, k + 1, L) \in Bytes /\ Len(SubSeq(bytes, k + 1, L)) = L - k
  BY <1>3, <1>4 DEF Bytes
<1>6. QED
  BY <1>1, <1>2, <1>3, <1>4, <1>5 DEF Rest

UpTo(n) == {bytes \in Bytes : Len(bytes) <= n}
Solves(f, n) == f = [bytes \in UpTo(n) |-> Turn(f, bytes)]

LEMMA SolutionsExist == \A n \in Nat : \E f : Solves(f, n)
<1> DEFINE Good == {n \in Nat : \E f : Solves(f, n)}
<1>1. 0 \in Good
  <2> DEFINE g == [bytes \in UpTo(0) |-> [text |-> << >>, kept |-> bytes]]
  <2>1. ASSUME NEW f, NEW bytes \in UpTo(0) PROVE Turn(f, bytes) = [text |-> << >>, kept |-> bytes]
    <3>1. bytes = << >>
      BY DEF UpTo, Bytes
    <3>2. QED
      BY <3>1 DEF Turn, Stops
  <2>2. [bytes \in UpTo(0) |-> Turn(g, bytes)] = g
    BY <2>1
  <2> HIDE DEF g
  <2>3. Solves(g, 0)
    BY <2>2 DEF Solves
  <2>4. QED
    BY <2>3
<1>2. ASSUME NEW n \in Nat, n \in Good PROVE n + 1 \in Good
  <2>1. PICK f : Solves(f, n)
    BY <1>2
  <2> DEFINE g == [bytes \in UpTo(n + 1) |-> Turn(f, bytes)]
  <2>2. ASSUME NEW bytes \in UpTo(n + 1), ~Stops(bytes) PROVE f[Rest(bytes)] = g[Rest(bytes)]
    <3>1. bytes \in Bytes /\ Len(bytes) <= n + 1 /\ Len(bytes) \in Nat
      BY DEF UpTo, Bytes
    <3>2. Rest(bytes) \in Bytes /\ Len(Rest(bytes)) < Len(bytes) /\ Len(Rest(bytes)) \in Nat
      BY <2>2, <3>1, RestIsShorter DEF Bytes
    <3>3. Rest(bytes) \in UpTo(n) /\ Rest(bytes) \in UpTo(n + 1)
      BY <3>1, <3>2 DEF UpTo
    <3>4. PICK r : r = Rest(bytes)
      OBVIOUS
    <3>5. f = [b \in UpTo(n) |-> Turn(f, b)]
      BY <2>1 DEF Solves
    <3>6. f[r] = Turn(f, r)
      BY <3>3, <3>4, <3>5
    <3>7. g[r] = Turn(f, r)
      BY <3>3, <3>4
    <3>8. QED
      BY <3>4, <3>6, <3>7
  <2>3. ASSUME NEW bytes \in UpTo(n + 1) PROVE Turn(f, bytes) = Turn(g, bytes)
    <3> HIDE DEF g
    <3> QED
      BY <2>2 DEF Turn
  <2>4. g = [bytes \in UpTo(n + 1) |-> Turn(g, bytes)]
    <3>1. g = [bytes \in UpTo(n + 1) |-> Turn(f, bytes)]
      OBVIOUS
    <3> HIDE DEF g
    <3>2. QED
      BY <3>1, <2>3
  <2> HIDE DEF g
  <2>5. Solves(g, n + 1)
    BY <2>4 DEF Solves
  <2>6. QED
    BY <2>5
<1> HIDE DEF Good
<1>3. \A n \in Nat : n \in Good
  BY <1>1, <1>2, ByNumber
<1>4. QED
  BY <1>3 DEF Good

LEMMA SolutionsAgree ==
  ASSUME NEW m \in Nat, NEW n \in Nat, NEW f, NEW g, Solves(f, m), Solves(g, n)
  PROVE  \A bytes \in Bytes : bytes \in UpTo(m) /\ bytes \in UpTo(n) => f[bytes] = g[bytes]
<1> DEFINE Good == {bytes \in Bytes : bytes \in UpTo(m) /\ bytes \in UpTo(n) => f[bytes] = g[bytes]}
<1>1. ASSUME NEW bytes \in Bytes, \A r \in Bytes : Len(r) < Len(bytes) => r \in Good,
             bytes \in UpTo(m), bytes \in UpTo(n)
      PROVE  f[bytes] = g[bytes]
  <2>1. f[bytes] = Turn(f, bytes) /\ g[bytes] = Turn(g, bytes)
    <3>1. f = [b \in UpTo(m) |-> Turn(f, b)] /\ g = [b \in UpTo(n) |-> Turn(g, b)]
      BY DEF Solves
    <3>2. f[bytes] = Turn(f, bytes)
      BY <1>1, <3>1
    <3>3. g[bytes] = Turn(g, bytes)
      BY <1>1, <3>1
    <3>4. QED
      BY <3>2, <3>3
  <2>2. CASE Stops(bytes)
    BY <2>1, <2>2 DEF Turn
  <2>3. CASE ~Stops(bytes)
    <3>1. Rest(bytes) \in Bytes /\ Len(Rest(bytes)) < Len(bytes)
      BY <2>3, RestIsShorter
    <3>2. Len(bytes) \in Nat /\ Len(Rest(bytes)) \in Nat /\ Len(bytes) <= m /\ Len(bytes) <= n
      BY <1>1, <3>1 DEF UpTo, Bytes
    <3>3. Rest(bytes) \in UpTo(m) /\ Rest(bytes) \in UpTo(n)
      BY <3>1, <3>2 DEF UpTo
    <3>4. Rest(bytes) \in Good
      BY <1>1, <3>1
    <3>5. f[Rest(bytes)] = g[Rest(bytes)]
      BY <3>3, <3>4
    <3>6. QED
      BY <2>1, <3>5 DEF Turn
  <2>4. QED
    BY <2>2, <2>3
<1>2. \A bytes \in Bytes : (\A r \in Bytes : Len(r) < Len(bytes) => r \in Good) => bytes \in Good
  BY <1>1
<1> HIDE DEF Good
<1>3. \A bytes \in Bytes : bytes \in Good
  BY <1>2, ByLength DEF Bytes
<1>4. QED
  BY <1>3 DEF Good

LEMMA DrainedUnfolds == \A bytes \in Bytes : Drained[bytes] = Turn(Drained, bytes)
<1> DEFINE F(n) == CHOOSE f : Solves(f, n)
           D == [bytes \in Bytes |-> F(Len(bytes))[bytes]]
<1>1. \A n \in Nat : Solves(F(n), n)
  BY SolutionsExist
<1> HIDE DEF F
<1>2. ASSUME NEW bytes \in Bytes PROVE F(Len(bytes))[bytes] = Turn(D, bytes)
  <2>1. Len(bytes) \in Nat /\ bytes \in UpTo(Len(bytes))
    BY DEF Bytes, UpTo
  <2>2. PICK f : f = F(Len(bytes)) /\ Solves(f, Len(bytes))
    BY <1>1, <2>1
  <2>3. f[bytes] = Turn(f, bytes)
    <3>1. f = [b \in UpTo(Len(bytes)) |-> Turn(f, b)]
      BY <2>2 DEF Solves
    <3>2. QED
      BY <2>1, <3>1
  <2>4. ASSUME ~Stops(bytes) PROVE f[Rest(bytes)] = D[Rest(bytes)]
    <3>1. PICK r : r = Rest(bytes)
      OBVIOUS
    <3>2. r \in Bytes /\ Len(r) < Len(bytes) /\ Len(r) \in Nat
      BY <2>4, <3>1, RestIsShorter DEF Bytes
    <3>3. r \in UpTo(Len(r)) /\ r \in UpTo(Len(bytes))
      BY <2>1, <3>2 DEF UpTo
    <3>4. Solves(F(Len(r)), Len(r))
      BY <1>1, <3>2
    <3>5. F(Len(r))[r] = f[r]
      BY <2>1, <2>2, <3>2, <3>3, <3>4, SolutionsAgree
    <3>6. D[r] = F(Len(r))[r]
      BY <3>2
    <3>7. QED
      BY <3>1, <3>5, <3>6
  <2> HIDE DEF D
  <2>5. Turn(f, bytes) = Turn(D, bytes)
    BY <2>4 DEF Turn
  <2>6. QED
    BY <2>2, <2>3, <2>5
<1>3. D = [bytes \in Bytes |-> Turn(D, bytes)]
  <2>1. D = [bytes \in Bytes |-> F(Len(bytes))[bytes]]
    OBVIOUS
  <2> HIDE DEF D
  <2>2. QED
    BY <1>2, <2>1
<1> HIDE DEF D
<1>4. Drained = CHOOSE f : f = [bytes \in Bytes |-> Turn(f, bytes)]
  BY DEF Drained, Turn, Rest, Character, Bytes
<1>5. Drained = [bytes \in Bytes |-> Turn(Drained, bytes)]
  BY <1>3, <1>4
<1>6. QED
  BY <1>5

-----------------------------------------------------------------------------
(* Cutting: what is decoded of two reads is decoded of both at once.       *)

Units == Bytes \cup {Replacement}

LEMMA Associative ==
  ASSUME NEW S, NEW a \in Seq(S), NEW b \in Seq(S), NEW c \in Seq(S)
  PROVE  (a \o b) \o c = a \o (b \o c) /\ a \o b \in Seq(S)
OBVIOUS

LEMMA WithEmpty ==
  ASSUME NEW S, NEW a \in Seq(S)
  PROVE  a \o << >> = a /\ << >> \o a = a
OBVIOUS

LEMMA TurnFacts ==
  ASSUME NEW bytes \in Bytes
  PROVE  /\ Stops(bytes) => Drained[bytes].text = << >> /\ Drained[bytes].kept = bytes
         /\ ~Stops(bytes) =>
              /\ Drained[bytes].text = <<Character(bytes)>> \o Drained[Rest(bytes)].text
              /\ Drained[bytes].kept = Drained[Rest(bytes)].kept
<1>1. PICK x : x = Drained[Rest(bytes)].text
  OBVIOUS
<1>2. PICK y : y = Drained[Rest(bytes)].kept
  OBVIOUS
<1>3. PICK d : d = Drained[bytes]
  OBVIOUS
<1>4. PICK t : t = <<Character(bytes)>> \o x
  OBVIOUS
<1>5. d = IF Stops(bytes) THEN [text |-> << >>, kept |-> bytes] ELSE [text |-> t, kept |-> y]
  BY <1>1, <1>2, <1>3, <1>4, DrainedUnfolds DEF Turn
<1>6. /\ Stops(bytes) => d.text = << >> /\ d.kept = bytes
      /\ ~Stops(bytes) => d.text = t /\ d.kept = y
  BY <1>5
<1>7. QED
  BY <1>1, <1>2, <1>3, <1>4, <1>6

LEMMA CharacterTyped ==
  ASSUME NEW bytes \in Bytes, ~Stops(bytes)
  PROVE  Character(bytes) \in Units /\ <<Character(bytes)>> \in Seq(Units)
<1>1. PICK k : k = FirstUnit(bytes).size
  OBVIOUS
<1>2. k \in 1 .. Len(bytes) /\ Len(bytes) \in Nat
  BY <1>1, RestIsShorter DEF Bytes
<1>3. SubSeq(bytes, 1, k) \in Bytes
  BY <1>2 DEF Bytes
<1>4. Character(bytes) \in Units
  BY <1>1, <1>3 DEF Character, Units
<1>5. QED
  BY <1>4

LEMMA DrainedShape ==
  \A bytes \in Bytes : /\ Drained[bytes].text \in Seq(Units)
                       /\ Drained[bytes].kept \in Bytes
                       /\ Stops(Drained[bytes].kept)
<1> DEFINE Good == {bytes \in Bytes : /\ Drained[bytes].text \in Seq(Units)
                                      /\ Drained[bytes].kept \in Bytes
                                      /\ Stops(Drained[bytes].kept)}
<1>1. ASSUME NEW bytes \in Bytes, \A r \in Bytes : Len(r) < Len(bytes) => r \in Good
      PROVE  bytes \in Good
  <2>1. CASE Stops(bytes)
    <3>1. Drained[bytes].text = << >> /\ Drained[bytes].kept = bytes
      BY <2>1, TurnFacts
    <3>2. << >> \in Seq(Units)
      OBVIOUS
    <3>3. QED
      BY <2>1, <3>1, <3>2
  <2>2. CASE ~Stops(bytes)
    <3>1. Rest(bytes) \in Good
      BY <1>1, <2>2, RestIsShorter
    <3>2. PICK t : t = Drained[Rest(bytes)].text
      OBVIOUS
    <3>3. PICK u : u = <<Character(bytes)>>
      OBVIOUS
    <3>4. t \in Seq(Units) /\ u \in Seq(Units)
      BY <2>2, <3>1, <3>2, <3>3, CharacterTyped
    <3>5. u \o t \in Seq(Units)
      BY <3>4
    <3>6. Drained[bytes].text \in Seq(Units)
      BY <2>2, <3>2, <3>3, <3>5, TurnFacts
    <3>7. QED
      BY <2>2, <3>1, <3>6, TurnFacts
  <2>3. QED
    BY <2>1, <2>2
<1> HIDE DEF Good
<1>2. \A bytes \in Bytes : bytes \in Good
  BY <1>1, ByLength DEF Bytes
<1>3. QED
  BY <1>2 DEF Good

LEMMA SplitConcat ==
  ASSUME NEW S, NEW a \in Seq(S), NEW b \in Seq(S), NEW k \in 0 .. Len(a)
  PROVE  /\ SubSeq(a \o b, 1, k) = SubSeq(a, 1, k)
         /\ SubSeq(a \o b, k + 1, Len(a \o b)) = SubSeq(a, k + 1, Len(a)) \o b
<1>1. PICK c : c = a \o b
  OBVIOUS
<1>2. PICK L : L = Len(a)
  OBVIOUS
<1>3. PICK M : M = Len(b)
  OBVIOUS
<1>4. /\ c \in Seq(S) /\ L \in Nat /\ M \in Nat /\ k \in 0 .. L /\ Len(c) = L + M
      /\ \A i \in 1 .. L : c[i] = a[i]
      /\ \A i \in 1 .. M : c[L + i] = b[i]
  BY <1>1, <1>2, <1>3
<1>5. SubSeq(c, 1, k) = SubSeq(a, 1, k)
  <2>1. SubSeq(c, 1, k) = [i \in 1 .. k |-> c[i]] /\ SubSeq(a, 1, k) = [i \in 1 .. k |-> a[i]]
    BY <1>2, <1>4
  <2>2. \A i \in 1 .. k : c[i] = a[i]
    BY <1>4
  <2>3. QED
    BY <2>1, <2>2
<1>6. PICK p : p = SubSeq(c, k + 1, L + M)
  OBVIOUS
<1>7. PICK q : q = SubSeq(a, k + 1, L)
  OBVIOUS
<1>8. p \in Seq(S) /\ Len(p) = L + M - k /\ \A i \in 1 .. L + M - k : p[i] = c[k + i]
  BY <1>4, <1>6
<1>9. q \in Seq(S) /\ Len(q) = L - k /\ \A i \in 1 .. L - k : q[i] = a[k + i]
  <2>1. q \in Seq(S)
    BY <1>2, <1>4, <1>7
  <2>2. Len(q) = L - k
    BY <1>2, <1>4, <1>7
  <2>3. ASSUME NEW i \in 1 .. L - k PROVE q[i] = a[k + i]
    <3>1. i \in 1 .. (L - (k + 1)) + 1 /\ (k + 1) + i - 1 = k + i
      BY <1>4
    <3>2. q[i] = a[(k + 1) + i - 1]
      BY <1>2, <1>4, <1>7, <3>1
    <3>3. QED
      BY <3>1, <3>2
  <2>4. QED
    BY <2>1, <2>2, <2>3
<1>10. PICK r : r = q \o b
  OBVIOUS
<1>11. /\ r \in Seq(S) /\ Len(r) = L - k + M
       /\ \A i \in 1 .. L - k : r[i] = q[i]
       /\ \A i \in 1 .. M : r[L - k + i] = b[i]
  <2>1. PICK Q : Q = Len(q)
    OBVIOUS
  <2>2. /\ r \in Seq(S) /\ Len(r) = Q + M
        /\ \A i \in 1 .. Q : r[i] = q[i]
        /\ \A i \in 1 .. M : r[Q + i] = b[i]
    <3>1. q \in Seq(S) /\ b \in Seq(S)
      BY <1>9
    <3>2. \A x \in Seq(S), y \in Seq(S) :
            /\ x \o y \in Seq(S) /\ Len(x \o y) = Len(x) + Len(y)
            /\ \A i \in 1 .. Len(x) : (x \o y)[i] = x[i]
            /\ \A i \in 1 .. Len(y) : (x \o y)[Len(x) + i] = y[i]
      OBVIOUS
    <3>3. QED
      BY ONLY <3>1, <3>2, <1>3, <1>10, <2>1
  <2>3. Q = L - k
    BY <1>9, <2>1
  <2>4. QED
    BY <2>2, <2>3
<1>12. ASSUME NEW i \in 1 .. L + M - k PROVE p[i] = r[i]
  <2>1. CASE i <= L - k
    <3>1. i \in 1 .. L - k /\ k + i \in 1 .. L
      BY <1>4, <2>1
    <3>2. QED
      BY <1>4, <1>8, <1>9, <1>11, <3>1
  <2>2. CASE i > L - k
    <3>1. PICK j : j = i - (L - k)
      OBVIOUS
    <3>2. j \in 1 .. M /\ i = L - k + j /\ k + i = L + j
      BY <1>4, <2>2, <3>1
    <3>3. p[i] = b[j] /\ r[i] = b[j]
      BY <1>4, <1>8, <1>11, <3>2
    <3>4. QED
      BY <3>3
  <2>3. QED
    BY <1>4, <2>1, <2>2
<1>13. p = r
  <2>1. Len(p) = Len(r) /\ Len(p) = L + M - k
    BY <1>4, <1>8, <1>11
  <2>2. QED
    BY <1>8, <1>11, <1>12, <2>1
<1>14. QED
  BY <1>1, <1>2, <1>4, <1>5, <1>6, <1>7, <1>10, <1>13

LEMMA RestOfConcat ==
  ASSUME NEW a \in Bytes, ~Stops(a), NEW b \in Bytes
  PROVE  /\ a \o b \in Bytes /\ ~Stops(a \o b)
         /\ Character(a \o b) = Character(a)
         /\ Rest(a \o b) = Rest(a) \o b
<1>1. a # << >> /\ FirstUnit(a).kind # "cut" /\ FirstUnit(a).size \in 1 .. Len(a)
  BY RestIsShorter
<1>2. PICK c : c = a \o b
  OBVIOUS
<1>3. c \in Bytes /\ c # << >>
  BY <1>1, <1>2 DEF Bytes
<1>4. FirstUnit(c) = FirstUnit(a)
  BY <1>1, <1>2, UnitStays
<1>5. ~Stops(c)
  BY <1>1, <1>3, <1>4 DEF Stops
<1>6. PICK k : k = FirstUnit(a).size
  OBVIOUS
<1>7. PICK L : L = Len(a)
  OBVIOUS
<1>8. k \in 1 .. L /\ L \in Nat
  BY <1>1, <1>6, <1>7 DEF Bytes
<1>9. SubSeq(c, 1, k) = SubSeq(a, 1, k) /\ SubSeq(c, k + 1, Len(c)) = SubSeq(a, k + 1, L) \o b
  <2>1. a \in Seq(ByteKinds) /\ b \in Seq(ByteKinds) /\ k \in 0 .. Len(a)
    BY <1>7, <1>8 DEF Bytes
  <2>2. /\ SubSeq(a \o b, 1, k) = SubSeq(a, 1, k)
        /\ SubSeq(a \o b, k + 1, Len(a \o b)) = SubSeq(a, k + 1, Len(a)) \o b
    BY ONLY <2>1, SplitConcat
  <2>3. QED
    BY <1>2, <1>7, <2>2
<1>10. Character(c) = Character(a) /\ Rest(c) = Rest(a) \o b
  BY <1>4, <1>6, <1>7, <1>9 DEF Character, Rest
<1>11. QED
  BY <1>2, <1>3, <1>5, <1>10

\* emit_utf8 on the bytes of two reads, with what the first one kept.
LEMMA DrainedCut ==
  ASSUME NEW b \in Bytes
  PROVE  \A a \in Bytes :
           /\ a \o b \in Bytes /\ Drained[a].kept \o b \in Bytes
           /\ Drained[a \o b].text = Drained[a].text \o Drained[Drained[a].kept \o b].text
           /\ Drained[a \o b].kept = Drained[Drained[a].kept \o b].kept
<1> DEFINE Cut(a) ==
             /\ a \o b \in Bytes /\ Drained[a].kept \o b \in Bytes
             /\ Drained[a \o b].text = Drained[a].text \o Drained[Drained[a].kept \o b].text
             /\ Drained[a \o b].kept = Drained[Drained[a].kept \o b].kept
           Good == {a \in Bytes : Cut(a)}
<1>1. ASSUME NEW a \in Bytes PROVE a \o b \in Bytes /\ Drained[a].kept \o b \in Bytes
  <2>1. \A c \in Bytes : c \o b \in Bytes
    BY DEF Bytes
  <2>2. QED
    BY <2>1, DrainedShape
<1>2. ASSUME NEW a \in Bytes, \A r \in Bytes : Len(r) < Len(a) => r \in Good
      PROVE  Cut(a)
  <2>1. CASE Stops(a)
    <3>1. Drained[a].text = << >> /\ Drained[a].kept = a
      BY <2>1, TurnFacts
    <3>2. Drained[a \o b].text \in Seq(Units)
      BY <1>1, DrainedShape
    <3>3. << >> \o Drained[a \o b].text = Drained[a \o b].text
      BY <3>2
    <3>4. QED
      BY <1>1, <3>1, <3>3
  <2>2. CASE ~Stops(a)
    <3>1. PICK r : r = Rest(a)
      OBVIOUS
    <3>2. r \in Bytes /\ Cut(r)
      BY <1>2, <2>2, <3>1, RestIsShorter
    <3>3. ~Stops(a \o b) /\ Character(a \o b) = Character(a) /\ Rest(a \o b) = r \o b
      BY <2>2, <3>1, RestOfConcat
    <3>4. PICK u : u = <<Character(a)>>
      OBVIOUS
    <3>5. PICK t : t = Drained[r].text
      OBVIOUS
    <3>6. PICK k : k = Drained[r].kept
      OBVIOUS
    <3>7. PICK v : v = Drained[k \o b].text
      OBVIOUS
    <3>8. u \in Seq(Units) /\ t \in Seq(Units) /\ v \in Seq(Units)
      BY <1>1, <2>2, <3>2, <3>4, <3>5, <3>6, <3>7, CharacterTyped, DrainedShape
    <3>9. Drained[a].text = u \o t /\ Drained[a].kept = k
      BY <2>2, <3>1, <3>4, <3>5, <3>6, TurnFacts
    <3>10. Drained[r \o b].text = t \o v /\ Drained[r \o b].kept = Drained[k \o b].kept
      BY <3>2, <3>5, <3>6, <3>7
    <3>11. /\ Drained[a \o b].text = u \o Drained[r \o b].text
           /\ Drained[a \o b].kept = Drained[r \o b].kept
      <4>1. PICK c : c = a \o b
        OBVIOUS
      <4>2. c \in Bytes
        BY <1>1, <4>1
      <4>3. /\ Drained[c].text = <<Character(c)>> \o Drained[Rest(c)].text
            /\ Drained[c].kept = Drained[Rest(c)].kept
        BY <3>3, <4>1, <4>2, TurnFacts
      <4>4. QED
        BY <3>3, <3>4, <4>1, <4>3
    <3>12. (u \o t) \o v = u \o (t \o v)
      BY <3>8, Associative
    <3>13. Drained[a \o b].text = Drained[a].text \o Drained[Drained[a].kept \o b].text
      BY <3>7, <3>9, <3>10, <3>11, <3>12
    <3>14. Drained[a \o b].kept = Drained[Drained[a].kept \o b].kept
      BY <3>9, <3>10, <3>11
    <3>15. QED
      BY <1>1, <3>13, <3>14
  <2>3. QED
    BY <2>1, <2>2
<1> HIDE DEF Cut
<1>3. \A a \in Bytes : (\A r \in Bytes : Len(r) < Len(a) => r \in Good) => a \in Good
  BY <1>2
<1> HIDE DEF Good
<1>4. \A a \in Bytes : a \in Good
  BY <1>3, ByLength DEF Bytes
<1>5. QED
  BY <1>4 DEF Good, Cut

\* All that is shown of some bytes, if the stream ends with them.
Shown(bytes) == Drained[bytes].text \o Flushed(Drained[bytes].kept)

LEMMA FlushedTyped ==
  ASSUME NEW bytes \in Bytes
  PROVE  Flushed(bytes) \in Seq(Units)
<1>1. Replacement \in Units
  BY DEF Units
<1>2. << >> \in Seq(Units) /\ <<Replacement>> \in Seq(Units)
  BY <1>1
<1>3. QED
  BY <1>2 DEF Flushed

LEMMA ShownOfStopped ==
  ASSUME NEW bytes \in Bytes, Stops(bytes)
  PROVE  Shown(bytes) = Flushed(bytes)
<1>1. Drained[bytes].text = << >> /\ Drained[bytes].kept = bytes
  BY TurnFacts
<1>2. QED
  BY <1>1, FlushedTyped, WithEmpty DEF Shown

LEMMA ShownCut ==
  ASSUME NEW a \in Bytes, NEW b \in Bytes
  PROVE  /\ a \o b \in Bytes /\ Drained[a].kept \o b \in Bytes
         /\ Shown(a \o b) = Drained[a].text \o Shown(Drained[a].kept \o b)
         /\ Shown(Drained[a].kept \o b) \in Seq(Units)
<1>1. PICK k : k = Drained[a].kept
  OBVIOUS
<1>2. PICK t : t = Drained[a].text
  OBVIOUS
<1>3. PICK v : v = Drained[k \o b].text
  OBVIOUS
<1>4. PICK w : w = Flushed(Drained[k \o b].kept)
  OBVIOUS
<1>5. a \o b \in Bytes /\ k \o b \in Bytes
  BY <1>1, DrainedCut
<1>6. t \in Seq(Units) /\ v \in Seq(Units) /\ w \in Seq(Units)
  BY <1>1, <1>2, <1>3, <1>4, <1>5, DrainedShape, FlushedTyped
<1>7. Drained[a \o b].text = t \o v /\ Drained[a \o b].kept = Drained[k \o b].kept
  BY <1>1, <1>2, <1>3, DrainedCut
<1>8. Shown(a \o b) = (t \o v) \o w
  BY <1>4, <1>7 DEF Shown
<1>9. Shown(k \o b) = v \o w
  BY <1>3, <1>4 DEF Shown
<1>10. (t \o v) \o w = t \o (v \o w) /\ v \o w \in Seq(Units)
  BY <1>6, Associative
<1>11. QED
  BY <1>1, <1>2, <1>5, <1>8, <1>9, <1>10

-----------------------------------------------------------------------------
(* Joining sequences.                                                      *)

\* The function by which FlattenSeq is defined.
Joins(f, ss, n) ==
  f = [i \in 1 .. n |-> IF i = 1 THEN ss[i] ELSE f[i - 1] \o ss[i]]

LEMMA JoinsExist == ASSUME NEW ss PROVE \A n \in Nat : \E f : Joins(f, ss, n)
<1> DEFINE Good == {n \in Nat : \E f : Joins(f, ss, n)}
<1>1. 0 \in Good
  <2>1. Joins([i \in 1 .. 0 |-> ss[i]], ss, 0)
    BY DEF Joins
  <2>2. QED
    BY <2>1
<1>2. ASSUME NEW n \in Nat, n \in Good PROVE n + 1 \in Good
  <2>1. PICK f : Joins(f, ss, n)
    BY <1>2
  <2> DEFINE g == [i \in 1 .. n + 1 |-> IF i = 1 THEN ss[i] ELSE f[i - 1] \o ss[i]]
  <2>2. ASSUME NEW i \in 1 .. n + 1, i # 1 PROVE g[i - 1] = f[i - 1]
    <3>1. i - 1 \in 1 .. n /\ i - 1 \in 1 .. n + 1
      BY <2>2
    <3>2. PICK k : k = i - 1
      OBVIOUS
    <3>3. f = [j \in 1 .. n |-> IF j = 1 THEN ss[j] ELSE f[j - 1] \o ss[j]]
      BY <2>1 DEF Joins
    <3>4. f[k] = IF k = 1 THEN ss[k] ELSE f[k - 1] \o ss[k]
      BY <3>1, <3>2, <3>3
    <3>5. g[k] = IF k = 1 THEN ss[k] ELSE f[k - 1] \o ss[k]
      BY <3>1, <3>2
    <3>6. QED
      BY <3>2, <3>4, <3>5
  <2>3. g = [i \in 1 .. n + 1 |-> IF i = 1 THEN ss[i] ELSE g[i - 1] \o ss[i]]
    <3>1. g = [i \in 1 .. n + 1 |-> IF i = 1 THEN ss[i] ELSE f[i - 1] \o ss[i]]
      OBVIOUS
    <3> HIDE DEF g
    <3>2. QED
      BY <2>2, <3>1
  <2> HIDE DEF g
  <2>4. Joins(g, ss, n + 1)
    BY <2>3 DEF Joins
  <2>5. QED
    BY <2>4
<1> HIDE DEF Good
<1>3. \A n \in Nat : n \in Good
  BY <1>1, <1>2, ByNumber
<1>4. QED
  BY <1>3 DEF Good

\* The values of that function.
Joined(f, ss) == \A i \in 1 .. Len(ss) : f[i] = IF i = 1 THEN ss[i] ELSE f[i - 1] \o ss[i]

LEMMA FlattenIsJoined ==
  ASSUME NEW S, NEW ss \in Seq(S), ss # << >>
  PROVE  \E f : Joined(f, ss) /\ Sequence!FlattenSeq(ss) = f[Len(ss)]
<1> DEFINE N == Len(ss)
           flatten == CHOOSE f : f = [i \in 1 .. N |-> IF i = 1 THEN ss[i] ELSE f[i - 1] \o ss[i]]
<1>1. N \in Nat /\ N # 0
  OBVIOUS
<1>2. Sequence!FlattenSeq(ss) = flatten[N]
  BY <1>1, Zenon DEF Sequence!FlattenSeq
<1>3. \E f : f = [i \in 1 .. N |-> IF i = 1 THEN ss[i] ELSE f[i - 1] \o ss[i]]
  <2>1. \E f : Joins(f, ss, N)
    BY <1>1, JoinsExist
  <2>2. QED
    BY <2>1 DEF Joins
<1>4. PICK f : f = flatten
  OBVIOUS
<1>5. f = [i \in 1 .. N |-> IF i = 1 THEN ss[i] ELSE f[i - 1] \o ss[i]]
  BY <1>3, <1>4
<1>6. Joined(f, ss)
  BY <1>5 DEF Joined
<1>7. QED
  BY <1>2, <1>4, <1>6

LEMMA FlattenEmpty == Sequence!FlattenSeq(<< >>) = << >>
<1>1. Len(<< >>) = 0
  OBVIOUS
<1>2. QED
  BY <1>1, Zenon DEF Sequence!FlattenSeq

LEMMA JoinedTyped ==
  ASSUME NEW S, NEW ss \in Seq(Seq(S)), NEW f, Joined(f, ss)
  PROVE  \A i \in 1 .. Len(ss) : f[i] \in Seq(S)
<1> DEFINE Good == {n \in Nat : n \in 1 .. Len(ss) => f[n] \in Seq(S)}
<1>1. Len(ss) \in Nat /\ \A i \in 1 .. Len(ss) : ss[i] \in Seq(S)
  OBVIOUS
<1>2. 0 \in Good
  OBVIOUS
<1>3. ASSUME NEW n \in Nat, n \in Good, n + 1 \in 1 .. Len(ss) PROVE f[n + 1] \in Seq(S)
  <2>1. CASE n = 0
    BY <1>1, <1>3, <2>1 DEF Joined
  <2>2. CASE n # 0
    <3>1. n \in 1 .. Len(ss) /\ (n + 1) - 1 = n /\ n + 1 # 1
      BY <1>1, <1>3, <2>2
    <3>2. f[n] \in Seq(S) /\ ss[n + 1] \in Seq(S)
      BY <1>1, <1>3, <3>1
    <3>3. f[n + 1] = f[n] \o ss[n + 1]
      BY <1>3, <3>1 DEF Joined
    <3>4. QED
      BY <3>2, <3>3
  <2>3. QED
    BY <2>1, <2>2
<1>4. \A n \in Nat : n \in Good => n + 1 \in Good
  <2>1. SUFFICES ASSUME NEW n \in Nat, n \in Good PROVE n + 1 \in Good
    OBVIOUS
  <2>2. PICK m : m = n + 1
    OBVIOUS
  <2>3. m \in Nat
    BY <2>2
  <2>4. m \in 1 .. Len(ss) => f[m] \in Seq(S)
    BY <1>3, <2>1, <2>2
  <2>5. QED
    BY <2>2, <2>3, <2>4
<1> HIDE DEF Good
<1>5. \A n \in Nat : n \in Good
  BY <1>2, <1>4, ByNumber
<1>6. QED
  BY <1>1, <1>5 DEF Good

LEMMA FlattenTyped ==
  ASSUME NEW S, NEW ss \in Seq(Seq(S))
  PROVE  Sequence!FlattenSeq(ss) \in Seq(S)
<1>1. CASE ss = << >>
  <2>1. << >> \in Seq(S)
    OBVIOUS
  <2>2. QED
    BY <1>1, <2>1, FlattenEmpty
<1>2. CASE ss # << >>
  <2>1. PICK f : Joined(f, ss) /\ Sequence!FlattenSeq(ss) = f[Len(ss)]
    BY <1>2, FlattenIsJoined
  <2>2. Len(ss) \in 1 .. Len(ss)
    BY <1>2
  <2>3. QED
    BY <2>1, <2>2, JoinedTyped
<1>3. QED
  BY <1>1, <1>2

LEMMA FlattenLast ==
  ASSUME NEW S, NEW ss \in Seq(Seq(S)), NEW x \in Seq(S)
  PROVE  Sequence!FlattenSeq(Append(ss, x)) = Sequence!FlattenSeq(ss) \o x
<1>1. PICK tt : tt = Append(ss, x)
  OBVIOUS
<1>2. PICK N : N = Len(ss)
  OBVIOUS
<1>3. /\ N \in Nat /\ tt \in Seq(Seq(S)) /\ tt # << >> /\ Len(tt) = N + 1
      /\ \A i \in 1 .. N : tt[i] = ss[i]
      /\ tt[N + 1] = x
  BY <1>1, <1>2
<1>4. PICK f : Joined(f, tt) /\ Sequence!FlattenSeq(tt) = f[N + 1]
  BY <1>3, FlattenIsJoined
<1>5. CASE ss = << >>
  <2>1. N = 0
    BY <1>2, <1>5
  <2>2. f[1] = x
    BY <1>3, <1>4, <2>1 DEF Joined
  <2>3. << >> \o x = x
    OBVIOUS
  <2>4. QED
    BY <1>1, <1>4, <1>5, <2>1, <2>2, <2>3, FlattenEmpty
<1>6. CASE ss # << >>
  <2>1. PICK g : Joined(g, ss) /\ Sequence!FlattenSeq(ss) = g[N]
    BY <1>2, <1>6, FlattenIsJoined
  <2>2. N # 0
    BY <1>2, <1>6
  <2> DEFINE Good == {n \in Nat : n \in 1 .. N => f[n] = g[n]}
  <2>3. 0 \in Good
    OBVIOUS
  <2>4. ASSUME NEW n \in Nat, n \in Good, n + 1 \in 1 .. N PROVE f[n + 1] = g[n + 1]
    <3>1. PICK m : m = n + 1
      OBVIOUS
    <3>2. m \in 1 .. N /\ m \in 1 .. N + 1 /\ m - 1 = n
      BY <1>3, <2>4, <3>1
    <3>3. /\ f[m] = IF m = 1 THEN ss[m] ELSE f[n] \o ss[m]
          /\ g[m] = IF m = 1 THEN ss[m] ELSE g[n] \o ss[m]
      BY <1>2, <1>3, <1>4, <2>1, <3>2 DEF Joined
    <3>4. m # 1 => n \in 1 .. N
      BY <1>3, <3>2
    <3>5. m # 1 => f[n] = g[n]
      BY <2>4, <3>4
    <3>6. QED
      BY <3>1, <3>3, <3>5
  <2>5. \A n \in Nat : n \in Good => n + 1 \in Good
    BY <2>4
  <2> HIDE DEF Good
  <2>6. \A n \in Nat : n \in Good
    BY <2>3, <2>5, ByNumber
  <2>7. f[N] = g[N]
    <3>1. N \in Nat /\ N \in 1 .. N
      BY <1>3, <2>2
    <3>2. N \in Good
      BY <2>6, <3>1
    <3>3. QED
      BY <3>1, <3>2 DEF Good
  <2>8. f[N + 1] = f[N] \o x
    <3>1. PICK m : m = N + 1
      OBVIOUS
    <3>2. m \in 1 .. N + 1 /\ m # 1 /\ m - 1 = N
      BY <1>3, <2>2, <3>1
    <3>3. f[m] = f[N] \o tt[m]
      BY <1>3, <1>4, <3>2 DEF Joined
    <3>4. QED
      BY <1>3, <3>1, <3>3
  <2>9. QED
    BY <1>1, <1>4, <2>1, <2>7, <2>8
<1>7. QED
  BY <1>5, <1>6

LEMMA FlattenFirst ==
  ASSUME NEW S, NEW ss \in Seq(Seq(S)), ss # << >>
  PROVE  /\ Sequence!FlattenSeq(ss) = ss[1] \o Sequence!FlattenSeq(Tail(ss))
         /\ ss[1] \in Seq(S) /\ Sequence!FlattenSeq(Tail(ss)) \in Seq(S)
<1>1. PICK tt : tt = Tail(ss)
  OBVIOUS
<1>2. PICK N : N = Len(tt)
  OBVIOUS
<1>3. /\ N \in Nat /\ tt \in Seq(Seq(S)) /\ Len(ss) = N + 1
      /\ \A i \in 1 .. N : tt[i] = ss[i + 1]
      /\ ss[1] \in Seq(S)
  BY <1>1, <1>2
<1>4. PICK f : Joined(f, ss) /\ Sequence!FlattenSeq(ss) = f[N + 1]
  BY <1>3, FlattenIsJoined
<1>5. f[1] = ss[1]
  BY <1>3, <1>4 DEF Joined
<1>6. Sequence!FlattenSeq(tt) \in Seq(S)
  BY <1>3, FlattenTyped
<1>7. CASE tt = << >>
  <2>1. N = 0 /\ N + 1 = 1
    BY <1>2, <1>7
  <2>2. ss[1] \o << >> = ss[1]
    BY <1>3
  <2>3. Sequence!FlattenSeq(tt) = << >>
    BY <1>7, FlattenEmpty
  <2>4. Sequence!FlattenSeq(ss) = ss[1]
    BY <1>4, <1>5, <2>1
  <2>5. QED
    BY <1>1, <1>3, <1>6, <2>2, <2>3, <2>4
<1>8. CASE tt # << >>
  <2>1. PICK g : Joined(g, tt) /\ Sequence!FlattenSeq(tt) = g[N]
    BY <1>2, <1>3, <1>8, FlattenIsJoined
  <2>2. N # 0
    BY <1>2, <1>3, <1>8
  <2>3. PICK s1 : s1 = ss[1]
    OBVIOUS
  <2>4. \A i \in 1 .. N : g[i] \in Seq(S)
    BY <1>2, <1>3, <2>1, JoinedTyped
  <2> DEFINE Good == {n \in Nat : n \in 1 .. N => f[n + 1] = s1 \o g[n]}
  <2>5. 0 \in Good
    OBVIOUS
  <2>6. ASSUME NEW n \in Nat, n \in Good, n + 1 \in 1 .. N PROVE f[(n + 1) + 1] = s1 \o g[n + 1]
    <3>1. PICK m : m = n + 1
      OBVIOUS
    <3>2. PICK k : k = m + 1
      OBVIOUS
    <3>3. m \in 1 .. N /\ k \in 1 .. N + 1 /\ m - 1 = n /\ k - 1 = m /\ k # 1
      BY <1>3, <2>6, <3>1, <3>2
    <3>4. f[k] = f[m] \o tt[m] /\ tt[m] \in Seq(S)
      <4>1. f[k] = f[m] \o ss[k]
        BY <1>3, <1>4, <3>3 DEF Joined
      <4>2. tt[m] = ss[k]
        BY <1>3, <3>2, <3>3
      <4>3. tt[m] \in Seq(S)
        BY <1>2, <1>3, <3>3
      <4>4. QED
        BY <4>1, <4>2, <4>3
    <3>5. g[m] = IF m = 1 THEN tt[m] ELSE g[n] \o tt[m]
      BY <1>2, <2>1, <3>3 DEF Joined
    <3>6. CASE m = 1
      BY <1>5, <2>3, <3>1, <3>2, <3>4, <3>5, <3>6
    <3>7. CASE m # 1
      <4>1. n \in 1 .. N
        BY <1>3, <3>3, <3>7
      <4>2. f[m] = s1 \o g[n]
        BY <2>6, <3>1, <4>1
      <4>3. s1 \in Seq(S) /\ g[n] \in Seq(S)
        BY <1>3, <2>3, <2>4, <4>1
      <4>4. (s1 \o g[n]) \o tt[m] = s1 \o (g[n] \o tt[m])
        <5>1. \A a \in Seq(S), b \in Seq(S), c \in Seq(S) : (a \o b) \o c = a \o (b \o c)
          BY Associative
        <5>2. QED
          BY ONLY <5>1, <3>4, <4>3
      <4>5. QED
        BY <3>1, <3>2, <3>4, <3>5, <3>7, <4>2, <4>4
    <3>8. QED
      BY <3>6, <3>7
  <2>7. \A n \in Nat : n \in Good => n + 1 \in Good
    <3>1. SUFFICES ASSUME NEW n \in Nat, n \in Good PROVE n + 1 \in Good
      OBVIOUS
    <3>2. PICK m : m = n + 1
      OBVIOUS
    <3>3. m \in Nat
      BY <3>2
    <3>4. m \in 1 .. N => f[m + 1] = s1 \o g[m]
      BY <2>6, <3>1, <3>2
    <3>5. QED
      BY <3>2, <3>3, <3>4
  <2> HIDE DEF Good
  <2>8. \A n \in Nat : n \in Good
    BY <2>5, <2>7, ByNumber
  <2>9. f[N + 1] = s1 \o g[N]
    <3>1. N \in Good /\ N \in 1 .. N
      BY <1>3, <2>2, <2>8
    <3>2. QED
      BY <3>1 DEF Good
  <2>10. QED
    BY <1>1, <1>3, <1>4, <1>6, <2>1, <2>3, <2>9
<1>9. QED
  BY <1>7, <1>8

-----------------------------------------------------------------------------
(* The whole output.                                                       *)

LEMMA ShownTyped == \A bytes \in Bytes : Shown(bytes) \in Seq(Units)
<1>1. SUFFICES ASSUME NEW bytes \in Bytes PROVE Shown(bytes) \in Seq(Units)
  OBVIOUS
<1>2. PICK t : t = Drained[bytes].text
  OBVIOUS
<1>3. PICK w : w = Flushed(Drained[bytes].kept)
  OBVIOUS
<1>4. t \in Seq(Units) /\ w \in Seq(Units)
  BY <1>2, <1>3, DrainedShape, FlushedTyped
<1>5. t \o w \in Seq(Units)
  BY <1>4
<1>6. QED
  BY <1>2, <1>3, <1>5 DEF Shown

\* The first unit of some bytes is shown first.
LEMMA ShownFirst ==
  ASSUME NEW u \in Bytes, u # << >>, NEW b \in Bytes,
         FirstUnit(u \o b).kind # "cut", FirstUnit(u \o b).size = Len(u)
  PROVE  Shown(u \o b) = <<IF FirstUnit(u \o b).kind = "char" THEN u ELSE Replacement>> \o Shown(b)
<1>1. PICK c : c = u \o b
  OBVIOUS
<1>2. c \in Bytes /\ c # << >>
  BY <1>1 DEF Bytes
<1>3. ~Stops(c)
  BY <1>1, <1>2 DEF Stops
<1>4. PICK L : L = Len(u)
  OBVIOUS
<1>5. SubSeq(c, 1, L) = u /\ SubSeq(c, L + 1, Len(c)) = b
  <2>1. u \in Seq(ByteKinds) /\ b \in Seq(ByteKinds) /\ Len(u) \in 0 .. Len(u)
    BY DEF Bytes
  <2>2. /\ SubSeq(u \o b, 1, Len(u)) = SubSeq(u, 1, Len(u))
        /\ SubSeq(u \o b, Len(u) + 1, Len(u \o b)) = SubSeq(u, Len(u) + 1, Len(u)) \o b
    BY ONLY <2>1, SplitConcat
  <2>3. SubSeq(u, 1, Len(u)) = u
    BY <2>1
  <2>4. SubSeq(u, Len(u) + 1, Len(u)) = << >>
    BY <2>1
  <2>5. << >> \o b = b
    BY <2>1
  <2>6. QED
    BY <1>1, <1>4, <2>2, <2>3, <2>4, <2>5
<1>6. Rest(c) = b /\ Character(c) = IF FirstUnit(c).kind = "char" THEN u ELSE Replacement
  BY <1>1, <1>4, <1>5 DEF Rest, Character
<1>7. PICK x : x = <<Character(c)>>
  OBVIOUS
<1>8. PICK t : t = Drained[b].text
  OBVIOUS
<1>9. PICK w : w = Flushed(Drained[b].kept)
  OBVIOUS
<1>10. x \in Seq(Units) /\ t \in Seq(Units) /\ w \in Seq(Units)
  BY <1>2, <1>3, <1>7, <1>8, <1>9, CharacterTyped, DrainedShape, FlushedTyped
<1>11. Drained[c].text = x \o t /\ Flushed(Drained[c].kept) = w
  BY <1>2, <1>3, <1>6, <1>7, <1>8, <1>9, TurnFacts
<1>12. (x \o t) \o w = x \o (t \o w)
  BY <1>10, Associative
<1>13. Shown(c) = x \o Shown(b)
  BY <1>8, <1>9, <1>11, <1>12 DEF Shown
<1>14. QED
  BY <1>1, <1>6, <1>7, <1>13

Piece(u) == IF FirstUnit(u).kind = "char" THEN u ELSE Replacement

LEMMA ReadableFirst ==
  ASSUME NEW said \in Seq(Bytes), said # << >>
  PROVE  Readable(said) = <<Piece(said[1])>> \o Readable(Tail(said))
<1>1. PICK t : t = Tail(said)
  OBVIOUS
<1>2. PICK N : N = Len(t)
  OBVIOUS
<1>3. /\ N \in Nat /\ t \in Seq(Bytes) /\ Len(said) = N + 1
      /\ DOMAIN t = 1 .. N /\ DOMAIN said = 1 .. N + 1
      /\ \A i \in 1 .. N : t[i] = said[i + 1]
      /\ \A i \in 1 .. N + 1 : said[i] \in Bytes
  BY <1>1, <1>2
<1>4. \A u \in Bytes : Piece(u) \in Units
  BY DEF Piece, Units
<1>5. PICK r : r = Readable(said)
  OBVIOUS
<1>6. PICK q : q = Readable(t)
  OBVIOUS
<1>7. r = [i \in 1 .. N + 1 |-> Piece(said[i])]
  BY <1>3, <1>5 DEF Readable, Piece
<1>8. q = [i \in 1 .. N |-> Piece(t[i])]
  BY <1>3, <1>6 DEF Readable, Piece
<1>9. r \in Seq(Units) /\ Len(r) = N + 1
  BY <1>3, <1>4, <1>7
<1>10. q \in Seq(Units) /\ Len(q) = N
  <2>1. \A i \in 1 .. N : t[i] \in Bytes
    BY <1>3
  <2>2. QED
    BY <1>3, <1>4, <1>8, <2>1
<1>11. PICK e : e = Piece(said[1])
  OBVIOUS
<1>12. e \in Units
  BY <1>3, <1>4, <1>11
<1>13. PICK v : v = <<e>> \o q
  OBVIOUS
<1>14. /\ v \in Seq(Units) /\ Len(v) = N + 1 /\ v[1] = e
       /\ \A i \in 1 .. N : v[i + 1] = q[i]
  BY <1>3, <1>10, <1>12, <1>13
<1>15. ASSUME NEW i \in 1 .. N + 1 PROVE r[i] = v[i]
  <2>1. CASE i = 1
    BY <1>3, <1>7, <1>11, <1>14, <2>1
  <2>2. CASE i # 1
    <3>1. PICK k : k = i - 1
      OBVIOUS
    <3>2. k \in 1 .. N /\ i = k + 1
      BY <1>3, <2>2, <3>1
    <3>3. v[i] = q[k] /\ q[k] = Piece(t[k]) /\ t[k] = said[i]
      BY <1>3, <1>8, <1>14, <3>2
    <3>4. r[i] = Piece(said[i])
      BY <1>7
    <3>5. QED
      BY <3>3, <3>4
  <2>3. QED
    BY <2>1, <2>2
<1>16. r = v
  <2>1. \A a \in Seq(Units), b \in Seq(Units) :
          Len(a) = Len(b) /\ (\A i \in 1 .. Len(a) : a[i] = b[i]) => a = b
    OBVIOUS
  <2>2. r \in Seq(Units) /\ v \in Seq(Units) /\ Len(r) = Len(v) /\ \A i \in 1 .. Len(r) : r[i] = v[i]
    BY <1>9, <1>14, <1>15
  <2>3. QED
    BY ONLY <2>1, <2>2
<1>17. QED
  BY <1>1, <1>5, <1>6, <1>11, <1>13, <1>16

LEMMA PiecesFacts ==
  ASSUME NEW said, Pieces(said)
  PROVE  /\ said \in Seq(Bytes)
         /\ \A i \in DOMAIN said :
              /\ said[i] \in Bytes /\ said[i] # << >> /\ FirstUnit(said[i]).size = Len(said[i])
              /\ FirstUnit(said[i]).kind = "cut" /\ i < Len(said) => said[i + 1][1] # "cont"
<1>1. \A S, T : S \subseteq T => Seq(S) \subseteq Seq(T)
  OBVIOUS
<1>2. PICK S : S = Bytes \ {<< >>}
  OBVIOUS
<1>3. said \in Seq(S) /\ S \subseteq Bytes
  BY <1>2 DEF Pieces, Bytes
<1>4. said \in Seq(Bytes)
  BY <1>1, <1>3
<1>5. \A i \in DOMAIN said : said[i] \in S
  BY <1>3
<1>6. QED
  BY <1>2, <1>4, <1>5 DEF Pieces

LEMMA PiecesLeft ==
  ASSUME NEW said, Pieces(said), said # << >>
  PROVE  Pieces(Tail(said))
<1>1. PICK t : t = Tail(said)
  OBVIOUS
<1>2. PICK S : S = Seq(ByteKinds) \ {<< >>}
  OBVIOUS
<1>3. said \in Seq(S)
  BY <1>2 DEF Pieces
<1>4. PICK N : N = Len(t)
  OBVIOUS
<1>5. /\ N \in Nat /\ t \in Seq(S) /\ Len(said) = N + 1
      /\ DOMAIN t = 1 .. N /\ DOMAIN said = 1 .. N + 1
      /\ \A i \in 1 .. N : t[i] = said[i + 1]
  BY <1>1, <1>3, <1>4
<1>6. ASSUME NEW i \in DOMAIN t
      PROVE  /\ FirstUnit(t[i]).size = Len(t[i])
             /\ FirstUnit(t[i]).kind = "cut" /\ i < Len(t) => t[i + 1][1] # "cont"
  <2>1. i + 1 \in DOMAIN said /\ t[i] = said[i + 1]
    BY <1>5
  <2>2. i < Len(t) => i + 1 < Len(said) /\ t[i + 1] = said[(i + 1) + 1]
    BY <1>4, <1>5
  <2>3. QED
    BY <2>1, <2>2 DEF Pieces
<1>7. QED
  BY <1>1, <1>2, <1>5, <1>6 DEF Pieces

LEMMA ReadableIsShown ==
  ASSUME NEW said, Pieces(said)
  PROVE  /\ Sequence!FlattenSeq(said) \in Bytes
         /\ Shown(Sequence!FlattenSeq(said)) = Readable(said)
<1> DEFINE Good == {q \in Seq(Bytes) : Pieces(q) => Shown(Sequence!FlattenSeq(q)) = Readable(q)}
<1>1. ASSUME NEW q \in Seq(Bytes), \A r \in Seq(Bytes) : Len(r) < Len(q) => r \in Good, Pieces(q)
      PROVE  Shown(Sequence!FlattenSeq(q)) = Readable(q)
  <2>1. CASE q = << >>
    <3>1. << >> \in Bytes /\ Stops(<< >>)
      BY DEF Bytes, Stops
    <3>2. Shown(<< >>) = << >>
      BY <3>1, ShownOfStopped DEF Flushed
    <3>3. Readable(<< >>) = << >>
      BY DEF Readable
    <3>4. QED
      BY <2>1, <3>2, <3>3, FlattenEmpty
  <2>2. CASE q # << >>
    <3>1. PICK t : t = Tail(q)
      OBVIOUS
    <3>2. PICK u : u = q[1]
      OBVIOUS
    <3>3. PICK b : b = Sequence!FlattenSeq(t)
      OBVIOUS
    <3>4. 1 \in DOMAIN q /\ t \in Seq(Bytes) /\ Len(t) < Len(q)
      BY <2>2, <3>1
    <3>5. /\ u \in Bytes /\ u # << >> /\ FirstUnit(u).size = Len(u)
          /\ FirstUnit(u).kind = "cut" /\ 1 < Len(q) => q[2][1] # "cont"
      BY <1>1, <3>2, <3>4, PiecesFacts
    <3>6. Sequence!FlattenSeq(q) = u \o b /\ b \in Bytes
      BY <2>2, <3>1, <3>2, <3>3, FlattenFirst DEF Bytes
    <3>7. Shown(b) = Readable(t)
      <4>1. t \in Good
        BY <1>1, <3>4
      <4>2. Pieces(t)
        BY <1>1, <2>2, <3>1, PiecesLeft
      <4>3. QED
        BY <3>3, <4>1, <4>2
    <3>8. Readable(q) = <<Piece(u)>> \o Readable(t)
      BY <2>2, <3>1, <3>2, ReadableFirst
    <3>9. CASE FirstUnit(u).kind # "cut"
      <4>1. FirstUnit(u \o b) = FirstUnit(u)
        BY <3>5, <3>6, <3>9, UnitStays
      <4>2. Shown(u \o b) = <<Piece(u)>> \o Shown(b)
        BY <3>5, <3>6, <3>9, <4>1, ShownFirst DEF Piece
      <4>3. QED
        BY <3>6, <3>7, <3>8, <4>2
    <3>10. CASE FirstUnit(u).kind = "cut" /\ t # << >>
      <4>1. 1 \in DOMAIN t /\ t[1] = q[2] /\ 1 < Len(q)
        BY <2>2, <3>1, <3>10
      <4>2. Pieces(t)
        BY <1>1, <2>2, <3>1, PiecesLeft
      <4>3. t[1] \in Bytes /\ t[1] # << >> /\ t[1][1] # "cont"
        BY <3>5, <3>10, <4>1, <4>2, PiecesFacts
      <4>4. PICK d : d = Sequence!FlattenSeq(Tail(t))
        OBVIOUS
      <4>5. b = t[1] \o d /\ d \in Bytes
        BY <3>3, <3>4, <3>10, <4>4, FlattenFirst DEF Bytes
      <4>6. b # << >> /\ b[1] = t[1][1]
        BY <4>3, <4>5 DEF Bytes
      <4>7. FirstUnit(u \o b) = [kind |-> "error", size |-> Len(u)]
        BY <3>5, <3>6, <3>10, <4>3, <4>6, UnitBreaksOff
      <4>8. FirstUnit(u \o b).kind = "error" /\ FirstUnit(u \o b).size = Len(u)
        BY <4>7
      <4>9. Shown(u \o b) = <<Replacement>> \o Shown(b)
        BY <3>5, <3>6, <4>8, ShownFirst
      <4>10. Piece(u) = Replacement
        BY <3>10 DEF Piece
      <4>11. QED
        BY <3>6, <3>7, <3>8, <4>9, <4>10
    <3>11. CASE FirstUnit(u).kind = "cut" /\ t = << >>
      <4>1. b = << >> /\ u \o b = u
        BY <3>3, <3>5, <3>11, FlattenEmpty DEF Bytes
      <4>2. Shown(u) = <<Replacement>>
        BY <3>5, <3>11, ShownOfStopped DEF Stops, Flushed
      <4>3. Readable(t) = << >>
        BY <3>11 DEF Readable
      <4>4. Piece(u) = Replacement /\ <<Replacement>> \o << >> = <<Replacement>>
        BY <3>11 DEF Piece
      <4>5. QED
        BY <3>6, <3>8, <4>1, <4>2, <4>3, <4>4
    <3>12. QED
      BY <3>9, <3>10, <3>11
  <2>3. QED
    BY <2>1, <2>2
<1>2. \A q \in Seq(Bytes) : (\A r \in Seq(Bytes) : Len(r) < Len(q) => r \in Good) => q \in Good
  BY <1>1
<1> HIDE DEF Good
<1>3. \A q \in Seq(Bytes) : q \in Good
  BY <1>2, ByLength
<1>4. said \in Seq(Bytes)
  BY PiecesFacts
<1>5. Shown(Sequence!FlattenSeq(said)) = Readable(said)
  BY <1>3, <1>4 DEF Good
<1>6. QED
  BY <1>4, <1>5, FlattenTyped DEF Bytes

\* A unit by itself, and what follows it.
LEMMA UnitAlone ==
  ASSUME NEW bytes \in Bytes, bytes # << >>
  PROVE  \E u, rest :
           /\ u \in Bytes /\ u # << >> /\ rest \in Bytes /\ bytes = u \o rest
           /\ Len(rest) < Len(bytes)
           /\ FirstUnit(u).size = Len(u)
           /\ FirstUnit(u).kind = "cut" /\ rest # << >> => rest[1] # "cont"
<1>1. PICK n \in Nat : Counted(bytes, n)
  BY CountedOnce
<1>2. PICK w : w = Width[bytes[1]]
  OBVIOUS
<1>3. PICK L : L = Len(bytes)
  OBVIOUS
<1>4. PICK z : z = FirstUnit(bytes).size
  OBVIOUS
<1>5. z \in 1 .. L /\ L \in Nat
  BY <1>3, <1>4, UnitShape DEF Bytes
<1>6. PICK u, rest : u = SubSeq(bytes, 1, z) /\ rest = SubSeq(bytes, z + 1, L)
  OBVIOUS
<1>7. u \in Bytes /\ Len(u) = z /\ \A i \in 1 .. z : u[i] = bytes[i]
  BY <1>3, <1>5, <1>6 DEF Bytes
<1>8. rest \in Bytes /\ Len(rest) = L - z /\ \A i \in 1 .. L - z : rest[i] = bytes[z + i]
  <2>1. PICK b, B : b = bytes /\ B = ByteKinds
    OBVIOUS
  <2>2. b \in Seq(B) /\ Len(b) = L /\ rest = SubSeq(b, z + 1, L)
    BY <1>3, <1>6, <2>1 DEF Bytes
  <2>3. rest \in Seq(B) /\ Len(rest) = L - z
    BY <1>5, <2>2
  <2>4. \A i \in 1 .. L - z : rest[i] = b[z + i]
    BY <1>5, <2>2
  <2>5. QED
    BY <2>1, <2>3, <2>4 DEF Bytes
<1>9. bytes = u \o rest
  BY <1>3, <1>5, <1>6 DEF Bytes
<1>10. u # << >> /\ Len(rest) < L
  BY <1>5, <1>7, <1>8 DEF Bytes
<1>11. w \in 0 .. 3 /\ w = Width[u[1]]
  BY <1>2, <1>5, <1>7, WidthIs DEF Bytes
<1>12. /\ n \in 0 .. Smaller(w, L) /\ (n = 0 <=> w = 0)
       /\ \A i \in 2 .. n : bytes[i] = "cont"
       /\ n < Smaller(w, L) => bytes[n + 1] # "cont" \/ w = 0
  BY <1>1, <1>2, <1>3 DEF Counted
<1>13. (w = 0 => z = 1) /\ (w # 0 => z = n)
  BY <1>1, <1>2, <1>3, <1>4, UnitOf
<1>14. n <= w /\ n <= L
  BY <1>5, <1>11, <1>12 DEF Smaller
<1>15. Counted(u, n)
  <2>1. n \in 0 .. Smaller(w, z) /\ (n < Smaller(w, z) => w = 0)
    BY <1>5, <1>11, <1>12, <1>13, <1>14 DEF Smaller
  <2>2. \A i \in 2 .. n : u[i] = "cont"
    BY <1>5, <1>7, <1>11, <1>12, <1>13
  <2>3. QED
    BY <1>7, <1>11, <1>12, <2>1, <2>2 DEF Counted
<1>16. PICK v : v = FirstUnit(u)
  OBVIOUS
<1>17. /\ w = 0 => v = [kind |-> "error", size |-> 1]
       /\ w # 0 /\ n = w => v = [kind |-> "char", size |-> n]
       /\ w # 0 /\ n # w /\ n = z => v = [kind |-> "cut", size |-> n]
  BY <1>7, <1>10, <1>11, <1>15, <1>16, UnitOf
<1>18. v.size = z
  BY <1>13, <1>17
<1>19. ASSUME v.kind = "cut", rest # << >> PROVE rest[1] # "cont"
  <2>1. w # 0 /\ n # w
    BY <1>17, <1>19
  <2>2. z < L /\ rest[1] = bytes[z + 1]
    <3>1. Len(rest) # 0
      BY <1>8, <1>19 DEF Bytes
    <3>2. 1 \in 1 .. L - z /\ z + 1 = z + 1
      BY <1>5, <1>8, <3>1
    <3>3. QED
      BY <1>5, <1>8, <3>2
  <2>3. n < Smaller(w, L)
    BY <1>5, <1>11, <1>13, <1>14, <2>1, <2>2 DEF Smaller
  <2>4. QED
    BY <1>12, <1>13, <2>1, <2>2, <2>3
<1>20. /\ u \in Bytes /\ u # << >> /\ rest \in Bytes /\ bytes = u \o rest
       /\ Len(rest) < Len(bytes)
       /\ FirstUnit(u).size = Len(u)
       /\ FirstUnit(u).kind = "cut" /\ rest # << >> => rest[1] # "cont"
  BY <1>3, <1>7, <1>8, <1>9, <1>10, <1>16, <1>18, <1>19
<1>21. QED
  BY ONLY <1>20, Zenon

\* Whatever bytes a server prints, OutputsAssumption can be met for them.
THEOREM AllBytesArePieces ==
  \A bytes \in Bytes : \E said : Pieces(said) /\ Sequence!FlattenSeq(said) = bytes
<1> DEFINE Good == {b \in Bytes : \E said : Pieces(said) /\ Sequence!FlattenSeq(said) = b}
<1>1. ASSUME NEW b \in Bytes, \A r \in Bytes : Len(r) < Len(b) => r \in Good
      PROVE  \E said : Pieces(said) /\ Sequence!FlattenSeq(said) = b
  <2>1. CASE b = << >>
    <3>1. Pieces(<< >>)
      BY DEF Pieces
    <3>2. QED
      BY <2>1, <3>1, FlattenEmpty
  <2>2. CASE b # << >>
    <3>1. PICK u, rest :
            /\ u \in Bytes /\ u # << >> /\ rest \in Bytes /\ b = u \o rest
            /\ Len(rest) < Len(b)
            /\ FirstUnit(u).size = Len(u)
            /\ FirstUnit(u).kind = "cut" /\ rest # << >> => rest[1] # "cont"
      BY <2>2, UnitAlone
    <3>2. /\ u \in Bytes /\ u # << >> /\ rest \in Bytes /\ b = u \o rest
          /\ Len(rest) < Len(b)
          /\ FirstUnit(u).size = Len(u)
          /\ FirstUnit(u).kind = "cut" /\ rest # << >> => rest[1] # "cont"
      BY <3>1
    <3>3. rest \in Good
      BY <1>1, <3>2
    <3>4. PICK more : Pieces(more) /\ Sequence!FlattenSeq(more) = rest
      BY <3>3
    <3>5. PICK S : S = Seq(ByteKinds) \ {<< >>}
      OBVIOUS
    <3>6. more \in Seq(S) /\ u \in S
      BY <3>2, <3>4, <3>5 DEF Pieces, Bytes
    <3>7. PICK said : said = <<u>> \o more
      OBVIOUS
    <3>8. PICK N : N = Len(more)
      OBVIOUS
    <3>9. /\ N \in Nat /\ DOMAIN more = 1 .. N /\ said \in Seq(S) /\ said # << >>
           /\ Len(said) = N + 1 /\ DOMAIN said = 1 .. N + 1 /\ said[1] = u
           /\ \A i \in 1 .. N : said[i + 1] = more[i]
      BY <3>6, <3>7, <3>8
    <3>10. Tail(said) = more
      <4>1. PICK t : t = Tail(said)
        OBVIOUS
      <4>2. t \in Seq(S) /\ Len(t) = N /\ \A i \in 1 .. N : t[i] = said[i + 1]
        BY <3>9, <4>1
      <4>3. \A x \in Seq(S), y \in Seq(S) :
              Len(x) = Len(y) /\ (\A i \in 1 .. Len(x) : x[i] = y[i]) => x = y
        OBVIOUS
      <4>4. Len(t) = Len(more) /\ \A i \in 1 .. Len(t) : t[i] = more[i]
        BY <3>8, <3>9, <4>2
      <4>5. t = more
        BY ONLY <3>6, <4>2, <4>3, <4>4
      <4>6. QED
        BY <4>1, <4>5
    <3>11. said \in Seq(Seq(ByteKinds)) /\ more \in Seq(Bytes)
      <4>1. \A A, B : A \subseteq B => Seq(A) \subseteq Seq(B)
        OBVIOUS
      <4>2. S \subseteq Seq(ByteKinds)
        BY <3>5
      <4>3. QED
        BY <3>6, <3>9, <4>1, <4>2 DEF Bytes
    <3>12. Sequence!FlattenSeq(said) = b
      BY <3>2, <3>4, <3>9, <3>10, <3>11, FlattenFirst
    <3>13. more # << >> => rest # << >> /\ more[1][1] = rest[1]
      <4>1. SUFFICES ASSUME more # << >> PROVE rest # << >> /\ more[1][1] = rest[1]
        OBVIOUS
      <4>2. PICK x : x = more[1]
        OBVIOUS
      <4>3. PICK y : y = Sequence!FlattenSeq(Tail(more))
        OBVIOUS
      <4>4. rest = x \o y /\ y \in Seq(ByteKinds)
        BY <3>4, <3>11, <4>1, <4>2, <4>3, FlattenFirst DEF Bytes
      <4>5. x \in Seq(ByteKinds) /\ x # << >>
        <5>1. x \in S
          BY <3>6, <4>1, <4>2
        <5>2. QED
          BY <3>5, <5>1
      <4>6. QED
        BY <4>2, <4>4, <4>5
    <3>14. ASSUME NEW i \in 1 .. N + 1
           PROVE  /\ FirstUnit(said[i]).size = Len(said[i])
                  /\ FirstUnit(said[i]).kind = "cut" /\ i < N + 1 => said[i + 1][1] # "cont"
      <4>1. CASE i = 1
        <5>1. 1 < N + 1 => more # << >> /\ said[2] = more[1]
          BY <3>8, <3>9
        <5>2. QED
          BY <3>2, <3>9, <3>13, <4>1, <5>1
      <4>2. CASE i # 1
        <5>1. PICK k : k = i - 1
          OBVIOUS
        <5>2. k \in 1 .. N /\ i = k + 1
          BY <3>9, <4>2, <5>1
        <5>3. said[i] = more[k] /\ (i < N + 1 => k < N /\ said[i + 1] = more[k + 1])
          BY <3>9, <5>2
        <5>4. /\ FirstUnit(more[k]).size = Len(more[k])
              /\ FirstUnit(more[k]).kind = "cut" /\ k < N => more[k + 1][1] # "cont"
          BY <3>4, <3>8, <3>9, <5>2 DEF Pieces
        <5>5. QED
          BY <5>3, <5>4
      <4>3. QED
        BY <4>1, <4>2
    <3>15. Pieces(said)
      BY <3>5, <3>9, <3>14 DEF Pieces
    <3>16. QED
      BY <3>12, <3>15
  <2>3. QED
    BY <2>1, <2>2
<1>2. \A b \in Seq(ByteKinds) :
        (\A r \in Seq(ByteKinds) : Len(r) < Len(b) => r \in Good) => b \in Good
  BY <1>1 DEF Bytes
<1> HIDE DEF Good
<1>3. \A b \in Seq(ByteKinds) : b \in Good
  BY <1>2, ByLength
<1>4. QED
  BY <1>3 DEF Good, Bytes

-----------------------------------------------------------------------------
(* What events say.                                                        *)

Texts(events) == [i \in DOMAIN events |-> events[i].text]
Told(events) == Sequence!FlattenSeq(Texts(events))

\* Events with text, and nothing announced after an end.
Tells(events) ==
  \A i \in DOMAIN events : /\ events[i].text \in Seq(Units)
                           /\ events[i].ends # "no" => i = Len(events)

LEMMA ToldTyped ==
  ASSUME NEW S, NEW q \in Seq(S), Tells(q)
  PROVE  /\ Texts(q) \in Seq(Seq(Units)) /\ Len(Texts(q)) = Len(q)
         /\ Told(q) \in Seq(Units)
<1>1. PICK N : N = Len(q)
  OBVIOUS
<1>2. N \in Nat /\ DOMAIN q = 1 .. N
  BY <1>1
<1>3. \A i \in 1 .. N : q[i].text \in Seq(Units)
  BY <1>2 DEF Tells
<1>4. PICK T : T = Seq(Units)
  OBVIOUS
<1>5. PICK t : t = Texts(q)
  OBVIOUS
<1>6. t = [i \in 1 .. N |-> q[i].text] /\ \A i \in 1 .. N : q[i].text \in T
  BY <1>2, <1>3, <1>4, <1>5 DEF Texts
<1>7. t \in Seq(T) /\ Len(t) = N
  BY <1>2, <1>6
<1>8. t \in Seq(Seq(Units))
  BY <1>4, <1>7
<1>9. QED
  BY <1>1, <1>5, <1>7, <1>8, FlattenTyped DEF Told

LEMMA ToldNothing == Tells(<< >>) /\ Told(<< >>) = << >>
<1>1. Texts(<< >>) = << >>
  BY DEF Texts
<1>2. QED
  BY <1>1, FlattenEmpty DEF Told, Tells

LEMMA ToldLast ==
  ASSUME NEW S, NEW q \in Seq(S), Tells(q), NEW e, e.text \in Seq(Units),
         \A i \in DOMAIN q : q[i].ends = "no"
  PROVE  /\ Tells(Append(q, e)) /\ Told(Append(q, e)) = Told(q) \o e.text
         /\ Append(q, e) # << >> /\ Append(q, e)[Len(Append(q, e))] = e
<1>1. PICK r : r = Append(q, e)
  OBVIOUS
<1>2. PICK N : N = Len(q)
  OBVIOUS
<1>3. /\ N \in Nat /\ DOMAIN q = 1 .. N /\ DOMAIN r = 1 .. N + 1 /\ Len(r) = N + 1
      /\ r # << >> /\ r[N + 1] = e
      /\ \A i \in 1 .. N : r[i] = q[i]
  BY <1>1, <1>2
<1>4. \A i \in 1 .. N + 1 : i = N + 1 \/ i \in 1 .. N
  BY <1>3
<1>5. Tells(r)
  BY <1>3, <1>4 DEF Tells
<1>6. PICK t : t = Texts(q)
  OBVIOUS
<1>7. t \in Seq(Seq(Units)) /\ Len(t) = N
  BY <1>2, <1>6, ToldTyped
<1>8. PICK u : u = Texts(r)
  OBVIOUS
<1>9. PICK x : x = e.text
  OBVIOUS
<1>10. PICK T : T = Seq(Units)
  OBVIOUS
<1>11. t \in Seq(T) /\ x \in T
  BY <1>7, <1>9, <1>10
<1>12. u = Append(t, x)
  <2>1. u = [i \in 1 .. N + 1 |-> r[i].text] /\ \A i \in 1 .. N : t[i] = q[i].text
    BY <1>3, <1>6, <1>8 DEF Texts
  <2>2. u[N + 1] = x /\ \A i \in 1 .. N : u[i] = t[i]
    BY <1>3, <1>9, <2>1
  <2>3. \A i \in 1 .. N + 1 : u[i] \in T
    <3>1. \A i \in 1 .. N : t[i] \in T
      BY <1>7, <1>11
    <3>2. QED
      BY <1>4, <1>11, <2>2, <3>1
  <2>4. u \in Seq(T) /\ Len(u) = N + 1
    <3>1. u = [i \in 1 .. N + 1 |-> u[i]]
      BY <2>1
    <3>2. QED
      BY <1>3, <2>3, <3>1
  <2>5. PICK v : v = Append(t, x)
    OBVIOUS
  <2>6. /\ v \in Seq(T) /\ Len(v) = N + 1 /\ v[N + 1] = x
        /\ \A i \in 1 .. N : v[i] = t[i]
    BY <1>7, <1>11, <2>5
  <2>7. \A i \in 1 .. N + 1 : u[i] = v[i]
    BY <1>4, <2>2, <2>6
  <2>8. \A a \in Seq(T), b \in Seq(T) :
          Len(a) = Len(b) /\ (\A i \in 1 .. Len(a) : a[i] = b[i]) => a = b
    OBVIOUS
  <2>9. u = v
    <3>1. Len(u) = Len(v) /\ \A i \in 1 .. Len(u) : u[i] = v[i]
      BY <2>4, <2>6, <2>7
    <3>2. QED
      BY ONLY <2>4, <2>6, <2>8, <3>1
  <2>10. QED
    BY <2>5, <2>9
<1>13. Sequence!FlattenSeq(Append(t, x)) = Sequence!FlattenSeq(t) \o x
  BY <1>7, <1>9, FlattenLast
<1>14. Told(r) = Told(q) \o x
  BY <1>6, <1>8, <1>12, <1>13 DEF Told
<1>15. QED
  BY <1>1, <1>3, <1>5, <1>9, <1>14

LEMMA ToldFirst ==
  ASSUME NEW S, NEW q \in Seq(S), Tells(q), q # << >>
  PROVE  /\ Tells(Tail(q)) /\ Head(q) = q[1] /\ Head(q).text \in Seq(Units)
         /\ Told(q) = Head(q).text \o Told(Tail(q)) /\ Told(Tail(q)) \in Seq(Units)
         /\ Head(q).ends # "no" => Tail(q) = << >>
         /\ Head(q).ends = "no" /\ q[Len(q)].ends # "no" =>
              Tail(q) # << >> /\ Tail(q)[Len(Tail(q))] = q[Len(q)]
<1>1. PICK r : r = Tail(q)
  OBVIOUS
<1>2. PICK N : N = Len(r)
  OBVIOUS
<1>3. /\ N \in Nat /\ r \in Seq(S) /\ DOMAIN q = 1 .. N + 1 /\ DOMAIN r = 1 .. N /\ Len(q) = N + 1
      /\ Head(q) = q[1] /\ 1 \in DOMAIN q
      /\ \A i \in 1 .. N : r[i] = q[i + 1]
      /\ N = 0 => r = << >>
      /\ N # 0 => r # << >>
  <2>1. N \in Nat /\ r \in Seq(S) /\ DOMAIN r = 1 .. N /\ Len(q) = N + 1
    BY <1>1, <1>2
  <2>2. DOMAIN q = 1 .. N + 1 /\ Head(q) = q[1] /\ 1 \in DOMAIN q
    BY <2>1
  <2>3. \A i \in 1 .. N : r[i] = q[i + 1]
    BY <1>1, <1>2, <2>1
  <2>4. (N = 0 => r = << >>) /\ (N # 0 => r # << >>)
    BY <1>2, <2>1
  <2>5. QED
    BY <2>1, <2>2, <2>3, <2>4
<1>4. Tells(r)
  <2>1. SUFFICES ASSUME NEW i \in 1 .. N
                 PROVE  r[i].text \in Seq(Units) /\ (r[i].ends # "no" => i = N)
    BY <1>2, <1>3 DEF Tells
  <2>2. i + 1 \in DOMAIN q /\ r[i] = q[i + 1]
    BY <1>3
  <2>3. q[i + 1].text \in Seq(Units) /\ (q[i + 1].ends # "no" => i + 1 = N + 1)
    BY <1>3, <2>2 DEF Tells
  <2>4. QED
    BY <1>3, <2>2, <2>3
<1>5. q[1].text \in Seq(Units) /\ (q[1].ends # "no" => N = 0)
  BY <1>3 DEF Tells
<1>6. PICK t : t = Texts(q)
  OBVIOUS
<1>7. PICK u : u = Texts(r)
  OBVIOUS
<1>8. t \in Seq(Seq(Units)) /\ Len(t) = N + 1 /\ u \in Seq(Seq(Units)) /\ Len(u) = N
  BY <1>2, <1>3, <1>4, <1>6, <1>7, ToldTyped
<1>9. t[1] = q[1].text
  BY <1>3, <1>6 DEF Texts
<1>10. u = Tail(t)
  <2>1. PICK T : T = Seq(Units)
    OBVIOUS
  <2>2. t \in Seq(T) /\ u \in Seq(T)
    BY <1>8, <2>1
  <2>3. PICK v : v = Tail(t)
    OBVIOUS
  <2>4. v \in Seq(T) /\ Len(v) = N /\ \A i \in 1 .. N : v[i] = t[i + 1]
    BY <1>3, <1>8, <2>2, <2>3
  <2>5. ASSUME NEW i \in 1 .. N PROVE u[i] = v[i]
    <3>1. i \in DOMAIN r /\ i + 1 \in DOMAIN q
      BY <1>3
    <3>2. u[i] = r[i].text /\ t[i + 1] = q[i + 1].text
      BY <1>6, <1>7, <3>1 DEF Texts
    <3>3. QED
      BY <1>3, <2>4, <3>2
  <2>6. \A a \in Seq(T), b \in Seq(T) :
          Len(a) = Len(b) /\ (\A i \in 1 .. Len(a) : a[i] = b[i]) => a = b
    OBVIOUS
  <2>7. Len(u) = Len(v) /\ \A i \in 1 .. Len(u) : u[i] = v[i]
    BY <1>8, <2>4, <2>5
  <2>8. u = v
    BY ONLY <2>2, <2>4, <2>6, <2>7
  <2>9. QED
    BY <2>3, <2>8
<1>11. t # << >>
  BY <1>3, <1>8
<1>12. /\ Sequence!FlattenSeq(t) = t[1] \o Sequence!FlattenSeq(Tail(t))
       /\ Sequence!FlattenSeq(Tail(t)) \in Seq(Units)
  BY <1>8, <1>11, FlattenFirst
<1>13. Told(q) = q[1].text \o Told(r) /\ Told(r) \in Seq(Units)
  BY <1>6, <1>7, <1>9, <1>10, <1>12 DEF Told
<1>14. ASSUME q[1].ends = "no", q[Len(q)].ends # "no"
       PROVE  r # << >> /\ r[Len(r)] = q[Len(q)]
  <2>1. N # 0
    BY <1>3, <1>14
  <2>2. N \in 1 .. N
    BY <1>3, <2>1
  <2>3. QED
    BY <1>2, <1>3, <2>1, <2>2
<1>15. QED
  BY <1>1, <1>3, <1>4, <1>5, <1>13, <1>14

-----------------------------------------------------------------------------
(* What the viewer shows.                                                  *)

\* What the decoder keeps between two reads is the beginning of a character.
Decodes(record) ==
  /\ record.left \in Bytes /\ record.kept \in Bytes /\ Stops(record.kept)
  /\ record.phase # "live" => record.kept = << >>
  /\ record.phase = "live" => Pieces(record.said)

\* What the viewer has shown, what is on its way and what the decoder will
\* make of the bytes to come are, in this order, the output.
Progress(record, events, shown) ==
  /\ record.phase = "live" =>
       shown \o (Told(events) \o Shown(record.kept \o record.left)) = Readable(record.said)
  /\ record.phase = "gone" =>
       /\ events # << >> /\ events[Len(events)].ends # "no"
       /\ events[Len(events)].ends = "eof" => shown \o Told(events) = Readable(record.said)
  /\ record.phase \notin {"live", "gone"} => events = << >> /\ shown = << >>

WatchedIsWhole ==
  watched # NoStream =>
    /\ viewer.id = NoStream /\ stream[watched].phase = "gone"
    /\ seen = Readable(stream[watched].said)

NoneBeforeStart ==
  \A s \in Streams : following[s] \in {"unused", "stopping"} => stream[s].phase = "none"

DecoderIInv ==
  /\ seen \in Seq(Units) /\ Tells(bus)
  /\ viewer.id = NoStream => bus = << >>
  /\ \A s \in Streams : Decodes(stream[s])
  /\ \A s \in Streams : viewer.id = s => Progress(stream[s], bus, seen)
  /\ WatchedIsWhole
  /\ NoneBeforeStart

\* A step that neither brings nor shows anything.
LEMMA NothingShown ==
  ASSUME DecoderIInv, UNCHANGED <<stream, bus, seen, watched>>, viewer'.id = viewer.id,
         \A s \in Streams : following'[s] \in {"unused", "stopping"} =>
                              following[s] \in {"unused", "stopping"}
  PROVE  DecoderIInv'
<1>1. WatchedIsWhole'
  BY DEF DecoderIInv, WatchedIsWhole
<1>2. NoneBeforeStart'
  BY DEF DecoderIInv, NoneBeforeStart
<1>3. QED
  BY <1>1, <1>2 DEF DecoderIInv

\* The viewer gives up its stream.
LEMMA Forgotten ==
  ASSUME DecoderIInv, Unwatched, UNCHANGED stream, viewer'.id = NoStream,
         \A s \in Streams : following'[s] \in {"unused", "stopping"} =>
                              following[s] \in {"unused", "stopping"}
  PROVE  DecoderIInv'
<1>1. bus' = << >> /\ seen' = << >> /\ watched' = NoStream
  BY DEF Unwatched
<1>2. seen' \in Seq(Units) /\ Tells(bus')
  BY <1>1, ToldNothing
<1>3. WatchedIsWhole'
  BY <1>1 DEF WatchedIsWhole
<1>4. NoneBeforeStart'
  BY DEF DecoderIInv, NoneBeforeStart
<1>5. QED
  BY <1>1, <1>2, <1>3, <1>4, LogAssumption DEF DecoderIInv

\* A stream comes to a phase, and keeps the rest.
LEMMA SetPhaseFacts ==
  ASSUME StreamTyped, NEW s \in Streams, NEW phase, SetPhase(s, phase)
  PROVE  /\ stream'[s].phase = phase /\ stream'[s].left = stream[s].left
         /\ stream'[s].kept = stream[s].kept /\ stream'[s].said = stream[s].said
         /\ \A t \in Streams : t # s => stream'[t] = stream[t]
<1>1. PICK p : p = stream[s]
  OBVIOUS
<1>2. PICK r : r = [p EXCEPT !.phase = phase]
  OBVIOUS
<1>3. p = [f \in Fields |-> p[f]]
  BY <1>1 DEF StreamTyped
<1>4. r = [f \in Fields |-> r[f]] /\ r.phase = phase
  BY <1>2, <1>3 DEF Fields
<1>5. r.left = p.left /\ r.kept = p.kept /\ r.said = p.said
  BY <1>2, <1>3 DEF Fields
<1>6. stream' = [stream EXCEPT ![s] = r]
  BY <1>1, <1>2 DEF SetPhase
<1>7. QED
  BY <1>1, <1>4, <1>5, <1>6, StreamStep

\* The viewer takes a stream that has not been started.
LEMMA TakesStream ==
  ASSUME LogIInv, DecoderIInv, NEW s \in Streams, SendStart(s),
         following[s] \in {"unused", "stopping"},
         following' = [following EXCEPT ![s] = "started"]
  PROVE  DecoderIInv'
<1>1. LogShape /\ StreamTyped
  BY TypedParts DEF LogIInv
<1>2. viewer'.id = s
  BY SendStartFacts DEF LogIInv
<1>3. SetPhase(s, "starting") /\ bus' = << >> /\ seen' = << >> /\ watched' = NoStream
  BY DEF SendStart, Unwatched
<1>4. /\ stream'[s].phase = "starting" /\ stream'[s].left = stream[s].left
      /\ stream'[s].kept = stream[s].kept
      /\ \A t \in Streams : t # s => stream'[t] = stream[t]
  BY <1>1, <1>3, SetPhaseFacts
<1>5. stream[s].phase = "none" /\ Decodes(stream[s])
  BY DEF DecoderIInv, NoneBeforeStart
<1>6. Decodes(stream'[s])
  BY <1>4, <1>5 DEF Decodes
<1>7. \A t \in Streams : Decodes(stream'[t])
  BY <1>4, <1>6 DEF DecoderIInv
<1>8. Progress(stream'[s], bus', seen')
  BY <1>3, <1>4 DEF Progress
<1>9. following'[s] = "started" /\ \A t \in Streams : t # s => following'[t] = following[t]
  BY <1>1 DEF LogShape
<1>10. NoneBeforeStart'
  BY <1>4, <1>9 DEF DecoderIInv, NoneBeforeStart
<1>11. WatchedIsWhole'
  BY <1>3 DEF WatchedIsWhole
<1>12. seen' \in Seq(Units) /\ Tells(bus')
  BY <1>3, ToldNothing
<1>13. \A t \in Streams : viewer'.id = t => Progress(stream'[t], bus', seen')
  BY <1>2, <1>8
<1>14. QED
  BY <1>3, <1>7, <1>10, <1>11, <1>12, <1>13 DEF DecoderIInv

\* A step of one stream that was started.
LEMMA OneStream ==
  ASSUME LogIInv, DecoderIInv, NEW s \in Streams,
         stream[s].phase \in {"starting", "live"},
         \A t \in Streams : t # s => stream'[t] = stream[t],
         UNCHANGED <<viewer, following, seen, watched>>,
         viewer.id # s => UNCHANGED bus,
         Decodes(stream'[s]), Tells(bus'),
         viewer.id = s => Progress(stream'[s], bus', seen)
  PROVE  DecoderIInv'
<1>1. LogShape
  BY TypedParts DEF LogIInv
<1>2. \A t \in Streams : Decodes(stream'[t])
  BY DEF DecoderIInv
<1>3. \A t \in Streams : viewer'.id = t => Progress(stream'[t], bus', seen')
  BY DEF DecoderIInv
<1>4. WatchedIsWhole'
  <2>1. SUFFICES ASSUME watched # NoStream
                 PROVE  stream'[watched] = stream[watched]
    BY DEF DecoderIInv, WatchedIsWhole
  <2>2. watched \in Streams /\ stream[watched].phase = "gone"
    BY <1>1, <2>1 DEF LogShape, DecoderIInv, WatchedIsWhole
  <2>3. QED
    BY <2>2
<1>5. NoneBeforeStart'
  BY DEF DecoderIInv, NoneBeforeStart
<1>6. viewer'.id = NoStream => bus' = << >>
  BY LogAssumption DEF DecoderIInv
<1>7. QED
  BY <1>2, <1>3, <1>4, <1>5, <1>6 DEF DecoderIInv

LEMMA StartFailsShows ==
  ASSUME LogIInv, DecoderIInv, NEW s \in Streams, StartFails(s)
  PROVE  DecoderIInv'
<1>1. StreamTyped
  BY TypedParts DEF LogIInv
<1>2. /\ stream[s].phase = "starting" /\ SetPhase(s, "refused")
      /\ UNCHANGED <<viewer, following, awaited, ahead, closeAsked, closing, bus, seen, watched>>
  BY DEF StartFails
<1>3. /\ stream'[s].phase = "refused" /\ stream'[s].left = stream[s].left
      /\ stream'[s].kept = stream[s].kept
      /\ \A t \in Streams : t # s => stream'[t] = stream[t]
  BY <1>1, <1>2, SetPhaseFacts
<1>4. Decodes(stream'[s])
  BY <1>2, <1>3 DEF DecoderIInv, Decodes
<1>5. Tells(bus')
  BY <1>2 DEF DecoderIInv
<1>6. viewer.id = s => Progress(stream'[s], bus', seen)
  BY <1>2, <1>3 DEF DecoderIInv, Progress
<1>7. QED
  BY <1>2, <1>3, <1>4, <1>5, <1>6, OneStream

LEMMA OpensStreamShows ==
  ASSUME LogIInv, DecoderIInv, NEW s \in Streams, OpensStream(s)
  PROVE  DecoderIInv'
<1>1. StreamTyped
  BY TypedParts DEF LogIInv
<1>2. PICK said \in Outputs[s] :
        stream' = [stream EXCEPT ![s].phase = "live", ![s].said = said,
                                 ![s].left = Sequence!FlattenSeq(said)]
  BY Zenon DEF OpensStream
<1>3. PICK left : left = Sequence!FlattenSeq(said)
  OBVIOUS
<1>4. PICK p : p = stream[s]
  OBVIOUS
<1>5. PICK r : r = [p EXCEPT !.phase = "live", !.said = said, !.left = left]
  OBVIOUS
<1>6. stream' = [stream EXCEPT ![s] = r]
  BY <1>1, <1>2, <1>3, <1>4, <1>5 DEF StreamTyped
<1>7. p = [f \in Fields |-> p[f]]
  BY <1>1, <1>4 DEF StreamTyped
<1>8. r = [f \in Fields |-> r[f]] /\ r.phase = "live" /\ r.said = said /\ r.left = left /\ r.kept = p.kept
  BY <1>5, <1>7 DEF Fields
<1>9. stream'[s] = r /\ \A t \in Streams : t # s => stream'[t] = stream[t]
  BY <1>1, <1>6, <1>8, StreamStep
<1>10. /\ stream[s].phase = "starting"
       /\ UNCHANGED <<viewer, following, awaited, ahead, closeAsked, closing, bus, seen, watched>>
  BY DEF OpensStream
<1>11. Pieces(said)
  BY OutputsAssumption DEF OutputsAssumption
<1>12. left \in Bytes /\ Shown(left) = Readable(said)
  BY <1>3, <1>11, ReadableIsShown
<1>13. p.kept = << >> /\ << >> \in Bytes /\ Stops(<< >>)
  BY <1>4, <1>10 DEF DecoderIInv, Decodes, Bytes, Stops
<1>14. Decodes(r)
  BY <1>8, <1>11, <1>12, <1>13 DEF Decodes
<1>15. Tells(bus')
  BY <1>10 DEF DecoderIInv
<1>16. ASSUME viewer.id = s PROVE Progress(r, bus', seen)
  <2>1. bus' = << >> /\ seen = << >>
    BY <1>10, <1>16 DEF DecoderIInv, Progress
  <2>2. r.kept \o r.left = left
    BY <1>8, <1>12, <1>13, WithEmpty DEF Bytes
  <2>3. Shown(left) \in Seq(Units)
    BY <1>12, ShownTyped
  <2>4. << >> \o (<< >> \o Shown(left)) = Shown(left)
    BY <2>3, WithEmpty
  <2>5. QED
    BY <1>8, <1>12, <2>1, <2>2, <2>4, ToldNothing DEF Progress
<1>17. QED
  BY <1>9, <1>10, <1>14, <1>15, <1>16, OneStream

\* Nothing that is announced has ended while the viewer's stream runs.
LEMMA NoEndYet ==
  ASSUME LogIInv, NEW s \in Streams, stream[s].phase = "live", viewer.id = s
  PROVE  \A i \in DOMAIN bus : bus[i].ends = "no"
<1>1. \A i \in DOMAIN bus : bus[i] \in Announced
  BY DEF Announced
<1>2. QED
  BY <1>1, LogAssumption DEF LogIInv, EndsAreTrue

LEMMA ReadsOutputShows ==
  ASSUME LogIInv, DecoderIInv, NEW s \in Streams, ReadsOutput(s)
  PROVE  DecoderIInv'
<1>1. StreamTyped /\ bus \in Seq(Announced)
  BY TypedParts DEF LogIInv
<1>2. PICK p : p = stream[s]
  OBVIOUS
<1>3. p = [f \in Fields |-> p[f]]
  BY <1>1, <1>2 DEF StreamTyped
<1>4. PICK n \in 1 .. Len(p.left) :
        LET d == Drained[p.kept \o SubSeq(p.left, 1, n)]
        IN  /\ stream' = [stream EXCEPT ![s].left = SubSeq(@, n + 1, Len(@)), ![s].kept = d.kept]
            /\ Emit(s, d.text, "no")
  BY <1>2 DEF ReadsOutput
<1>5. /\ stream[s].phase = "live"
      /\ UNCHANGED <<viewer, following, awaited, ahead, closeAsked, closing, seen, watched>>
  BY DEF ReadsOutput
<1>6. PICK a : a = p.kept \o SubSeq(p.left, 1, n)
  OBVIOUS
<1>7. PICK b : b = SubSeq(p.left, n + 1, Len(p.left))
  OBVIOUS
<1>8. PICK k : k = Drained[a].kept
  OBVIOUS
<1>9. PICK text : text = Drained[a].text
  OBVIOUS
<1>10. stream' = [stream EXCEPT ![s].left = b, ![s].kept = k] /\ Emit(s, text, "no")
  <2>1. Emit(s, text, "no")
    BY <1>4, <1>6, <1>9
  <2>2. stream' = [stream EXCEPT ![s].left = SubSeq(@, n + 1, Len(@)), ![s].kept = k]
    BY <1>4, <1>6, <1>8
  <2>3. stream' = [stream EXCEPT ![s].left = b, ![s].kept = k]
    BY <1>2, <1>7, <2>2
  <2>4. QED
    BY <2>1, <2>3
<1>11. PICK r : r = [p EXCEPT !.left = b, !.kept = k]
  OBVIOUS
<1>12. r = [f \in Fields |-> r[f]] /\ r.phase = p.phase /\ r.said = p.said /\ r.left = b /\ r.kept = k
  BY <1>3, <1>11 DEF Fields
<1>13. stream' = [stream EXCEPT ![s] = r]
  BY <1>1, <1>2, <1>10, <1>11 DEF StreamTyped
<1>14. stream'[s] = r /\ \A t \in Streams : t # s => stream'[t] = stream[t]
  BY <1>1, <1>12, <1>13, StreamStep
<1>15. p.left \in Bytes /\ p.kept \in Bytes /\ Pieces(p.said) /\ p.phase = "live"
  BY <1>2, <1>5 DEF DecoderIInv, Decodes
<1>16. a \in Bytes /\ b \in Bytes /\ p.kept \o p.left = a \o b
  <2>1. PICK left, kept, L : left = p.left /\ kept = p.kept /\ L = Len(left)
    OBVIOUS
  <2>2. left \in Seq(ByteKinds) /\ kept \in Seq(ByteKinds) /\ L \in Nat /\ n \in 1 .. L
    BY <1>15, <2>1 DEF Bytes
  <2>3. PICK f : f = SubSeq(left, 1, n)
    OBVIOUS
  <2>4. f \in Seq(ByteKinds) /\ b \in Seq(ByteKinds)
    BY <1>7, <2>1, <2>2, <2>3
  <2>5. left = f \o b
    BY <1>7, <2>1, <2>2, <2>3
  <2>6. a = kept \o f
    BY <1>6, <2>1, <2>3
  <2>7. kept \o (f \o b) = (kept \o f) \o b /\ kept \o f \in Seq(ByteKinds)
    <3>1. kept \in Seq(ByteKinds)
      BY <2>2
    <3>2. (kept \o f) \o b = kept \o (f \o b) /\ kept \o f \in Seq(ByteKinds)
      BY ONLY <2>4, <3>1, Associative
    <3>3. QED
      BY <3>2
  <2>8. QED
    BY <2>1, <2>4, <2>5, <2>6, <2>7 DEF Bytes
<1>17. k \in Bytes /\ Stops(k) /\ text \in Seq(Units)
  BY <1>8, <1>9, <1>16, DrainedShape
<1>18. Decodes(r)
  BY <1>12, <1>15, <1>16, <1>17 DEF Decodes
<1>19. PICK after : after = Shown(k \o b)
  OBVIOUS
<1>20. Shown(a \o b) = text \o after /\ after \in Seq(Units)
  BY <1>8, <1>9, <1>16, <1>19, ShownCut
<1>21. CASE viewer.id # s
  <2>1. bus' = bus
    BY <1>10, <1>21 DEF Emit
  <2>2. Tells(bus')
    BY <2>1 DEF DecoderIInv
  <2>3. QED
    BY <1>5, <1>14, <1>18, <1>21, <2>1, <2>2, OneStream
<1>22. CASE viewer.id = s
  <2>1. Tells(bus) /\ seen \in Seq(Units) /\ Progress(p, bus, seen)
    BY <1>2, <1>22 DEF DecoderIInv
  <2>2. PICK told : told = Told(bus)
    OBVIOUS
  <2>3. told \in Seq(Units)
    BY <1>1, <2>1, <2>2, ToldTyped
  <2>4. Tells(bus') /\ Told(bus') = told \o text
    <3>1. CASE text = << >>
      <4>1. bus' = bus
        BY <1>10, <3>1 DEF Emit
      <4>2. told \o << >> = told
        BY <2>3, WithEmpty
      <4>3. QED
        BY <2>1, <2>2, <3>1, <4>1, <4>2
    <3>2. CASE text # << >>
      <4>1. PICK e : e = [text |-> text, ends |-> "no"]
        OBVIOUS
      <4>2. bus' = Append(bus, e) /\ e.text = text
        BY <1>10, <1>22, <3>2, <4>1 DEF Emit
      <4>3. \A i \in DOMAIN bus : bus[i].ends = "no"
        BY <1>5, <1>22, NoEndYet
      <4>4. Tells(Append(bus, e)) /\ Told(Append(bus, e)) = Told(bus) \o e.text
        BY <1>1, <1>17, <2>1, <4>2, <4>3, ToldLast
      <4>5. QED
        BY <2>2, <4>2, <4>4
    <3>3. QED
      BY <3>1, <3>2
  <2>5. seen \o (told \o (text \o after)) = Readable(p.said)
    BY <1>15, <1>16, <1>20, <2>1, <2>2 DEF Progress
  <2>6. told \o (text \o after) = (told \o text) \o after
    BY <1>17, <1>20, <2>3, Associative
  <2>7. Progress(r, bus', seen)
    BY <1>12, <1>15, <1>19, <2>4, <2>5, <2>6 DEF Progress
  <2>8. QED
    BY <1>5, <1>14, <1>18, <2>4, <2>7, <1>22, OneStream
<1>23. QED
  BY <1>21, <1>22

LEMMA EndsStreamShows ==
  ASSUME LogIInv, DecoderIInv, NEW s \in Streams, EndsStream(s)
  PROVE  DecoderIInv'
<1>1. StreamTyped /\ bus \in Seq(Announced)
  BY TypedParts DEF LogIInv
<1>2. PICK p : p = stream[s]
  OBVIOUS
<1>3. p = [f \in Fields |-> p[f]]
  BY <1>1, <1>2 DEF StreamTyped
<1>4. PICK ends \in {"asked", "eof", "lost"} :
        (ends = "eof" => p.left = << >>) /\ Emit(s, Flushed(p.kept), ends)
  BY <1>2 DEF EndsStream
<1>5. /\ stream[s].phase = "live"
      /\ stream' = [stream EXCEPT ![s].phase = "gone", ![s].left = << >>, ![s].kept = << >>]
      /\ UNCHANGED <<viewer, following, awaited, ahead, closing, seen, watched>>
  BY DEF EndsStream
<1>6. PICK r : r = [p EXCEPT !.phase = "gone", !.left = << >>, !.kept = << >>]
  OBVIOUS
<1>7. /\ r = [f \in Fields |-> r[f]] /\ r.phase = "gone"
      /\ r.said = p.said /\ r.left = << >> /\ r.kept = << >>
  BY <1>3, <1>6 DEF Fields
<1>8. stream' = [stream EXCEPT ![s] = r]
  BY <1>1, <1>2, <1>5, <1>6 DEF StreamTyped
<1>9. stream'[s] = r /\ \A t \in Streams : t # s => stream'[t] = stream[t]
  BY <1>1, <1>7, <1>8, StreamStep
<1>10. p.left \in Bytes /\ p.kept \in Bytes /\ Stops(p.kept) /\ p.phase = "live"
  BY <1>2, <1>5 DEF DecoderIInv, Decodes
<1>11. Decodes(r)
  <2>1. << >> \in Bytes /\ Stops(<< >>)
    BY DEF Bytes, Stops
  <2>2. QED
    BY <1>7, <2>1 DEF Decodes
<1>12. PICK text : text = Flushed(p.kept)
  OBVIOUS
<1>13. text \in Seq(Units) /\ Shown(p.kept) = text
  BY <1>10, <1>12, FlushedTyped, ShownOfStopped
<1>14. CASE viewer.id # s
  <2>1. bus' = bus
    BY <1>4, <1>14 DEF Emit
  <2>2. Tells(bus')
    BY <2>1 DEF DecoderIInv
  <2>3. QED
    BY <1>5, <1>9, <1>11, <1>14, <2>1, <2>2, OneStream
<1>15. CASE viewer.id = s
  <2>1. Tells(bus) /\ Progress(p, bus, seen)
    BY <1>2, <1>15 DEF DecoderIInv
  <2>2. PICK e : e = [text |-> text, ends |-> ends]
    OBVIOUS
  <2>3. e.text = text /\ e.ends = ends /\ ends # "no"
    BY <2>2
  <2>4. bus' = Append(bus, e)
    BY <1>4, <1>12, <1>15, <2>2, <2>3 DEF Emit
  <2>5. \A i \in DOMAIN bus : bus[i].ends = "no"
    BY <1>5, <1>15, NoEndYet
  <2>6. /\ Tells(bus') /\ Told(bus') = Told(bus) \o text
        /\ bus' # << >> /\ bus'[Len(bus')] = e
    BY <1>1, <1>13, <2>1, <2>3, <2>4, <2>5, ToldLast
  <2>7. ASSUME ends = "eof" PROVE seen \o Told(bus') = Readable(p.said)
    <3>1. p.kept \o p.left = p.kept
      BY <1>4, <1>10, <2>7, WithEmpty DEF Bytes
    <3>2. QED
      BY <1>10, <1>13, <2>1, <2>6, <3>1 DEF Progress
  <2>8. Progress(r, bus', seen)
    BY <1>7, <2>3, <2>6, <2>7 DEF Progress
  <2>9. QED
    BY <1>5, <1>9, <1>11, <1>15, <2>6, <2>8, OneStream
<1>16. QED
  BY <1>14, <1>15

LEMMA DeliverShows ==
  ASSUME LogIInv, DecoderIInv, Deliver
  PROVE  DecoderIInv'
<1>1. LogShape /\ bus \in Seq(Announced)
  BY TypedParts DEF LogIInv
<1>2. PICK event : event = Head(bus)
  OBVIOUS
<1>3. /\ bus # << >> /\ bus' = Tail(bus) /\ seen' = seen \o event.text
      /\ viewer' = IF event.ends = "no" THEN viewer ELSE [viewer EXCEPT !.id = NoStream]
      /\ watched' = IF event.ends = "eof" THEN viewer.id ELSE NoStream
      /\ UNCHANGED <<following, awaited, ahead, stream, closeAsked, closing>>
  BY <1>2 DEF Deliver
<1>4. viewer.id # NoStream /\ viewer.id \in Streams
  BY <1>1, <1>3, ViewerFacts DEF DecoderIInv
<1>5. PICK s \in Streams : viewer.id = s
  BY <1>4
<1>6. PICK p : p = stream[s]
  OBVIOUS
<1>7. Tells(bus) /\ seen \in Seq(Units) /\ Progress(p, bus, seen) /\ Decodes(p)
  BY <1>5, <1>6 DEF DecoderIInv
<1>8. p.phase \in {"live", "gone"}
  BY <1>3, <1>7 DEF Progress
<1>9. PICK x, rest : x = event.text /\ rest = Told(Tail(bus))
  OBVIOUS
<1>10. /\ Tells(bus') /\ event = bus[1] /\ x \in Seq(Units)
       /\ Told(bus) = x \o rest /\ rest \in Seq(Units) /\ Told(bus') = rest
       /\ event.ends # "no" => bus' = << >>
       /\ event.ends = "no" /\ bus[Len(bus)].ends # "no" =>
            bus' # << >> /\ bus'[Len(bus')] = bus[Len(bus)]
  BY <1>1, <1>2, <1>3, <1>7, <1>9, ToldFirst
<1>11. PICK shown : shown = seen'
  OBVIOUS
<1>12. shown = seen \o x /\ shown \in Seq(Units)
  <2>1. shown = seen \o x
    BY <1>3, <1>9, <1>11
  <2>2. \A a, b \in Seq(Units) : a \o b \in Seq(Units)
    BY Associative
  <2>3. QED
    BY <1>7, <1>10, <2>1, <2>2
<1>13. NoneBeforeStart'
  BY <1>3 DEF DecoderIInv, NoneBeforeStart
<1>14. seen' \in Seq(Units) /\ Tells(bus') /\ \A t \in Streams : Decodes(stream'[t])
  BY <1>3, <1>10, <1>11, <1>12 DEF DecoderIInv
<1>15. CASE event.ends = "no"
  <2>1. viewer' = viewer /\ watched' = NoStream
    BY <1>3, <1>15
  <2>2. ASSUME p.phase = "live" PROVE shown \o (Told(bus') \o Shown(p.kept \o p.left)) = Readable(p.said)
    <3>1. PICK after : after = Shown(p.kept \o p.left)
      OBVIOUS
    <3>2. p.kept \o p.left \in Bytes
      BY <1>7 DEF Decodes, Bytes
    <3>3. after \in Seq(Units)
      BY <3>1, <3>2, ShownTyped
    <3>4. seen \o ((x \o rest) \o after) = Readable(p.said)
      BY <1>7, <1>10, <2>2, <3>1 DEF Progress
    <3>5. (x \o rest) \o after = x \o (rest \o after) /\ rest \o after \in Seq(Units)
      <4>1. x \in Seq(Units) /\ rest \in Seq(Units)
        BY <1>10
      <4>2. QED
        BY ONLY <3>3, <4>1, Associative
    <3>6. PICK y : y = rest \o after
      OBVIOUS
    <3>7. y \in Seq(Units)
      BY <3>5, <3>6
    <3>8. (seen \o x) \o y = seen \o (x \o y)
      <4>1. seen \in Seq(Units) /\ x \in Seq(Units)
        BY <1>7, <1>10
      <4>2. QED
        BY ONLY <3>7, <4>1, Associative
    <3>9. QED
      BY <1>10, <1>12, <3>1, <3>4, <3>5, <3>6, <3>8
  <2>3. ASSUME p.phase = "gone"
        PROVE  /\ bus' # << >> /\ bus'[Len(bus')].ends # "no"
               /\ bus'[Len(bus')].ends = "eof" => shown \o Told(bus') = Readable(p.said)
    <3>1. bus[Len(bus)].ends # "no" /\ (bus[Len(bus)].ends = "eof" => seen \o Told(bus) = Readable(p.said))
      BY <1>7, <2>3 DEF Progress
    <3>2. bus' # << >> /\ bus'[Len(bus')] = bus[Len(bus)]
      BY <1>10, <1>15, <3>1
    <3>3. (seen \o x) \o rest = seen \o (x \o rest)
      <4>1. seen \in Seq(Units) /\ x \in Seq(Units) /\ rest \in Seq(Units)
        BY <1>7, <1>10
      <4>2. QED
        BY ONLY <4>1, Associative
    <3>4. QED
      BY <1>10, <1>12, <3>1, <3>2, <3>3
  <2>4. Progress(p, bus', seen')
    BY <1>8, <1>11, <2>2, <2>3 DEF Progress
  <2>5. WatchedIsWhole'
    BY <2>1 DEF WatchedIsWhole
  <2>6. \A t \in Streams : viewer'.id = t => Progress(stream'[t], bus', seen')
    BY <1>3, <1>5, <1>6, <2>1, <2>4
  <2>7. viewer'.id # NoStream
    BY <1>4, <2>1
  <2>8. QED
    BY <1>13, <1>14, <2>5, <2>6, <2>7 DEF DecoderIInv
<1>16. CASE event.ends # "no"
  <2>1. viewer'.id = NoStream
    <3>1. viewer' = [viewer EXCEPT !.id = NoStream]
      BY <1>3, <1>16
    <3>2. QED
      BY <1>1, <3>1, ViewerFacts
  <2>2. bus' = << >>
    BY <1>10, <1>16
  <2>3. event \in Announced
    <3>1. 1 \in DOMAIN bus
      BY <1>1, <1>3
    <3>2. QED
      BY <1>10, <3>1 DEF Announced
  <2>4. p.phase = "gone"
    BY <1>4, <1>5, <1>6, <1>16, <2>3 DEF LogIInv, EndsAreTrue
  <2>5. WatchedIsWhole'
    <3>1. SUFFICES ASSUME watched' # NoStream
                   PROVE  stream'[watched'].phase = "gone" /\ seen' = Readable(stream'[watched'].said)
      BY <2>1 DEF WatchedIsWhole
    <3>2. event.ends = "eof" /\ watched' = s
      BY <1>3, <1>5, <3>1
    <3>3. stream'[watched'] = p
      BY <1>3, <1>6, <3>2
    <3>4. Len(bus) = 1 /\ bus[Len(bus)] = event
      <4>1. 1 \in DOMAIN bus
        BY <1>1, <1>3
      <4>2. QED
        BY <1>7, <1>10, <1>16, <4>1 DEF Tells
    <3>5. seen \o Told(bus) = Readable(p.said)
      BY <1>7, <2>4, <3>2, <3>4 DEF Progress
    <3>6. rest = << >>
      BY <1>10, <2>2, ToldNothing
    <3>7. x \o rest = x
      BY ONLY <1>10, <3>6, WithEmpty
    <3>8. QED
      BY <1>10, <1>11, <1>12, <2>4, <3>3, <3>5, <3>7
  <2>6. \A t \in Streams : viewer'.id # t
    BY <2>1, LogAssumption
  <2>7. QED
    BY <1>13, <1>14, <2>2, <2>5, <2>6 DEF DecoderIInv
<1>17. QED
  BY <1>15, <1>16

LEMMA ViewerShows ==
  ASSUME LogIInv, DecoderIInv, NEW s \in Streams,
         Follow(s) \/ AfterStop(s) \/ Started(s) \/ StartFailed(s) \/ Close(s)
  PROVE  DecoderIInv'
<1>1. LogShape
  BY TypedParts DEF LogIInv
<1>2. \A status : \A f : f = [following EXCEPT ![s] = status] =>
        f[s] = status /\ \A t \in Streams : t # s => f[t] = following[t]
  BY <1>1 DEF LogShape
<1>3. CASE Follow(s)
  <2>1. following[s] = "unused"
    BY <1>3 DEF Follow
  <2>2. CASE viewer.id = NoStream
    <3>1. SendStart(s) /\ following' = [following EXCEPT ![s] = "started"]
      BY <1>3, <2>2 DEF Follow
    <3>2. QED
      BY <2>1, <3>1, TakesStream
  <2>3. CASE viewer.id # NoStream
    <3>1. /\ viewer' = [viewer EXCEPT !.id = NoStream] /\ DropStream
          /\ following' = [following EXCEPT ![s] = "stopping"]
          /\ UNCHANGED <<ahead, stream>>
      BY <1>3, <2>3 DEF Follow
    <3>2. viewer'.id = NoStream /\ Unwatched
      BY <1>1, <3>1, ViewerFacts DEF DropStream
    <3>3. \A t \in Streams : following'[t] \in {"unused", "stopping"} =>
                               following[t] \in {"unused", "stopping"}
      BY <1>2, <2>1, <3>1
    <3>4. QED
      BY <3>1, <3>2, <3>3, Forgotten
  <2>4. QED
    BY <2>2, <2>3
<1>4. CASE AfterStop(s)
  <2>1. /\ following[s] = "stopping" /\ SendStart(s)
        /\ following' = [following EXCEPT ![s] = "started"]
    BY <1>4 DEF AfterStop
  <2>2. QED
    BY <2>1, TakesStream
<1>5. CASE Started(s)
  <2>1. /\ following' = [following EXCEPT ![s] = "over"]
        /\ UNCHANGED <<viewer, awaited, ahead, stream, closeAsked, bus, seen, watched>>
    BY <1>5 DEF Started
  <2>2. \A t \in Streams : following'[t] \in {"unused", "stopping"} =>
                             following[t] \in {"unused", "stopping"}
    BY <1>2, <2>1
  <2>3. QED
    BY <2>1, <2>2, NothingShown
<1>6. CASE StartFailed(s)
  <2>1. /\ stream[s].phase = "refused" /\ following' = [following EXCEPT ![s] = "over"]
        /\ UNCHANGED <<awaited, ahead, stream, closeAsked, closing, bus, seen, watched>>
    BY <1>6 DEF StartFailed
  <2>2. \A t \in Streams : following'[t] \in {"unused", "stopping"} =>
                             following[t] \in {"unused", "stopping"}
    BY <1>2, <2>1
  <2>3. PICK id : id = IF viewer.id = s THEN NoStream ELSE viewer.id
    OBVIOUS
  <2>4. viewer' = [viewer EXCEPT !.id = id] /\ id \in Streams \cup {NoStream}
    BY <1>1, <1>6, <2>3, ViewerFacts DEF StartFailed
  <2>5. viewer'.id = id
    BY <1>1, <2>4, ViewerFacts
  <2>6. viewer.id = s => bus = << >>
    BY <2>1 DEF DecoderIInv, Progress
  <2>7. viewer'.id = NoStream => bus' = << >>
    BY <2>1, <2>3, <2>5, <2>6 DEF DecoderIInv
  <2>8. \A t \in Streams : viewer'.id = t => Progress(stream'[t], bus', seen')
    BY <2>1, <2>3, <2>5, LogAssumption DEF DecoderIInv
  <2>9. WatchedIsWhole'
    BY <2>1, <2>3, <2>5 DEF DecoderIInv, WatchedIsWhole
  <2>10. NoneBeforeStart'
    BY <2>1, <2>2 DEF DecoderIInv, NoneBeforeStart
  <2>11. QED
    BY <2>1, <2>7, <2>8, <2>9, <2>10 DEF DecoderIInv
<1>7. CASE Close(s)
  <2>1. UNCHANGED <<viewer, following, awaited, ahead, stream, bus, seen, watched>>
    BY <1>7 DEF Close
  <2>2. QED
    BY <2>1, NothingShown
<1>8. QED
  BY <1>3, <1>4, <1>5, <1>6, <1>7

LEMMA ViewShows ==
  ASSUME LogIInv, DecoderIInv, Pause \/ LeaveView \/ ReturnToView \/ CloseServer
  PROVE  DecoderIInv'
<1>1. LogShape
  BY TypedParts DEF LogIInv
<1>2. CASE Pause \/ LeaveView
  <2>1. Unwatched /\ UNCHANGED <<following, stream>>
    BY <1>2 DEF Pause, LeaveView, DropStream
  <2>2. viewer'.id = NoStream
    BY <1>1, <1>2 DEF Pause, LeaveView, LogShape
  <2>3. QED
    BY <2>1, <2>2, Forgotten
<1>3. CASE ReturnToView
  <2>1. UNCHANGED <<following, stream, bus, seen, watched>>
    BY <1>3 DEF ReturnToView
  <2>2. viewer'.id = viewer.id
    BY <1>1, <1>3 DEF ReturnToView, LogShape
  <2>3. QED
    BY <2>1, <2>2, NothingShown
<1>4. CASE CloseServer
  <2>1. UNCHANGED <<viewer, following, stream, bus, seen, watched>>
    BY <1>4 DEF CloseServer
  <2>2. QED
    BY <2>1, NothingShown
<1>5. QED
  BY <1>2, <1>3, <1>4

LEMMA DecoderInitHolds == LogInit => DecoderIInv
<1> SUFFICES ASSUME LogInit PROVE DecoderIInv
  OBVIOUS
<1>1. PICK n : n = NotStarted
  OBVIOUS
<1>2. n.phase = "none" /\ n.left = << >> /\ n.kept = << >>
  BY <1>1 DEF NotStarted
<1>3. \A s \in Streams : stream[s] = n
  BY <1>1 DEF LogInit
<1>4. << >> \in Bytes /\ Stops(<< >>)
  BY DEF Bytes, Stops
<1>5. Decodes(n)
  BY <1>2, <1>4 DEF Decodes
<1>6. viewer.id = NoStream /\ bus = << >> /\ seen = << >> /\ watched = NoStream
  BY DEF LogInit
<1>7. seen \in Seq(Units) /\ Tells(bus)
  BY <1>6, ToldNothing
<1>8. WatchedIsWhole /\ NoneBeforeStart
  BY <1>2, <1>3, <1>6 DEF WatchedIsWhole, NoneBeforeStart
<1>9. QED
  BY <1>3, <1>5, <1>6, <1>7, <1>8, LogAssumption DEF DecoderIInv

LEMMA DecoderStepPreserves == LogIInv /\ DecoderIInv /\ [LogNext]_logVars => DecoderIInv'
<1> SUFFICES ASSUME LogIInv, DecoderIInv, [LogNext]_logVars PROVE DecoderIInv'
  OBVIOUS
<1>1. CASE UNCHANGED logVars
  <2>1. UNCHANGED <<viewer, following, awaited, ahead, stream, closeAsked, closing, bus, seen, watched>>
    BY <1>1 DEF logVars
  <2>2. QED
    BY <2>1, NothingShown
<1>2. ASSUME NEW s \in Streams,
             \/ Follow(s) \/ AfterStop(s) \/ Started(s) \/ StartFailed(s)
             \/ OpensStream(s) \/ StartFails(s)
             \/ ReadsOutput(s) \/ EndsStream(s) \/ Close(s)
      PROVE  DecoderIInv'
  BY <1>2, ViewerShows, OpensStreamShows, StartFailsShows, ReadsOutputShows, EndsStreamShows
<1>3. CASE Pause \/ LeaveView \/ ReturnToView \/ Deliver \/ CloseServer
  BY <1>3, ViewShows, DeliverShows
<1>4. QED
  BY <1>1, <1>2, <1>3 DEF LogNext

LEMMA PrefixOfConcat ==
  ASSUME NEW S, NEW a \in Seq(S), NEW b \in Seq(S)
  PROVE  Sequence!IsPrefix(a, a \o b)
<1>1. PICK c : c = a \o b
  OBVIOUS
<1>2. PICK N : N = Len(a)
  OBVIOUS
<1>3. N \in Nat /\ N \in 0 .. Len(a) /\ c \in Seq(S) /\ N <= Len(c)
  BY <1>1, <1>2
<1>4. SubSeq(c, 1, N) = SubSeq(a, 1, N)
  BY ONLY <1>1, <1>3, SplitConcat
<1>5. QED
  BY <1>1, <1>2, <1>3, <1>4 DEF Sequence!IsPrefix

LEMMA DecoderShows == LogIInv /\ DecoderIInv => ShowsWhatWasSaid
<1> SUFFICES ASSUME LogIInv, DecoderIInv, NEW s \in Streams
             PROVE  /\ viewer.id = s /\ stream[s].phase = "live" =>
                         Sequence!IsPrefix(seen, Readable(stream[s].said))
                    /\ watched = s => seen = Readable(stream[s].said)
  BY DEF ShowsWhatWasSaid
<1>1. ASSUME viewer.id = s, stream[s].phase = "live"
      PROVE  Sequence!IsPrefix(seen, Readable(stream[s].said))
  <2>1. PICK p : p = stream[s]
    OBVIOUS
  <2>2. /\ p.phase = "live" /\ Progress(p, bus, seen) /\ Decodes(p)
        /\ Tells(bus) /\ seen \in Seq(Units) /\ bus \in Seq(Announced)
    BY <1>1, <2>1, TypedParts DEF DecoderIInv, LogIInv
  <2>3. PICK told : told = Told(bus)
    OBVIOUS
  <2>4. PICK after : after = Shown(p.kept \o p.left)
    OBVIOUS
  <2>5. told \in Seq(Units) /\ after \in Seq(Units)
    <3>1. p.kept \o p.left \in Bytes
      BY <2>2 DEF Decodes, Bytes
    <3>2. QED
      BY <2>2, <2>3, <2>4, <3>1, ToldTyped, ShownTyped
  <2>6. told \o after \in Seq(Units)
    BY <2>5
  <2>7. seen \o (told \o after) = Readable(p.said)
    BY <2>2, <2>3, <2>4 DEF Progress
  <2>8. QED
    BY <2>1, <2>2, <2>6, <2>7, PrefixOfConcat
<1>2. watched = s => seen = Readable(stream[s].said)
  BY LogAssumption DEF DecoderIInv, WatchedIsWhole
<1>3. QED
  BY <1>1, <1>2

\* Whatever the server prints, and however it is cut into reads, the viewer
\* shows a beginning of it while the stream runs, and all of it when it has
\* shown the end: emit_utf8 and flush_utf8, with what they keep between two
\* reads, the order of the events and the change of the viewer's identifier.
THEOREM ViewerShowsWhatWasSaid == LogSpec => []ShowsWhatWasSaid
<1>1. LogSpec => []DecoderIInv
  BY DecoderInitHolds, DecoderStepPreserves, LogInvariant, PTL DEF LogSpec
<1>2. QED
  BY <1>1, DecoderShows, LogInvariant, PTL
=============================================================================
