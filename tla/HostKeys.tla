------------------------------ MODULE HostKeys ------------------------------
(***************************************************************************)
(* ssh.rs and main.ts: trust in host keys.  A connection verifies the key  *)
(* of every hop of its chain against ~/.ssh/known_hosts before it sends a  *)
(* secret.  A key that is unknown, or not the one expected, becomes a      *)
(* question to the user; when the user trusts it, the hop is contacted     *)
(* again, the key compared with the one of the question, and known_hosts   *)
(* appended to or rewritten; then the command is tried once more.          *)
(*                                                                         *)
(* Commands run beside each other, hosts change their keys, and other      *)
(* programs add lines to known_hosts.                                      *)
(***************************************************************************)
EXTENDS Naturals, FiniteSets, Sequences

CONSTANTS Commands,
          Addresses,      \* host and port, as they name lines
          PlainOf,        \* the address without its port
          Chains,         \* hops of a server, itself first, bastions behind
          Keys,
          FirstKeys,      \* bounds: the keys hosts have at first,
          FirstLines,     \* the lines known_hosts may have at first,
          MaxKeyChanges,  \* how often keys change,
          MaxOthers       \* how many lines other programs add

ASSUME HostKeysAssumption ==
  /\ PlainOf \in [Addresses -> Addresses]
  /\ Chains \subseteq Seq(Addresses) \ {<< >>}
  /\ Addresses # {} /\ Keys # {}
  /\ FirstKeys \subseteq [Addresses -> Keys]
  /\ FirstLines \subseteq [addr : Addresses, key : Keys]
  /\ MaxKeyChanges \in Nat /\ MaxOthers \in Nat

VARIABLES presents,   \* the key of each host
          file,       \* known_hosts
          cmd,        \* where a command stands
          prompt,     \* the question the user sees
          changes,    \* key changes so far
          additions,  \* lines other programs added so far
          granted,    \* history: lines of questions answered with yes, or of others,
          reviewed,   \* lines the dialog showed when it was, or of others,
          entered,    \* lines that were put into the file,
          replaced,   \* addresses whose keys were replaced,
          disturbed   \* a rewrite failed half way, or did not see an addition

hosts == <<presents, changes>>
vouched == <<granted, reviewed>>
history == <<entered, replaced, disturbed>>
trustVars == <<hosts, file, cmd, prompt, additions, vouched, history>>

Lines == [addr : Addresses, key : Keys]
Line(a, k) == [addr |-> a, key |-> k]
Nothing == CHOOSE l \in Lines : TRUE
NoQuestion == [kind |-> "none", line |-> Nothing]
Questions == [kind : {"unknown", "mismatch"}, line : Lines] \cup {NoQuestion}

Steps == {"open", "verify", "compare", "append", "read", "truncate", "write"}
CommandStates ==
  [at : Steps \cup {"idle", "told", "waiting", "connected", "failed"},
   doing : {"connect", "accept", "replace"},
   chain : Chains,
   hop : Nat,              \* the hop that is contacted, from the last to the first
   goal : Nat,             \* the hop to be reached
   shown : Keys,           \* the key it presented
   question : Questions,   \* what the user has to be asked
   retried : BOOLEAN,      \* a question was answered, the next error is final
   memory : SUBSET Lines]  \* known_hosts as libssh2 holds it

TrustTypeOK ==
  /\ presents \in [Addresses -> Keys]
  /\ file \in SUBSET Lines
  /\ cmd \in [Commands -> CommandStates]
  /\ \A c \in Commands : {cmd[c].hop, cmd[c].goal} \subseteq 0 .. Len(cmd[c].chain)
  /\ prompt \in Questions
  /\ changes \in 0 .. MaxKeyChanges /\ additions \in 0 .. MaxOthers
  /\ granted \in SUBSET Lines /\ reviewed \in SUBSET Lines /\ entered \in SUBSET Lines
  /\ replaced \in SUBSET Addresses /\ disturbed \in BOOLEAN

Begun(chain) ==
  [at |-> "idle", doing |-> "connect", chain |-> chain, hop |-> Len(chain), goal |-> 1,
   shown |-> Nothing.key, question |-> NoQuestion, retried |-> FALSE, memory |-> {}]

TrustInit ==
  /\ presents \in FirstKeys
  /\ file \in SUBSET FirstLines
  /\ \E chains \in [Commands -> Chains] : cmd = [c \in Commands |-> Begun(chains[c])]
  /\ prompt = NoQuestion
  /\ changes = 0 /\ additions = 0
  /\ granted = file /\ reviewed = file /\ entered = file
  /\ replaced = {} /\ disturbed = FALSE
-----------------------------------------------------------------------------
(* libssh2's view of a file: lines for an address with its port are looked *)
(* at, and those for the plain host name.                                  *)

Answering(a) == {a, PlainOf[a]}

CheckPort(known, a, k) ==
  LET keys == {l.key : l \in {l \in known : l.addr \in Answering(a)}}
  IN  CASE k \in keys -> "match"
        [] keys = {} -> "unknown"
        [] OTHER -> "mismatch"

\* MUTANT of OtherLines: stale keys go, whatever host they are for.
OtherLinesOfKey(known, l) == {m \in known : m.key = l.key}

\* replace_host_key removes every line that says anything of the address.
OtherLines(known, l) == {m \in known : m.addr \notin Answering(l.addr)}

-----------------------------------------------------------------------------
(* Connecting: connect_profile and open_session go from the last bastion   *)
(* to the server itself.                                                   *)

Hop(c) == cmd[c].chain[cmd[c].hop]
Asked(c) == cmd[c].question.line
AtGoal(c) == cmd[c].hop = cmd[c].goal

Set(c, state) == cmd' = [cmd EXCEPT ![c] = state]
At(c, at) == [cmd[c] EXCEPT !.at = at]

Start(c) ==
  /\ cmd[c].at = "idle"
  /\ Set(c, At(c, "open"))
  /\ UNCHANGED <<hosts, file, prompt, additions, vouched, history>>

\* The handshake shows the key of the hop.  Who accepts or replaces a key
\* leaves the verification of its own hop to the comparison.
Open(c) ==
  /\ cmd[c].at = "open"
  /\ Set(c, [cmd[c] EXCEPT !.shown = presents[Hop(c)],
                           !.at = IF cmd[c].doing # "connect" /\ AtGoal(c) THEN "compare" ELSE "verify"])
  /\ UNCHANGED <<hosts, file, prompt, additions, vouched, history>>

\* verify_host_key and authenticate.
Verify(c) ==
  /\ cmd[c].at = "verify" /\ CheckPort(file, Hop(c), cmd[c].shown) = "match"
  /\ Set(c, IF AtGoal(c) THEN At(c, "connected") ELSE [At(c, "open") EXCEPT !.hop = @ - 1])
  /\ UNCHANGED <<hosts, file, prompt, additions, vouched, history>>

\* The webview knows a question by the beginning of the error, before which
\* open_session puts "Could not connect through" if it is of a bastion.
ReachesUser(c) == cmd[c].doing = "connect" /\ AtGoal(c) /\ ~cmd[c].retried

Refuse(c) ==
  LET kind == CheckPort(file, Hop(c), cmd[c].shown)
  IN  /\ cmd[c].at = "verify" /\ kind # "match"
      /\ Set(c, IF cmd[c].doing = "connect" /\ ~cmd[c].retried
                THEN [At(c, IF ReachesUser(c) THEN "told" ELSE "failed") EXCEPT
                        !.question = [kind |-> kind, line |-> Line(Hop(c), cmd[c].shown)]]
                ELSE At(c, "failed"))
      /\ UNCHANGED <<hosts, file, prompt, additions, vouched, history>>

\* Resolving, connecting, the handshake, authentication, reading the file.
Fail(c) ==
  /\ cmd[c].at \in Steps \ {"write"}
  /\ Set(c, At(c, "failed"))
  /\ UNCHANGED <<hosts, file, prompt, additions, vouched, history>>
-----------------------------------------------------------------------------
(* The question: the webview has one dialog and one promise for all.       *)

\* A question that finds the dialog open is not shown: it waits for the
\* answer to the one that is.
Ask(c) ==
  /\ cmd[c].at = "told"
  /\ Set(c, At(c, "waiting"))
  /\ prompt' = IF prompt = NoQuestion THEN cmd[c].question ELSE prompt
  /\ UNCHANGED <<hosts, file, additions, vouched, history>>

\* The hops of a chain before i that have the address of the question.
Candidates(c, i) == {k \in 1 .. i - 1 : cmd[c].chain[k] = Asked(c).addr}
Furthest(hops) == CHOOSE i \in hops : \A k \in hops : k <= i

\* accept_host_key and replace_host_key look for the hop from the last
\* bastion on; each is contacted through the ones behind it.
Seek(c, i, doing) ==
  IF Candidates(c, i) = {} THEN At(c, "failed")
  ELSE [At(c, "open") EXCEPT !.doing = doing, !.hop = Len(cmd[c].chain),
                             !.goal = Furthest(Candidates(c, i))]

Answered(c, trust) ==
  IF ~trust THEN At(c, "failed")
  ELSE Seek(c, Len(cmd[c].chain) + 1, IF cmd[c].question.kind = "unknown" THEN "accept" ELSE "replace")

\* The lines whoever waits has asked about.
Waiting == {Asked(c) : c \in {c \in Commands : cmd[c].at = "waiting"}}

\* Whoever waits goes on with the one answer, whatever it asked.
Answer(trust) ==
  /\ prompt # NoQuestion
  /\ cmd' = [c \in Commands |-> IF cmd[c].at = "waiting" THEN Answered(c, trust) ELSE cmd[c]]
  /\ prompt' = NoQuestion
  /\ granted' = IF trust THEN granted \cup Waiting ELSE granted
  /\ reviewed' = IF trust THEN reviewed \cup {prompt.line} ELSE reviewed
  /\ UNCHANGED <<hosts, file, additions, history>>
-----------------------------------------------------------------------------
(* Recording the key.                                                      *)

\* MUTANT of SameKey: whatever the host presents now is recorded.
SameKeyAlways(c) == TRUE

SameKey(c) == cmd[c].shown = Asked(c).key

Compare(c) ==
  /\ cmd[c].at = "compare" /\ SameKey(c)
  /\ Set(c, At(c, IF cmd[c].doing = "accept" THEN "append" ELSE "read"))
  /\ UNCHANGED <<hosts, file, prompt, additions, vouched, history>>

\* Another key: an error, but replacing goes on to the next hop of the same
\* address if this one is known by the key it has.
CompareFails(c) ==
  /\ cmd[c].at = "compare" /\ ~SameKey(c)
  /\ Set(c, IF cmd[c].doing = "replace" /\ CheckPort(file, Hop(c), cmd[c].shown) = "match"
            THEN Seek(c, cmd[c].goal, "replace") ELSE At(c, "failed"))
  /\ UNCHANGED <<hosts, file, prompt, additions, vouched, history>>

\* The command is sent again; no question follows another.
Retried(c) == [Begun(cmd[c].chain) EXCEPT !.at = "open", !.retried = TRUE, !.question = cmd[c].question]

Rewriting(c) == cmd[c].at \in {"truncate", "write"}
SomebodyElseRewrites(c) == \E d \in Commands \ {c} : Rewriting(d)

\* append_known_host_line, under O_APPEND.
Record(c) ==
  LET line == Line(Asked(c).addr, cmd[c].shown)
  IN  /\ cmd[c].at = "append"
      /\ file' = file \cup {line}
      /\ entered' = entered \cup {line}
      /\ disturbed' = (disturbed \/ SomebodyElseRewrites(c))
      /\ Set(c, Retried(c))
      /\ UNCHANGED <<hosts, prompt, additions, vouched, replaced>>

\* The file is read, and edited in memory.
Read(c) ==
  LET line == Line(Asked(c).addr, cmd[c].shown)
  IN  /\ cmd[c].at = "read"
      /\ Set(c, IF CheckPort(file, line.addr, line.key) = "unknown" THEN At(c, "failed")
                ELSE [At(c, "truncate") EXCEPT !.memory = OtherLines(file, line) \cup {line}])
      /\ disturbed' = (disturbed \/ SomebodyElseRewrites(c))
      /\ UNCHANGED <<hosts, file, prompt, additions, vouched, entered, replaced>>

\* write_file empties the file, and writes what is in memory.
Truncate(c) ==
  /\ cmd[c].at = "truncate"
  /\ file' = {}
  /\ Set(c, At(c, "write"))
  /\ UNCHANGED <<hosts, prompt, additions, vouched, history>>

WriteBack(c) ==
  /\ cmd[c].at = "write"
  /\ file' = cmd[c].memory
  /\ entered' = entered \cup {Asked(c)}
  /\ replaced' = replaced \cup {Asked(c).addr}
  /\ Set(c, Retried(c))
  /\ UNCHANGED <<hosts, prompt, additions, vouched, disturbed>>

\* The disk is full: a part is written.
WriteFails(c) ==
  /\ cmd[c].at = "write"
  /\ \E part \in SUBSET cmd[c].memory : file' = part
  /\ disturbed' = TRUE
  /\ Set(c, At(c, "failed"))
  /\ UNCHANGED <<hosts, prompt, additions, vouched, entered, replaced>>
-----------------------------------------------------------------------------
(* The rest of the world.                                                  *)

ChangeKey ==
  /\ changes < MaxKeyChanges
  /\ \E a \in Addresses, k \in Keys : presents' = [presents EXCEPT ![a] = k]
  /\ changes' = changes + 1
  /\ UNCHANGED <<file, cmd, prompt, additions, vouched, history>>

\* ssh adds the key its user has accepted.
AddLine ==
  /\ additions < MaxOthers
  /\ \E a \in Addresses :
       LET line == Line(a, presents[a])
       IN  /\ file' = file \cup {line}
           /\ entered' = entered \cup {line}
           /\ granted' = granted \cup {line} /\ reviewed' = reviewed \cup {line}
  /\ additions' = additions + 1
  /\ disturbed' = (disturbed \/ \E c \in Commands : Rewriting(c))
  /\ UNCHANGED <<hosts, cmd, prompt, replaced>>

TrustNext ==
  \/ \E c \in Commands :
       \/ Start(c) \/ Open(c) \/ Verify(c) \/ Refuse(c) \/ Fail(c) \/ Ask(c)
       \/ Compare(c) \/ CompareFails(c) \/ Record(c)
       \/ Read(c) \/ Truncate(c) \/ WriteBack(c) \/ WriteFails(c)
  \/ \E trust \in BOOLEAN : Answer(trust)
  \/ ChangeKey \/ AddLine

TrustSpec == TrustInit /\ [][TrustNext]_trustVars
-----------------------------------------------------------------------------
\* No line is in known_hosts that nobody has answered for: the user said yes
\* to a question about it, or another program wrote it.  A host that changes
\* its key between question and answer does not get in.  (That the question
\* was the one in the dialog is more than this: TrustIsReviewed.)
TrustIsGranted == file \subseteq granted

\* "First contact never silently trusts a key" (ssh.rs), fingerprints are
\* shown before a key is trusted (README): every line of known_hosts was in
\* the dialog when the user said yes, or another program wrote it.
TrustIsReviewed == file \subseteq reviewed

\* Lines of other addresses outlive every replacement: replace_host_key and
\* append_known_host_line lose no line of others, unless a rewrite fails, or
\* runs beside an addition or another rewrite (replace_host_key holds no lock).
LinesSurvive ==
  ~disturbed /\ (\A c \in Commands : cmd[c].at # "write") =>
    \A l \in entered : l \in file \/ \E a \in replaced : l.addr \in Answering(a)

\* A connection that fails at a key it does not know shows it to the user:
\* what the comment in verify_host_key and the README say.
QuestionsReachUser ==
  \A c \in Commands : cmd[c].question # NoQuestion /\ cmd[c].at = "failed" => AtGoal(c) \/ cmd[c].retried
=============================================================================
