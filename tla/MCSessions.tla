----------------------------- MODULE MCSessions -----------------------------
\* Three activities with SSH sessions of their own, in one run: transfers,
\* connections with their host keys, and log streams.  They share no state;
\* the initial state says which of them a behaviour is about.
EXTENDS MCTransfer, MCHostKeys, MCLogStream

VARIABLE part

SessionVars == <<vars, trustVars, logVars, part>>

\* What is not the part of a behaviour stays at one of its initial values.
NoTransfer ==
  /\ job = [j \in Jobs |-> Asks("delete", FALSE, FALSE)]
  /\ server = [posix |-> FALSE, overwrite |-> FALSE]
  /\ pc = [j \in Jobs |-> "idle"] /\ at = [j \in Jobs |-> 1]
  /\ stage = [j \in Jobs |-> Absent]
  /\ free = [j \in Jobs |-> {}] /\ placed = [j \in Jobs |-> {}] /\ skipped = [j \in Jobs |-> {}]
  /\ cancelled = [j \in Jobs |-> FALSE] /\ link = [j \in Jobs |-> TRUE]
  /\ remote = [f \in Names |-> Absent] /\ local = Absent
  /\ folder = TRUE /\ made = [j \in Jobs |-> FALSE]

NoTrust ==
  /\ presents = [a \in Addresses |-> k1] /\ file = {} /\ prompt = NoQuestion
  /\ cmd = [c \in Commands |-> Begun(<<target>>)]
  /\ changes = 0 /\ additions = 0 /\ granted = {} /\ reviewed = {} /\ entered = {}
  /\ replaced = {} /\ disturbed = FALSE

SessionsInit ==
  \/ part = "transfers" /\ Init /\ NoTrust /\ LogInit
  \/ part = "host keys" /\ NoTransfer /\ TrustInit /\ LogInit
  \/ part = "log streams" /\ NoTransfer /\ NoTrust /\ LogInit

SessionsNext ==
  /\ UNCHANGED part
  /\ \/ part = "transfers" /\ Next /\ UNCHANGED <<trustVars, logVars>>
     \/ part = "host keys" /\ TrustNext /\ UNCHANGED <<vars, logVars>>
     \/ part = "log streams" /\ LogNext /\ UNCHANGED <<vars, trustVars>>

SessionsSpec == SessionsInit /\ [][SessionsNext]_SessionVars

Interchangeable == Commanders \cup Followers
=============================================================================
