----------------------------- MODULE Connections -----------------------------
(***************************************************************************)
(* The cache of SSH connections, seen from one server profile: with_client *)
(* of ssh.rs run by several command threads, against edits of the profile  *)
(* (save_server of lib.rs), explicit disconnects and the loss of           *)
(* connections.  Another server touches another entry of the map, and a    *)
(* bastion only matters as part of what a connection was made with.        *)
(*                                                                         *)
(* A connection is a reference (an Arc) and only its identity counts: one  *)
(* that nobody has in hand is freed, and its number is used again.  It     *)
(* carries the profile_key of the profile the thread read, and the version *)
(* of everything profile_key leaves out (stored secrets, the bastion's own *)
(* address) that was current when it authenticated.                        *)
(***************************************************************************)
EXTENDS Naturals, FiniteSets

CONSTANTS Threads,   \* command threads
          Keys,      \* values of profile_key
          MaxCalls,  \* bound: calls of with_client in a behaviour
          MaxSaves,  \* bound: edits of the profile in a behaviour
          None       \* nothing: no owner of a mutex, no profile read

ASSUME ConnectionsAssumption ==
  /\ IsFiniteSet(Threads) /\ None \notin Threads \cup Keys
  /\ Keys # {}
  /\ MaxCalls \in Nat /\ MaxSaves \in Nat

VARIABLES
  profile,   \* the stored profile: its key, and the version of the rest
  cache,     \* CONNECTIONS: the cached connection, or 0
  conn,      \* what each connection was made with
  dead,      \* connections whose session no longer answers
  owner,     \* the thread that holds each connection's mutex
  pc,        \* where each thread stands in with_client
  key,       \* the profile_key of the profile the thread read
  attempt,   \* the pass of the retry loop it is in
  using,     \* the connection it has in hand, or 0
  cancelled, \* threads whose operation was cancelled
  calls,     \* how many calls were made
  saving,    \* whether save_server stands between its write and its disconnect
  since,     \* history: the profile version settled when the call started
  settled,   \* history: the profile version the last finished save wrote
  spoilt     \* history: connections a thread has found unusable

connections == <<cache, conn, dead, owner>>
threads == <<pc, key, attempt, using, since>>
store == <<profile, saving, settled>>
vars == <<connections, threads, store, cancelled, calls, spoilt>>

Conn == 1 .. Cardinality(Threads) + 1   \* the cached one, one in each hand
InHand == {cache} \cup {using[t] : t \in Threads}
Unused == CHOOSE c \in Conn : c \notin InHand
Steps == {"idle", "lookup", "evict", "connect", "insert", "lockProbe", "probe",
          "dropProbed", "lockUse", "use", "dropUsed"}

Init ==
  /\ profile = [key |-> CHOOSE k \in Keys : TRUE, version |-> 0]
  /\ cache = 0 /\ dead = {}
  /\ conn = [c \in Conn |-> profile]
  /\ owner = [c \in Conn |-> None]
  /\ pc = [t \in Threads |-> "idle"]
  /\ key = [t \in Threads |-> None]
  /\ attempt = [t \in Threads |-> 0]
  /\ using = [t \in Threads |-> 0]
  /\ cancelled = {} /\ calls = 0
  /\ saving = FALSE /\ settled = 0
  /\ since = [t \in Threads |-> 0]
  /\ spoilt = {}
-----------------------------------------------------------------------------
(* with_client, one thread.                                                *)

Goto(t, step) == pc' = [pc EXCEPT ![t] = step]

\* get_server and begin_operation.
Call(t) ==
  /\ pc[t] = "idle" /\ calls < MaxCalls
  /\ calls' = calls + 1
  /\ key' = [key EXCEPT ![t] = profile.key]
  /\ since' = [since EXCEPT ![t] = settled]
  /\ Goto(t, "lookup")
  /\ UNCHANGED <<connections, attempt, using, store, cancelled, spoilt>>

\* finish_operation and return, from wherever the thread stands: the locals
\* of the call and the flag of its operation are gone.
Return(t) ==
  /\ Goto(t, "idle")
  /\ key' = [key EXCEPT ![t] = None]
  /\ attempt' = [attempt EXCEPT ![t] = 0]
  /\ using' = [using EXCEPT ![t] = 0]
  /\ since' = [since EXCEPT ![t] = 0]
  /\ cancelled' = cancelled \ {t}

\* A wait that ensure_not_cancelled ends: the top of the retry loop, the
\* polling of lock_client, the checks made while connecting.
GiveUp(t) ==
  /\ pc[t] \in {"lookup", "connect", "lockProbe", "lockUse"}
  /\ t \in cancelled
  /\ Return(t)
  /\ UNCHANGED <<connections, store, calls, spoilt>>

\* MUTANT of LookUp: any cached connection of the server is reused.
LookUpAny(t) ==
  /\ pc[t] = "lookup" /\ t \notin cancelled
  /\ IF cache # 0
     THEN using' = [using EXCEPT ![t] = cache] /\ Goto(t, "lockProbe")
     ELSE Goto(t, "evict") /\ UNCHANGED using
  /\ UNCHANGED <<connections, key, attempt, since, store, cancelled, calls, spoilt>>

\* cached_client, the lookup under the map's lock.
LookUp(t) ==
  /\ pc[t] = "lookup" /\ t \notin cancelled
  /\ IF cache # 0 /\ conn[cache].key = key[t]
     THEN using' = [using EXCEPT ![t] = cache] /\ Goto(t, "lockProbe")
     ELSE Goto(t, "evict") /\ UNCHANGED using
  /\ UNCHANGED <<connections, key, attempt, since, store, cancelled, calls, spoilt>>

\* cached_client, the removal of what did not match: whatever is there now.
Evict(t) ==
  /\ pc[t] = "evict"
  /\ cache' = 0
  /\ Goto(t, "connect")
  /\ UNCHANGED <<conn, dead, owner, key, attempt, using, since, store,
                 cancelled, calls, spoilt>>

\* connect_with_cancellation succeeds: the secrets and the bastion profiles
\* are read from the store while it runs, the address and user before.
Connect(t) ==
  /\ pc[t] = "connect"
  /\ conn' = [conn EXCEPT ![Unused] = [key |-> key[t], version |-> profile.version]]
  /\ using' = [using EXCEPT ![t] = Unused]
  /\ dead' = dead \ {Unused} /\ spoilt' = spoilt \ {Unused}
  /\ Goto(t, "insert")
  /\ UNCHANGED <<cache, owner, key, attempt, since, store, cancelled, calls>>

\* It fails: once more if this was the first pass and the error is a
\* retryable one, else the call fails.
ConnectFails(t) ==
  /\ pc[t] = "connect"
  /\ \/ /\ attempt[t] = 0
        /\ attempt' = [attempt EXCEPT ![t] = 1]
        /\ Goto(t, "lookup")
        /\ UNCHANGED <<key, using, since, cancelled>>
     \/ Return(t)
  /\ UNCHANGED <<connections, store, calls, spoilt>>

\* cached_client, the insertion: it replaces what another thread inserted.
Insert(t) ==
  /\ pc[t] = "insert"
  /\ cache' = using[t]
  /\ Goto(t, "lockUse")
  /\ UNCHANGED <<conn, dead, owner, key, attempt, using, since, store,
                 cancelled, calls, spoilt>>

\* lock_client: polling try_lock on the connection's mutex.
Lock(t, before, after) ==
  /\ pc[t] = before /\ t \notin cancelled
  /\ owner[using[t]] = None
  /\ owner' = [owner EXCEPT ![using[t]] = t]
  /\ Goto(t, after)
  /\ UNCHANGED <<cache, conn, dead, key, attempt, using, since, store,
                 cancelled, calls, spoilt>>

LockToProbe(t) == Lock(t, "lockProbe", "probe")
LockToUse(t) == Lock(t, "lockUse", "use")

\* MUTANT of Unlock: the guard of the probe lives until the call is over.
UnlockLate(t) ==
  owner' = IF pc[t] = "probe" THEN owner ELSE [owner EXCEPT ![using[t]] = None]

Unlock(t) == owner' = [owner EXCEPT ![using[t]] = None]

\* The probe of a reused connection: a dead one does not answer, and one
\* that answers may still be judged unusable (timeout, cancellation).
Probe(t) ==
  /\ pc[t] = "probe"
  /\ Unlock(t)
  /\ \/ /\ using[t] \notin dead
        /\ Goto(t, "lockUse")
        /\ UNCHANGED spoilt
     \/ /\ Goto(t, "dropProbed")
        /\ spoilt' = spoilt \cup {using[t]}
  /\ UNCHANGED <<cache, conn, dead, key, attempt, using, since, store,
                 cancelled, calls>>

\* MUTANT of Invalidate: the entry is removed without comparing it.
InvalidateAny(t) == cache' = 0

\* MUTANT of Invalidate: nothing is removed when the entry is the own one.
InvalidateOther(t) == cache' = IF cache = using[t] THEN cache ELSE 0

\* invalidate_cached: remove the entry only if it is this very connection.
Invalidate(t) ==
  cache' = IF cache = using[t] /\ conn[using[t]].key = key[t] THEN 0 ELSE cache

DropProbed(t) ==
  /\ pc[t] = "dropProbed"
  /\ Invalidate(t)
  /\ IF attempt[t] = 0
     THEN /\ attempt' = [attempt EXCEPT ![t] = 1]
          /\ Goto(t, "lookup")
          /\ UNCHANGED <<key, using, since, cancelled>>
     ELSE Return(t)
  /\ UNCHANGED <<conn, dead, owner, store, calls, spoilt>>

\* The operation itself, under the mutex.  It ends well, cancelled, or with
\* an error after which the keepalive shows a usable connection (a dead one
\* may pass); or the connection is found unusable.
Use(t) ==
  /\ pc[t] = "use"
  /\ Unlock(t)
  /\ \/ Return(t) /\ UNCHANGED spoilt
     \/ /\ using[t] \in dead
        /\ Goto(t, "dropUsed")
        /\ spoilt' = spoilt \cup {using[t]}
        /\ UNCHANGED <<key, attempt, using, since, cancelled>>
  /\ UNCHANGED <<cache, conn, dead, store, calls>>

DropUsed(t) ==
  /\ pc[t] = "dropUsed"
  /\ Invalidate(t)
  /\ Return(t)
  /\ UNCHANGED <<conn, dead, owner, store, calls, spoilt>>
-----------------------------------------------------------------------------
(* The rest of the program.                                                *)

\* cancel_operation reaches the flag the thread's operation holds.
Cancel(t) ==
  /\ pc[t] # "idle" /\ t \notin cancelled
  /\ cancelled' = cancelled \cup {t}
  /\ UNCHANGED <<connections, threads, store, calls, spoilt>>

\* The session is lost: network, server or bastion.  That of a connection
\* nobody has in hand any more makes no difference.
Lose(c) ==
  /\ c \in InHand \ (dead \cup {0})
  /\ dead' = dead \cup {c}
  /\ UNCHANGED <<cache, conn, owner, threads, store, cancelled, calls, spoilt>>

\* disconnect_server: forget the connection; close it if nobody uses it.
Disconnect ==
  /\ cache' = 0
  /\ dead' = IF cache # 0 /\ owner[cache] = None THEN dead \cup {cache} ELSE dead
  /\ UNCHANGED <<conn, owner>>

UserDisconnects ==
  /\ cache # 0
  /\ Disconnect
  /\ UNCHANGED <<threads, store, cancelled, calls, spoilt>>

\* save_server (of this server, or of a bastion it is routed through) writes
\* a connectivity change.  The key need not differ: a new password or a
\* change of the bastion's own address is not part of it.
SaveWrites ==
  /\ ~saving /\ profile.version < MaxSaves
  /\ \E k \in Keys : profile' = [key |-> k, version |-> profile.version + 1]
  /\ saving' = TRUE
  /\ UNCHANGED <<connections, threads, cancelled, calls, settled, spoilt>>

\* ... and then closes what the change affects (close_server_activity).
SaveDisconnects ==
  /\ saving
  /\ Disconnect
  /\ saving' = FALSE
  /\ settled' = profile.version
  /\ UNCHANGED <<threads, profile, cancelled, calls, spoilt>>
-----------------------------------------------------------------------------
Step(t) ==
  \/ GiveUp(t)
  \/ LookUp(t)
  \/ Evict(t)
  \/ Connect(t)
  \/ ConnectFails(t)
  \/ Insert(t)
  \/ LockToProbe(t)
  \/ Probe(t)
  \/ DropProbed(t)
  \/ LockToUse(t)
  \/ Use(t)
  \/ DropUsed(t)

Next ==
  \/ \E t \in Threads : Call(t) \/ Step(t) \/ Cancel(t)
  \/ \E c \in Conn : Lose(c)
  \/ UserDisconnects
  \/ SaveWrites
  \/ SaveDisconnects

(***************************************************************************)
(* Threads are scheduled and every wait on the network times out, so each  *)
(* step of a call that stays possible is taken.  Nothing is assumed of the *)
(* order in which the pollers of a mutex get it.                           *)
(***************************************************************************)
Fairness == \A t \in Threads : WF_vars(Step(t))

Spec == Init /\ [][Next]_vars
FairSpec == Spec /\ Fairness
-----------------------------------------------------------------------------
TypeOK ==
  /\ profile \in [key : Keys, version : 0 .. MaxSaves]
  /\ cache \in Conn \cup {0}
  /\ conn \in [Conn -> [key : Keys, version : 0 .. MaxSaves]]
  /\ dead \subseteq Conn
  /\ owner \in [Conn -> Threads \cup {None}]
  /\ pc \in [Threads -> Steps]
  /\ key \in [Threads -> Keys \cup {None}]
  /\ attempt \in [Threads -> {0, 1}]
  /\ using \in [Threads -> Conn \cup {0}]
  /\ cancelled \subseteq Threads
  /\ calls \in 0 .. MaxCalls
  /\ saving \in BOOLEAN
  /\ since \in [Threads -> 0 .. MaxSaves]
  /\ settled \in 0 .. profile.version
  /\ spoilt \subseteq Conn

InCommand(t) == pc[t] \in {"lockProbe", "probe", "lockUse", "use"}

(***************************************************************************)
(* A command runs over a connection that was made for the profile it read: *)
(* whatever edits and insertions by other threads happen in between, it    *)
(* never talks to the address, user or bastion of another version.         *)
(***************************************************************************)
RunsOnOwnProfile == \A t \in Threads : InCommand(t) => conn[using[t]].key = key[t]

(***************************************************************************)
(* A connection some call found unusable does not stay in the cache once   *)
(* that call is over, so the next call does not trip over it again.  (The  *)
(* reverse order, an insertion after the verdict, cannot happen: only the  *)
(* thread that made a connection inserts it, before anybody can judge it.) *)
(***************************************************************************)
SpoiltIsEvicted ==
  cache \in spoilt =>
    \E t \in Threads : pc[t] \in {"dropProbed", "dropUsed"} /\ using[t] = cache

(***************************************************************************)
(* A call that finds its connection unusable never throws out a connection *)
(* another call has put in its place: what an invalidation removes is a    *)
(* connection already found unusable.                                      *)
(***************************************************************************)
InvalidationSparesOthers ==
  [][\A t \in Threads :
       pc[t] \in {"dropProbed", "dropUsed"} /\ pc'[t] # pc[t]
         => cache' = cache \/ cache \in spoilt]_vars

(***************************************************************************)
(* Every call returns, with a result or an error: no thread waits for ever *)
(* for a connection another thread uses, and the retry loop ends.          *)
(***************************************************************************)
CallsReturn == \A t \in Threads : (pc[t] # "idle") ~> (pc[t] = "idle")

(***************************************************************************)
(* What the comment in lib.rs, save_server, says: a connectivity change    *)
(* invalidates the server.  A call that starts after the save has closed   *)
(* what it affects runs on a connection made with what was saved.          *)
(***************************************************************************)
SaveInvalidates ==
  \A t \in Threads : pc[t] = "use" => conn[using[t]].version >= since[t]
=============================================================================
