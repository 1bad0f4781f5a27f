----------------------------- MODULE ServerStore -----------------------------
(***************************************************************************)
(* Server profiles of storage.rs with their bastions and secrets, and what *)
(* the commands of lib.rs that edit them do to the sessions open at the    *)
(* time: terminals, log streams, cached connections, running tunnels.      *)
(*                                                                         *)
(* Rows are in a database, secrets in the vault; an edit is a row of       *)
(* separate steps, each of which may fail, between which sessions connect  *)
(* and the program may be killed.  A step on the vault is atomic, as       *)
(* CredentialVault shows.                                                  *)
(***************************************************************************)
EXTENDS Naturals, FiniteSets

CONSTANTS Servers,
          Hosts,     \* what profile_key holds, the bastion aside
          Secrets,   \* stored passwords and passphrases
          Editors,   \* threads of commands that edit
          Sessions,  \* bound: sessions
          None,
          Keep       \* the draft leaves the secret as it is

Rows == [host : Hosts, jump : Servers \cup {None}]
Secret == Secrets \cup {None}
Drafts == [row : Rows, secret : Secret \cup {Keep}]
Profiles == [Servers -> [row : Rows \cup {None}, secret : Secret] \cup {None}]

ASSUME StoreAssumption ==
  /\ IsFiniteSet(Servers)
  /\ None \notin Servers \cup Secrets \cup Rows /\ Keep \notin Secret

VARIABLES
  rows,     \* the table servers: the profile of each server, or None
  secrets,  \* the vault
  locked,   \* the vault is locked
  editor,   \* what each editing command is about to do
  session   \* each session and the profiles it was made with

vars == <<rows, secrets, locked, editor, session>>

Idle == [kind |-> "none", pc |-> "idle", server |-> None, draft |-> None,
         isNew |-> FALSE, updates |-> FALSE, before |-> None, todo |-> {}]
NoSession == [state |-> "none", server |-> None, made |-> None, excused |-> FALSE]

Init ==
  /\ rows = [s \in Servers |-> None]
  /\ secrets = [s \in Servers |-> None]
  /\ locked = TRUE
  /\ editor = [e \in Editors |-> Idle]
  /\ session = [x \in Sessions |-> NoSession]
-----------------------------------------------------------------------------
(* Bastions.                                                               *)

Jump(r, s) == IF r[s] = None THEN None ELSE r[s].jump

\* A server with its bastions: the least set with s closed under Jump.
Chain(r, s) ==
  {t \in Servers : \A S \in SUBSET Servers :
     s \in S /\ (\A u \in S : Jump(r, u) # None => Jump(r, u) \in S) => t \in S}

\* MUTANT of Affected: servers behind two bastions are missed.
AffectedDirect(r, s) == {s} \cup {t \in Servers : Jump(r, t) = s}

\* affected_server_ids: s and, pass after pass, every profile whose bastion
\* is in the set.
Affected(r, s) ==
  {t \in Servers : \A S \in SUBSET Servers :
     s \in S /\ (\A u \in Servers : Jump(r, u) \in S => u \in S) => t \in S}

\* Among any servers there is one whose bastion is not among them.
Acyclic(r) == \A S \in SUBSET Servers : S # {} => \E s \in S : Jump(r, s) \notin S

\* MUTANT of ValidJump: only a server that is its own bastion is refused.
ValidJumpNear(r, s, jump) == jump # None => jump # s /\ r[jump] # None

\* validate_jump_host: the chain of the bastion exists, ends, and misses s.
ValidJump(r, s, jump) ==
  jump # None =>
    LET chain == Chain(r, jump)
    IN  /\ s \notin chain
        /\ \A t \in chain : r[t] # None
        /\ \E t \in chain : Jump(r, t) = None
-----------------------------------------------------------------------------
(* Sessions.                                                               *)

\* Everything a session of s depends on.
Profile(r, secs, s) ==
  LET chain == Chain(r, s)
  IN  [t \in Servers |-> IF t \in chain THEN [row |-> r[t], secret |-> secs[t]] ELSE None]

\* No vault file, or an empty one.
NoVault == \A s \in Servers : secrets[s] = None

Editing == \E e \in Editors : editor[e].pc # "idle"

\* Profiles and secrets are read, connecting begins.  (That a locked vault
\* may refuse its secrets only makes fewer sessions.)
Connect(x, s) ==
  /\ session[x].state = "none" /\ rows[s] # None
  /\ session' = [session EXCEPT ![x] =
       [state |-> "connecting", server |-> s, made |-> Profile(rows, secrets, s), excused |-> Editing]]
  /\ UNCHANGED <<rows, secrets, locked, editor>>

Opened(x) ==
  /\ session[x].state = "connecting"
  /\ session' = [session EXCEPT ![x].state = "open"]
  /\ UNCHANGED <<rows, secrets, locked, editor>>

\* It fails or is closed.
End(x) ==
  /\ session[x].state # "none"
  /\ session' = [session EXCEPT ![x] = NoSession]
  /\ UNCHANGED <<rows, secrets, locked, editor>>

\* History: what is connecting while an edit is under way, or open when one
\* breaks off half done, need not be current afterwards.
Excuse(states) ==
  session' = [x \in Sessions |->
    IF session[x].state \in states THEN [session[x] EXCEPT !.excused = TRUE] ELSE session[x]]
-----------------------------------------------------------------------------
(* Edits.                                                                  *)

Begin(e, record) ==
  /\ editor' = [editor EXCEPT ![e] = record]
  /\ Excuse({"connecting"})
  /\ UNCHANGED <<rows, secrets, locked>>

\* An identifier just drawn: nothing was ever stored under it.
Fresh(s) ==
  /\ rows[s] = None /\ secrets[s] = None
  /\ \A e \in Editors : editor[e].server # s
  /\ \A x \in Sessions : session[x].server # s

Updates(isNew, secret, named) ==
  secret \in Secrets \/ (~isNew /\ secret # Keep) \/ (isNew /\ named)

\* save_server: the draft is checked; secrets need an open vault.
Save(e, s, jump) ==
  /\ editor[e] = Idle
  /\ ValidJump(rows, s, jump)
  /\ \E named \in BOOLEAN, host \in Hosts, secret \in Secret \cup {Keep} :
       LET isNew == rows[s] = None
       IN  /\ named \/ Fresh(s)
           /\ Updates(isNew, secret, named) => ~locked
           /\ Begin(e, [kind |-> "save", pc |-> "row", server |-> s,
                        draft |-> [row |-> [host |-> host, jump |-> jump], secret |-> secret],
                        isNew |-> isNew, updates |-> Updates(isNew, secret, named),
                        before |-> rows[s], todo |-> {}])

\* duplicate_server: a new server with the row and the secret of another.
Duplicate(e, s, t) ==
  /\ editor[e] = Idle
  /\ rows[s] # None /\ Fresh(t)
  /\ ~locked \/ NoVault
  /\ ValidJump(rows, t, rows[s].jump)
  /\ Begin(e, [kind |-> "duplicate", pc |-> "row", server |-> t,
               draft |-> [row |-> rows[s], secret |-> IF secrets[s] = None THEN Keep ELSE secrets[s]],
               isNew |-> TRUE, updates |-> secrets[s] # None, before |-> None, todo |-> {}])

\* delete_server: who is routed through the server is asked first.
Delete(e, s) ==
  /\ editor[e] = Idle
  /\ rows[s] # None
  /\ Begin(e, [Idle EXCEPT !.kind = "delete", !.pc = "close", !.server = s, !.todo = Affected(rows, s)])

\* reset_credentials closes everything.
Reset(e) == editor[e] = Idle /\ Begin(e, [Idle EXCEPT !.kind = "reset", !.pc = "close", !.todo = Servers])

Goto(e, pc) == editor' = [editor EXCEPT ![e].pc = pc]
Finish(e) == editor' = [editor EXCEPT ![e] = Idle]

\* The row is inserted or updated; its bastion has to exist.
WriteRow(e) ==
  LET ed == editor[e]
  IN  /\ ed.pc = "row"
      /\ ed.draft.row.jump # None => rows[ed.draft.row.jump] # None
      /\ rows' = [rows EXCEPT ![ed.server] = ed.draft.row]
      /\ Goto(e, "secrets")
      /\ UNCHANGED <<secrets, locked, session>>

\* update_server of the vault: unmentioned secrets are kept, those of a new
\* server cleared.
Stored(old, isNew, secret) ==
  IF secret # Keep THEN secret ELSE IF isNew THEN None ELSE old

\* The save touched the secret, or what profile_key holds.
Changed(ed, row) == ed.draft.secret # Keep \/ ed.before # row

\* The save is complete; lib.rs decides whether anything is to be closed.
WriteSecrets(e) ==
  LET ed == editor[e]
  IN  /\ ed.pc = "secrets"
      /\ ed.updates => ~locked
      /\ secrets' = IF ed.updates
           THEN [secrets EXCEPT ![ed.server] = Stored(@, ed.isNew, ed.draft.secret)] ELSE secrets
      /\ IF ed.kind = "save" /\ Changed(ed, rows[ed.server])
         THEN editor' = [editor EXCEPT ![e] = [Idle EXCEPT !.kind = "save", !.pc = "close",
                           !.server = ed.server, !.draft = ed.draft, !.todo = Affected(rows, ed.server)]]
         ELSE Finish(e)
      /\ UNCHANGED <<rows, locked, session>>

\* MUTANT of FirstRemoved: the row goes before the secrets.
FirstRemovedRow == "row gone"

\* delete_server of the store: the secrets go before the row.
FirstRemoved == "secrets gone"

\* close_server_activity, server by server; what is still connecting is not
\* found, and what connects meanwhile is excused, so that one step will do.
Close(e) ==
  LET ed == editor[e]
  IN  /\ ed.pc = "close"
      /\ session' = [x \in Sessions |->
           IF session[x].server \in ed.todo /\ session[x].state = "open" THEN NoSession ELSE session[x]]
      /\ CASE ed.kind = "save" -> Finish(e)
           [] ed.kind = "delete" -> Goto(e, FirstRemoved)
           [] ed.kind = "reset" -> Goto(e, "reset")
      /\ UNCHANGED <<rows, secrets, locked>>

After(e, pc, other) ==
  IF FirstRemoved = pc THEN Goto(e, other) ELSE Finish(e)

\* A locked vault refuses, unless there is none.
RemoveSecrets(e) ==
  /\ editor[e].pc = "secrets gone"
  /\ ~locked \/ NoVault
  /\ secrets' = [secrets EXCEPT ![editor[e].server] = None]
  /\ After(e, "secrets gone", "row gone")
  /\ UNCHANGED <<rows, locked, session>>

\* ON DELETE SET NULL clears the bastion of the profiles routed through it.
RemoveRow(e) ==
  LET s == editor[e].server
  IN  /\ editor[e].pc = "row gone"
      /\ rows' = [t \in Servers |->
           IF t = s THEN None
           ELSE IF Jump(rows, t) = s THEN [rows[t] EXCEPT !.jump = None] ELSE rows[t]]
      /\ After(e, "row gone", "secrets gone")
      /\ UNCHANGED <<secrets, locked, session>>

ResetVault(e) ==
  /\ editor[e].pc = "reset"
  /\ secrets' = [s \in Servers |-> None]
  /\ locked' = TRUE
  /\ Finish(e)
  /\ UNCHANGED <<rows, session>>

\* Any step fails and the command returns its error; what a save has written
\* by then stays, and nothing is closed for it.
Fails(e) ==
  /\ editor[e].pc # "idle"
  /\ Finish(e)
  /\ IF editor[e].kind = "save" /\ editor[e].pc # "row"
     THEN Excuse({"connecting", "open"}) ELSE UNCHANGED session
  /\ UNCHANGED <<rows, secrets, locked>>

Unlock ==
  /\ locked
  /\ locked' = FALSE
  /\ UNCHANGED <<rows, secrets, editor, session>>

\* The program is killed and started again.
Crash ==
  /\ locked' = TRUE
  /\ editor' = [e \in Editors |-> Idle]
  /\ session' = [x \in Sessions |-> NoSession]
  /\ UNCHANGED <<rows, secrets>>
-----------------------------------------------------------------------------
Next ==
  \/ \E e \in Editors, s \in Servers :
       \/ \E jump \in Servers \cup {None} : Save(e, s, jump)
       \/ \E t \in Servers : Duplicate(e, s, t)
       \/ Delete(e, s)
  \/ \E e \in Editors : \/ Reset(e) \/ WriteRow(e) \/ WriteSecrets(e) \/ Close(e)
                        \/ RemoveSecrets(e) \/ RemoveRow(e) \/ ResetVault(e) \/ Fails(e)
  \/ \E x \in Sessions : Opened(x) \/ End(x) \/ \E s \in Servers : Connect(x, s)
  \/ Unlock \/ Crash

Spec == Init /\ [][Next]_vars
-----------------------------------------------------------------------------
TypeOK ==
  /\ rows \in [Servers -> Rows \cup {None}]
  /\ secrets \in [Servers -> Secret]
  /\ locked \in BOOLEAN
  /\ editor \in [Editors ->
       [kind : {"none", "save", "duplicate", "delete", "reset"},
        pc : {"idle", "row", "secrets", "close", "secrets gone", "row gone", "reset"},
        server : Servers \cup {None}, draft : Drafts \cup {None},
        isNew : BOOLEAN, updates : BOOLEAN, before : Rows \cup {None}, todo : SUBSET Servers]]
  /\ session \in [Sessions ->
       [state : {"none", "connecting", "open"}, server : Servers \cup {None},
        made : Profiles \cup {None}, excused : BOOLEAN]]

(***************************************************************************)
(* Bastions exist, and following them from any server comes to an end,     *)
(* whatever is saved, duplicated and deleted.                              *)
(***************************************************************************)
BastionsAreSound ==
  /\ \A s \in Servers : Jump(rows, s) # None => rows[Jump(rows, s)] # None
  /\ Acyclic(rows)

(***************************************************************************)
(* The vault holds no secret of a server that does not exist, also when    *)
(* an edit fails or the program is killed between its steps.               *)
(***************************************************************************)
NoSecretWithoutServer == \A s \in Servers : secrets[s] # None => rows[s] # None

(***************************************************************************)
(* When no edit is under way, an open session was made with the profiles   *)
(* its server and bastions have now: edits close whatever they outdate.    *)
(* (Not claimed of a session that was connecting during an edit, nor after *)
(* a save that failed half done.)                                          *)
(***************************************************************************)
SessionsAreCurrent ==
  ~Editing =>
    \A x \in Sessions :
      session[x].state = "open" /\ ~session[x].excused =>
        session[x].made = Profile(rows, secrets, session[x].server)
=============================================================================
