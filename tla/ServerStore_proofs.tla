------------------------- MODULE ServerStore_proofs -------------------------
(***************************************************************************)
(* With edits one after the other, bastions stay sound, no secret outlives *)
(* its server and sessions are current after an edit, for any servers,     *)
(* secrets and sessions.                                                   *)
(***************************************************************************)
EXTENDS ServerStore, TLAPS

\* What an editor and a session hold.
Records ==
  [kind : {"none", "save", "duplicate", "delete", "reset"},
   pc : {"idle", "row", "secrets", "close", "secrets gone", "row gone", "reset"},
   server : Servers \cup {None}, draft : Drafts \cup {None},
   isNew : BOOLEAN, updates : BOOLEAN, before : Rows \cup {None}, todo : SUBSET Servers]

SessionRecords ==
  [state : {"none", "connecting", "open"}, server : Servers \cup {None},
   made : Profiles \cup {None}, excused : BOOLEAN]

\* TypeOK with its parts named.
Typed ==
  /\ rows \in [Servers -> Rows \cup {None}]
  /\ secrets \in [Servers -> Secret]
  /\ locked \in BOOLEAN
  /\ editor \in [Editors -> Records]
  /\ session \in [Sessions -> SessionRecords]

\* A session that has to be current when no edit is under way.
Bound(x) == session[x].state # "none" /\ ~session[x].excused

Current(x) == session[x].made = Profile(rows, secrets, session[x].server)

\* The session's server is not routed through s, nor is it s.
Apart(x, s) == s \notin Chain(rows, session[x].server)

\* What an edit knows at each of its steps.
EditIsSound(ed) ==
  /\ ed.pc \in {"row", "secrets"} =>
       /\ ed.kind \in {"save", "duplicate"}
       /\ ed.server \in Servers /\ ed.draft \in Drafts
       /\ ed.isNew <=> ed.before = None
       /\ ed.kind = "duplicate" => ed.before = None
  /\ ed.pc = "row" => rows[ed.server] = ed.before /\ ValidJump(rows, ed.server, ed.draft.row.jump)
  /\ ed.pc = "secrets" => rows[ed.server] = ed.draft.row
  /\ ed.pc = "close" =>
       /\ ed.kind \in {"save", "delete", "reset"}
       /\ ed.kind = "delete" => ed.server \in Servers /\ ed.todo = Affected(rows, ed.server)
       /\ ed.kind = "reset" => ed.todo = Servers
  /\ ed.pc \in {"secrets gone", "row gone"} => ed.kind = "delete" /\ ed.server \in Servers
  /\ ed.pc = "row gone" => secrets[ed.server] = None
  /\ ed.pc = "reset" => ed.kind = "reset"

\* What the edit has left to do about a session, at each of its steps.
SessionIsSound(ed, x) ==
  Bound(x) =>
    /\ session[x].server \in Servers
    /\ ed.pc # "idle" => session[x].state = "open"
    /\ ed.pc \in {"idle", "row"} => Current(x)
    /\ ed.pc = "row" /\ ed.kind = "duplicate" => session[x].server # ed.server
    /\ ed.pc = "secrets" =>
         /\ Apart(x, ed.server) \/ rows[ed.server] = ed.before => Current(x)
         /\ ed.kind = "duplicate" => Apart(x, ed.server)
    /\ ed.pc = "close" => Current(x) \/ (ed.kind = "save" /\ session[x].server \in ed.todo)
    /\ ed.pc \in {"secrets gone", "row gone"} => Current(x) /\ Apart(x, ed.server)
    /\ ed.pc # "reset"

\* e is the only editor.
IInv(e) ==
  /\ Typed
  /\ BastionsAreSound
  /\ NoSecretWithoutServer
  /\ EditIsSound(editor[e])
  /\ \A x \in Sessions : SessionIsSound(editor[e], x)
-----------------------------------------------------------------------------
(* Chains.                                                                 *)

\* Acyclic looks at who is routed through whom only.
LEMMA AcyclicByJump ==
  ASSUME NEW r, NEW q,
         Acyclic(r),
         \A t \in Servers : Jump(q, t) \in Servers => Jump(q, t) = Jump(r, t)
  PROVE  Acyclic(q)
BY DEF Acyclic

\* Every server is in its chain, and the chain is closed under bastions that
\* are servers.
LEMMA ChainIsClosed ==
  ASSUME NEW r, NEW s \in Servers
  PROVE  /\ s \in Chain(r, s)
         /\ \A u \in Chain(r, s) : Jump(r, u) \in Servers /\ Jump(r, u) # None => Jump(r, u) \in Chain(r, s)
<1>1. s \in Chain(r, s)
  BY DEF Chain
<1>2. ASSUME NEW u \in Chain(r, s), Jump(r, u) \in Servers, Jump(r, u) # None
      PROVE  Jump(r, u) \in Chain(r, s)
  <2>1. ASSUME NEW S \in SUBSET Servers, s \in S, \A v \in S : Jump(r, v) # None => Jump(r, v) \in S
        PROVE  Jump(r, u) \in S
    <3>1. u \in S
      BY <2>1 DEF Chain
    <3>2. QED BY <3>1, <2>1, <1>2
  <2>2. QED BY <2>1, <1>2 DEF Chain
<1>3. QED BY <1>1, <1>2

\* A bastion whose chain exists and misses s closes no cycle through s.
LEMMA ValidJumpKeepsAcyclic ==
  ASSUME NEW r \in [Servers -> Rows \cup {None}], NEW s \in Servers, NEW row \in Rows,
         Acyclic(r), ValidJump(r, s, row.jump)
  PROVE  Acyclic([r EXCEPT ![s] = row])
<1> DEFINE q == [r EXCEPT ![s] = row]
<1> USE StoreAssumption
<1>0. /\ Jump(q, s) = row.jump
      /\ \A t \in Servers : t # s => Jump(q, t) = Jump(r, t)
  BY DEF Jump, Rows
<1>1. SUFFICES ASSUME NEW S \in SUBSET Servers, S # {}, \A t \in S : Jump(q, t) \in S
               PROVE  FALSE
  BY DEF Acyclic
<1>2. CASE s \notin S
  <2>1. \A t \in S : Jump(r, t) \in S
    BY <1>0, <1>1, <1>2
  <2>2. QED BY <2>1, <1>1 DEF Acyclic
<1>3. CASE s \in S
  <2> DEFINE C == Chain(r, row.jump)
  <2>1. row.jump \in S /\ row.jump \in Servers /\ row.jump # None
    BY <1>0, <1>1, <1>3
  <2>2. s \notin C
    BY <2>1 DEF ValidJump
  <2>3. row.jump \in S \cap C
    BY <2>1, ChainIsClosed
  <2>4. ASSUME NEW t \in S \cap C PROVE Jump(r, t) \in S \cap C
    <3>1. Jump(r, t) \in S
      BY <2>2, <1>0, <1>1
    <3>2. Jump(r, t) \in Servers /\ Jump(r, t) # None
      BY <3>1
    <3>3. QED BY <3>1, <3>2, <2>1, ChainIsClosed
  <2>5. S \cap C \in SUBSET Servers /\ S \cap C # {}
    BY <2>3
  <2>6. QED BY <2>4, <2>5 DEF Acyclic
<1>4. QED BY <1>2, <1>3

\* A chain looks at its own members only.
LEMMA ChainIsLocal ==
  ASSUME NEW r \in [Servers -> Rows \cup {None}], NEW q, NEW s \in Servers,
         \A t \in Chain(r, s) : q[t] = r[t]
  PROVE  Chain(q, s) = Chain(r, s)
<1> DEFINE C == Chain(r, s)
           D == Chain(q, s)
<1>0. C \subseteq Servers /\ D \subseteq Servers
  BY DEF Chain
<1>1. \A t \in C : Jump(q, t) = Jump(r, t)
  BY DEF Jump
<1>2. \A t \in C : Jump(r, t) \in Servers \cup {None}
  BY <1>0 DEF Jump, Rows
<1>3. D \subseteq C
  <2>1. s \in C /\ \A u \in C : Jump(q, u) # None => Jump(q, u) \in C
    BY <1>1, <1>2, ChainIsClosed
  <2>2. QED BY <2>1, <1>0 DEF Chain
<1>4. C \subseteq D
  <2>1. s \in D /\ \A u \in D : Jump(r, u) # None => Jump(r, u) \in D
    <3>1. \A u \in D : Jump(r, u) = Jump(q, u) /\ Jump(r, u) \in Servers \cup {None}
      BY <1>1, <1>2, <1>3
    <3>2. QED BY <3>1, ChainIsClosed
  <2>2. QED BY <2>1, <1>0 DEF Chain
<1>5. QED BY <1>3, <1>4

\* Who is routed through s, however far, is affected by it.
LEMMA AffectedCoversChains ==
  ASSUME NEW r \in [Servers -> Rows \cup {None}], NEW s \in Servers, NEW t \in Servers,
         t \notin Affected(r, s)
  PROVE  s \notin Chain(r, t)
<1>1. PICK S \in SUBSET Servers :
        s \in S /\ t \notin S /\ \A u \in Servers : Jump(r, u) \in S => u \in S
  BY DEF Affected
<1>2. \A u \in Servers \ S : Jump(r, u) # None => Jump(r, u) \in Servers \ S
  BY <1>1 DEF Jump, Rows
<1>3. t \in Servers \ S
  BY <1>1
<1>4. QED BY <1>1, <1>2, <1>3 DEF Chain
-----------------------------------------------------------------------------
(* What is typed.                                                          *)

LEMMA ProfileType ==
  ASSUME TypeOK, NEW s \in Servers PROVE Profile(rows, secrets, s) \in Profiles
BY DEF Profile, Profiles, TypeOK

LEMMA TypedIsTypeOK == Typed <=> TypeOK
BY DEF Typed, TypeOK, Records, SessionRecords

LEMMA IdleType == Idle \in Records
BY DEF Idle, Records

LEMMA NoSessionType == NoSession \in SessionRecords
BY DEF NoSession, SessionRecords

LEMMA ExcuseType ==
  ASSUME session \in [Sessions -> SessionRecords], NEW states, Excuse(states)
  PROVE  session' \in [Sessions -> SessionRecords]
BY DEF Excuse, SessionRecords

\* An edit is under way in editor e, one step further.
LEMMA GotoType ==
  ASSUME editor \in [Editors -> Records], NEW e \in Editors,
         NEW pc \in {"idle", "row", "secrets", "close", "secrets gone", "row gone", "reset"},
         Goto(e, pc) \/ Finish(e)
  PROVE  editor' \in [Editors -> Records]
<1>1. [editor[e] EXCEPT !.pc = pc] \in Records
  BY DEF Records
<1>2. CASE Finish(e)
  BY <1>2, IdleType DEF Finish
<1>3. CASE Goto(e, pc)
  <2> DEFINE ed == [editor[e] EXCEPT !.pc = pc]
  <2>1. editor' = [editor EXCEPT ![e] = ed]
    BY <1>3 DEF Goto
  <2> HIDE DEF ed
  <2>2. QED BY <1>1, <2>1 DEF ed
<1>4. QED BY <1>2, <1>3

LEMMA TypeIsInvariant ==
  ASSUME Typed, \A e \in Editors : EditIsSound(editor[e]), [Next]_vars
  PROVE  Typed'
<1> USE StoreAssumption DEF Typed
<1>2. ASSUME NEW e \in Editors, NEW s \in Servers, NEW jump \in Servers \cup {None}, Save(e, s, jump)
      PROVE  Typed'
  <2>1. PICK named \in BOOLEAN, host \in Hosts, secret \in Secret \cup {Keep} :
          Begin(e, [kind |-> "save", pc |-> "row", server |-> s,
                    draft |-> [row |-> [host |-> host, jump |-> jump], secret |-> secret],
                    isNew |-> rows[s] = None, updates |-> Updates(rows[s] = None, secret, named),
                    before |-> rows[s], todo |-> {}])
    BY <1>2 DEF Save
  <2> DEFINE draft == [row |-> [host |-> host, jump |-> jump], secret |-> secret]
             isNew == rows[s] = None
             updates == Updates(rows[s] = None, secret, named)
  <2>2. draft \in Drafts
    BY DEF Drafts, Rows
  <2>3. isNew \in BOOLEAN /\ updates \in BOOLEAN
    BY DEF Updates
  <2>4. rows[s] \in Rows \cup {None}
    OBVIOUS
  <2> HIDE DEF draft, isNew, updates
  <2>5. [kind |-> "save", pc |-> "row", server |-> s, draft |-> draft, isNew |-> isNew,
         updates |-> updates, before |-> rows[s], todo |-> {}] \in Records
    BY <2>2, <2>3, <2>4 DEF Records
  <2>6. QED BY <2>1, <2>5, ExcuseType DEF Begin, draft, isNew, updates
<1>3. ASSUME NEW e \in Editors, NEW s \in Servers, NEW t \in Servers, Duplicate(e, s, t)
      PROVE  Typed'
  BY <1>3, ExcuseType DEF Duplicate, Begin, Records, Drafts, Secret
<1>4. ASSUME NEW e \in Editors, NEW s \in Servers, Delete(e, s)
      PROVE  Typed'
  BY <1>4, ExcuseType, IdleType DEF Delete, Begin, Records, Affected
<1>5. ASSUME NEW e \in Editors, Reset(e) PROVE Typed'
  BY <1>5, ExcuseType, IdleType DEF Reset, Begin, Records
<1>6. ASSUME NEW e \in Editors, WriteRow(e) PROVE Typed'
  BY <1>6, GotoType DEF WriteRow, EditIsSound, Drafts
<1>7. ASSUME NEW e \in Editors, WriteSecrets(e) PROVE Typed'
  <2> DEFINE ed == editor[e]
             closing == [Idle EXCEPT !.kind = "save", !.pc = "close", !.server = ed.server,
                                     !.draft = ed.draft, !.todo = Affected(rows, ed.server)]
  <2>1. ed.server \in Servers /\ ed.draft \in Drafts
    BY <1>7 DEF WriteSecrets, EditIsSound
  <2>2. closing \in Records
    BY <2>1 DEF Idle, Records, Affected
  <2>3. editor' \in [Editors -> Records]
    <3> HIDE DEF closing
    <3>1. editor' = [editor EXCEPT ![e] = closing] \/ Finish(e)
      BY <1>7 DEF WriteSecrets, closing
    <3>2. QED BY <2>2, <3>1, IdleType DEF Finish
  <2>4. Stored(secrets[ed.server], ed.isNew, ed.draft.secret) \in Secret
    BY <2>1 DEF Stored, Drafts, Secret
  <2>5. QED BY <1>7, <2>1, <2>3, <2>4 DEF WriteSecrets
<1>8. ASSUME NEW e \in Editors, Close(e) PROVE Typed'
  <2>1. editor' \in [Editors -> Records]
    <3>1. Finish(e) \/ Goto(e, "secrets gone") \/ Goto(e, "reset")
      BY <1>8 DEF Close, FirstRemoved, EditIsSound
    <3>2. QED BY <3>1, GotoType
  <2>2. QED BY <1>8, <2>1, NoSessionType DEF Close
<1>9. ASSUME NEW e \in Editors, RemoveSecrets(e) PROVE Typed'
  BY <1>9, GotoType DEF RemoveSecrets, After, FirstRemoved, Secret
<1>10. ASSUME NEW e \in Editors, RemoveRow(e) PROVE Typed'
  <2> DEFINE s == editor[e].server
             row(t) == IF t = s THEN None
                       ELSE IF Jump(rows, t) = s THEN [rows[t] EXCEPT !.jump = None] ELSE rows[t]
  <2>1. ASSUME NEW t \in Servers PROVE row(t) \in Rows \cup {None}
    BY <1>10 DEF RemoveRow, EditIsSound, Jump, Rows
  <2>2. editor' \in [Editors -> Records]
    BY <1>10, GotoType DEF RemoveRow, After, FirstRemoved
  <2>3. rows' = [t \in Servers |-> row(t)]
    BY <1>10 DEF RemoveRow
  <2> HIDE DEF row
  <2>4. rows' \in [Servers -> Rows \cup {None}]
    BY <2>1, <2>3
  <2>5. QED BY <1>10, <2>2, <2>4 DEF RemoveRow
<1>11. ASSUME NEW e \in Editors, ResetVault(e) PROVE Typed'
  BY <1>11, GotoType DEF ResetVault, Secret
<1>12. ASSUME NEW e \in Editors, Fails(e) PROVE Typed'
  BY <1>12, GotoType, ExcuseType DEF Fails
<1>13. ASSUME NEW x \in Sessions, Opened(x) \/ End(x) PROVE Typed'
  BY <1>13, NoSessionType DEF Opened, End, SessionRecords
<1>14. ASSUME NEW x \in Sessions, NEW s \in Servers, Connect(x, s) PROVE Typed'
  BY <1>14, ProfileType, TypedIsTypeOK DEF Connect, SessionRecords, Editing
<1>15. CASE Unlock \/ Crash
  BY <1>15, NoSessionType, IdleType DEF Unlock, Crash
<1>16. CASE UNCHANGED vars
  BY <1>16 DEF vars
<1>17. QED
  BY <1>2, <1>3, <1>4, <1>5, <1>6, <1>7, <1>8, <1>9, <1>10, <1>11, <1>12, <1>13, <1>14, <1>15, <1>16 DEF Next
-----------------------------------------------------------------------------
(* The invariant, action by action; d is the only editor.                  *)

LEMMA InitEstablishes == ASSUME NEW d \in Editors, Init PROVE IInv(d)
<1> USE StoreAssumption DEF Init
<1>1. Typed
  BY IdleType, NoSessionType DEF Typed, Secret
<1>2. BastionsAreSound
  BY DEF BastionsAreSound, Acyclic, Jump
<1>3. NoSecretWithoutServer
  BY DEF NoSecretWithoutServer
<1>4. EditIsSound(editor[d])
  BY DEF EditIsSound, Idle
<1>5. \A x \in Sessions : SessionIsSound(editor[d], x)
  BY DEF SessionIsSound, Bound, NoSession
<1>6. QED BY <1>1, <1>2, <1>3, <1>4, <1>5 DEF IInv

\* A session that goes on, under rows and secrets that stay.
LEMMA SessionStays ==
  ASSUME UNCHANGED <<rows, secrets>>, NEW x, session'[x] = session[x]
  PROVE  /\ Bound(x)' <=> Bound(x)
         /\ Current(x)' <=> Current(x)
         /\ \A s : Apart(x, s)' <=> Apart(x, s)
BY DEF Bound, Current, Apart

\* A change outside of a session's chain leaves it current.
LEMMA StaysCurrent ==
  ASSUME rows \in [Servers -> Rows \cup {None}], NEW x, session'[x] = session[x],
         session[x].server \in Servers, Current(x),
         \A u \in Chain(rows, session[x].server) : rows'[u] = rows[u] /\ secrets'[u] = secrets[u]
  PROVE  Current(x)' /\ Chain(rows', session[x].server) = Chain(rows, session[x].server)
<1> PICK t, q, p : t = session[x].server /\ q = rows' /\ p = secrets'
  OBVIOUS
<1>1. Chain(q, t) = Chain(rows, t)
  BY ChainIsLocal
<1>2. Profile(q, p, t) = Profile(rows, secrets, t)
  BY <1>1 DEF Profile
<1>3. QED BY <1>1, <1>2 DEF Current

\* An excused session owes nothing, another one stays.
LEMMA ExcusedOrStays ==
  ASSUME Typed, NEW states, Excuse(states), NEW x \in Sessions, Bound(x)'
  PROVE  session'[x] = session[x] /\ session[x].state \notin states
<1>1. CASE session[x].state \in states
  BY <1>1 DEF Excuse, Bound, Typed, SessionRecords
<1>2. CASE session[x].state \notin states
  BY <1>2 DEF Excuse
<1>3. QED BY <1>1, <1>2

\* An edit begins: it sees current sessions, and those connecting are excused.
LEMMA BeginPreserves ==
  ASSUME NEW d \in Editors, IInv(d), Typed', editor[d].pc = "idle",
         NEW record, Begin(d, record), EditIsSound(record), record.pc \in {"row", "close"},
         record.pc = "row" /\ record.kind = "duplicate" =>
           \A x \in Sessions : session[x].server # record.server
  PROVE  IInv(d)'
<1>0. UNCHANGED <<rows, secrets, locked>> /\ editor'[d] = record /\ Excuse({"connecting"})
  BY DEF Begin, IInv, Typed
<1>1. BastionsAreSound' /\ NoSecretWithoutServer'
  BY <1>0 DEF IInv, BastionsAreSound, NoSecretWithoutServer, Acyclic, Jump
<1>2. EditIsSound(editor[d])'
  BY <1>0 DEF EditIsSound, ValidJump, Chain, Affected, Jump
<1>3. ASSUME NEW x \in Sessions, Bound(x)' PROVE SessionIsSound(editor[d], x)'
  <2>1. session'[x] = session[x] /\ session[x].state # "connecting"
    BY <1>0, <1>3, ExcusedOrStays DEF IInv
  <2>2. Bound(x) /\ (Current(x)' <=> Current(x))
    BY <1>0, <1>3, <2>1, SessionStays
  <2>3. session[x].state = "open"
    BY <2>1, <2>2 DEF Bound, IInv, Typed, SessionRecords
  <2>4. session[x].server \in Servers /\ Current(x)
    BY <2>2 DEF IInv, SessionIsSound
  <2>5. QED BY <1>0, <2>1, <2>2, <2>3, <2>4 DEF SessionIsSound
<1>4. \A x \in Sessions : SessionIsSound(editor[d], x)'
  BY <1>3 DEF SessionIsSound
<1>5. QED BY <1>1, <1>2, <1>4 DEF IInv

LEMMA SavePreserves ==
  ASSUME NEW d \in Editors, IInv(d), Typed', NEW s \in Servers,
         NEW jump \in Servers \cup {None}, Save(d, s, jump)
  PROVE  IInv(d)'
<1>1. PICK named \in BOOLEAN, host \in Hosts, secret \in Secret \cup {Keep} :
        Begin(d, [kind |-> "save", pc |-> "row", server |-> s,
                  draft |-> [row |-> [host |-> host, jump |-> jump], secret |-> secret],
                  isNew |-> rows[s] = None, updates |-> Updates(rows[s] = None, secret, named),
                  before |-> rows[s], todo |-> {}])
  BY DEF Save
<1> DEFINE draft == [row |-> [host |-> host, jump |-> jump], secret |-> secret]
           updates == Updates(rows[s] = None, secret, named)
           record == [kind |-> "save", pc |-> "row", server |-> s, draft |-> draft,
                      isNew |-> rows[s] = None, updates |-> updates, before |-> rows[s], todo |-> {}]
<1>2. draft \in Drafts /\ draft.row.jump = jump /\ ValidJump(rows, s, jump)
  BY DEF Drafts, Rows, Save
<1> HIDE DEF draft, updates
<1>3. EditIsSound(record)
  BY <1>2 DEF EditIsSound
<1>4. record.pc = "row" /\ record.kind = "save"
  OBVIOUS
<1>5. Begin(d, record)
  BY <1>1 DEF draft, updates
<1> HIDE DEF record
<1>6. editor[d].pc = "idle"
  BY DEF Save, Idle
<1>7. QED BY <1>3, <1>4, <1>5, <1>6, BeginPreserves

LEMMA DuplicatePreserves ==
  ASSUME NEW d \in Editors, IInv(d), Typed', NEW s \in Servers, NEW t \in Servers, Duplicate(d, s, t)
  PROVE  IInv(d)'
<1> DEFINE draft == [row |-> rows[s], secret |-> IF secrets[s] = None THEN Keep ELSE secrets[s]]
           record == [kind |-> "duplicate", pc |-> "row", server |-> t, draft |-> draft,
                      isNew |-> TRUE, updates |-> secrets[s] # None, before |-> None, todo |-> {}]
<1>1. draft \in Drafts /\ draft.row = rows[s]
  BY DEF Duplicate, Drafts, Secret, IInv, Typed
<1>2. /\ ValidJump(rows, t, rows[s].jump)
      /\ rows[t] = None
      /\ \A x \in Sessions : session[x].server # t
      /\ editor[d].pc = "idle"
  BY DEF Duplicate, Fresh, Idle
<1>3. Begin(d, record)
  BY DEF Duplicate
<1> HIDE DEF draft
<1>4. EditIsSound(record) /\ record.pc = "row" /\ record.server = t
  BY <1>1, <1>2 DEF EditIsSound
<1> HIDE DEF record
<1>5. QED BY <1>2, <1>3, <1>4, BeginPreserves

LEMMA DeleteOrResetPreserves ==
  ASSUME NEW d \in Editors, IInv(d), Typed',
         (\E s \in Servers : Delete(d, s)) \/ Reset(d)
  PROVE  IInv(d)'
<1>1. CASE \E s \in Servers : Delete(d, s)
  <2>1. PICK s \in Servers : Delete(d, s)
    BY <1>1
  <2> DEFINE record == [Idle EXCEPT !.kind = "delete", !.pc = "close", !.server = s, !.todo = Affected(rows, s)]
  <2>2. EditIsSound(record) /\ record.pc = "close"
    BY DEF EditIsSound, Idle
  <2>3. Begin(d, record)
    BY <2>1 DEF Delete
  <2>4. editor[d] = Idle
    BY <2>1 DEF Delete
  <2>5. editor[d].pc = "idle"
    BY <2>4 DEF Idle
  <2> HIDE DEF record
  <2>6. QED BY <2>2, <2>3, <2>5, BeginPreserves
<1>2. CASE Reset(d)
  <2> DEFINE record == [Idle EXCEPT !.kind = "reset", !.pc = "close", !.todo = Servers]
  <2>1. EditIsSound(record) /\ record.pc = "close"
    BY DEF EditIsSound, Idle
  <2>2. Begin(d, record) /\ editor[d].pc = "idle"
    BY <1>2 DEF Reset, Idle
  <2> HIDE DEF record
  <2>3. QED BY <2>1, <2>2, BeginPreserves
<1>3. QED BY <1>1, <1>2

\* The row is written: sessions whose chain it is not in stay current.
LEMMA WriteRowPreserves ==
  ASSUME NEW d \in Editors, IInv(d), Typed', WriteRow(d)
  PROVE  IInv(d)'
<1> PICK ed : ed = editor[d]
  OBVIOUS
<1> PICK s : s = ed.server
  OBVIOUS
<1> PICK row : row = ed.draft.row
  OBVIOUS
<1>0. /\ ed.pc = "row" /\ s \in Servers /\ row \in Rows /\ row # None
      /\ rows[s] = ed.before /\ ValidJump(rows, s, row.jump)
      /\ ed.kind \in {"save", "duplicate"} /\ (ed.kind = "duplicate" => rows[s] = None)
  BY StoreAssumption DEF WriteRow, IInv, EditIsSound, Drafts
<1>1. /\ rows' = [rows EXCEPT ![s] = row] /\ UNCHANGED <<secrets, session>>
      /\ row.jump # None => rows[row.jump] # None
      /\ rows \in [Servers -> Rows \cup {None}] /\ rows' \in [Servers -> Rows \cup {None}]
  BY DEF WriteRow, IInv, Typed
<1>2. editor'[d] = [ed EXCEPT !.pc = "secrets"] /\ ed \in Records
  BY DEF WriteRow, Goto, IInv, Typed
<1>3. BastionsAreSound'
  <2>1. Acyclic(rows')
    BY <1>0, <1>1, ValidJumpKeepsAcyclic DEF IInv, BastionsAreSound
  <2>2. ASSUME NEW t \in Servers, Jump(rows', t) # None PROVE rows'[Jump(rows', t)] # None
    <3>1. CASE t = s
      BY <1>0, <1>1, <2>2, <3>1 DEF Jump, Rows
    <3>2. CASE t # s
      BY <1>0, <1>1, <2>2, <3>2 DEF Jump, Rows, IInv, BastionsAreSound
    <3>3. QED BY <3>1, <3>2
  <2>3. QED BY <2>1, <2>2 DEF BastionsAreSound
<1>4. NoSecretWithoutServer'
  BY <1>0, <1>1 DEF IInv, NoSecretWithoutServer
<1>5. EditIsSound(editor[d])'
  BY <1>0, <1>1, <1>2 DEF EditIsSound, IInv, Records
<1>6. ASSUME NEW x \in Sessions, Bound(x)' PROVE SessionIsSound(editor[d], x)'
  <2> PICK t : t = session[x].server
    OBVIOUS
  <2>1. t \in Servers /\ session[x].state = "open" /\ Current(x) /\ (ed.kind = "duplicate" => t # s)
    BY <1>0, <1>1, <1>6 DEF IInv, SessionIsSound, Bound
  <2>2. ASSUME Apart(x, s)' PROVE Current(x)'
    <3> PICK q : q = rows'
      OBVIOUS
    <3>1. s \notin Chain(q, t) /\ Chain(q, t) \subseteq Servers
      BY <1>1, <2>2 DEF Apart, Chain
    <3>2. \A u \in Chain(q, t) : rows[u] = q[u]
      BY <1>1, <3>1
    <3>3. q \in [Servers -> Rows \cup {None}]
      BY <1>1
    <3>4. Chain(rows, t) = Chain(q, t)
      BY <2>1, <3>2, <3>3, ChainIsLocal
    <3>5. QED BY <1>1, <2>1, <3>2, <3>4, StaysCurrent
  <2>3. ASSUME rows'[s] = ed.before PROVE Current(x)'
    <3>1. rows' = rows
      BY <1>0, <1>1, <2>3
    <3>2. QED BY <1>1, <2>1, <3>1 DEF Current
  <2>4. ASSUME ed.kind = "duplicate" PROVE Apart(x, s)'
    <3>1. \A u \in Servers \ {s} : Jump(rows', u) # None => Jump(rows', u) \in Servers \ {s}
      BY <1>0, <1>1, <2>4 DEF IInv, BastionsAreSound, Jump, Rows
    <3>2. t \in Servers \ {s}
      BY <2>1, <2>4
    <3>3. QED BY <1>1, <3>1, <3>2 DEF Apart, Chain
  <2>5. /\ editor'[d].pc = "secrets" /\ editor'[d].server = s
        /\ editor'[d].kind = ed.kind /\ editor'[d].before = ed.before
    BY <1>2 DEF IInv, Typed, Records
  <2>6. QED BY <1>1, <2>1, <2>2, <2>3, <2>4, <2>5 DEF SessionIsSound
<1>7. \A x \in Sessions : SessionIsSound(editor[d], x)'
  BY <1>6 DEF SessionIsSound
<1>8. QED BY <1>3, <1>4, <1>5, <1>7 DEF IInv

\* The vault is updated: what was not outdated by the save is current, and
\* what is not to be closed was not outdated.
LEMMA WriteSecretsPreserves ==
  ASSUME NEW d \in Editors, IInv(d), Typed', WriteSecrets(d)
  PROVE  IInv(d)'
<1> PICK ed : ed = editor[d]
  OBVIOUS
<1> PICK s : s = ed.server
  OBVIOUS
<1>0. /\ ed.pc = "secrets" /\ s \in Servers /\ ed.draft \in Drafts /\ rows[s] = ed.draft.row
      /\ ed.kind \in {"save", "duplicate"} /\ (ed.kind = "duplicate" => ed.before = None)
      /\ ed.isNew <=> ed.before = None
  BY DEF WriteSecrets, IInv, EditIsSound
<1>1. /\ UNCHANGED <<rows, session>> /\ rows \in [Servers -> Rows \cup {None}]
      /\ rows[s] # None
      /\ secrets \in [Servers -> Secret]
      /\ secrets' \in {secrets, [secrets EXCEPT ![s] = Stored(@, ed.isNew, ed.draft.secret)]}
  BY <1>0, StoreAssumption DEF WriteSecrets, IInv, Typed, Drafts
<1>2. BastionsAreSound' /\ NoSecretWithoutServer'
  BY <1>0, <1>1 DEF IInv, BastionsAreSound, NoSecretWithoutServer, Acyclic, Jump
<1>3. ASSUME NEW x \in Sessions, Bound(x), Apart(x, s) PROVE Current(x)'
  <2>1. Current(x) /\ session[x].server \in Servers
    BY <1>0, <1>3 DEF IInv, SessionIsSound
  <2>2. \A u \in Chain(rows, session[x].server) : rows'[u] = rows[u] /\ secrets'[u] = secrets[u]
    BY <1>1, <1>3 DEF Apart, Chain
  <2>3. QED BY <1>1, <2>1, <2>2, StaysCurrent
<1>4. CASE ed.kind = "save" /\ Changed(ed, rows[s])
  <2> DEFINE next == [Idle EXCEPT !.kind = "save", !.pc = "close", !.server = s,
                                  !.draft = ed.draft, !.todo = Affected(rows, s)]
  <2>1. editor'[d] = next
    BY <1>4 DEF WriteSecrets, IInv, Typed
  <2>2. next.pc = "close" /\ next.kind = "save" /\ next.todo = Affected(rows, s)
    BY DEF Idle
  <2> HIDE DEF next
  <2>3. EditIsSound(editor[d])'
    BY <2>1, <2>2 DEF EditIsSound
  <2>4. ASSUME NEW x \in Sessions, Bound(x)' PROVE SessionIsSound(editor[d], x)'
    <3>1. Bound(x) /\ session[x].server \in Servers /\ session[x].state = "open"
      BY <1>0, <1>1, <2>4 DEF Bound, IInv, SessionIsSound
    <3>2. session[x].server \notin Affected(rows, s) => Apart(x, s)
      BY <1>0, <1>1, <3>1, AffectedCoversChains DEF Apart
    <3>3. QED BY <1>1, <1>3, <2>1, <2>2, <3>1, <3>2 DEF SessionIsSound
  <2>5. QED BY <1>2, <2>3, <2>4 DEF IInv, SessionIsSound
<1>5. CASE ~(ed.kind = "save" /\ Changed(ed, rows[s]))
  <2>1. editor'[d] = Idle
    BY <1>5 DEF WriteSecrets, Finish, IInv, Typed
  <2>2. EditIsSound(editor[d])'
    BY <2>1 DEF EditIsSound, Idle
  <2>3. ASSUME NEW x \in Sessions, Bound(x)' PROVE SessionIsSound(editor[d], x)'
    <3>1. Bound(x) /\ session[x].server \in Servers
      BY <1>0, <1>1, <2>3 DEF Bound, IInv, SessionIsSound
    <3>2. CASE ed.kind = "duplicate"
      <4>1. Apart(x, s)
        BY <1>0, <3>1, <3>2 DEF IInv, SessionIsSound
      <4>2. QED BY <1>1, <1>3, <2>1, <3>1, <4>1 DEF SessionIsSound, Idle
    <3>3. CASE ed.kind = "save"
      <4>1. ed.draft.secret = Keep /\ ed.before = rows[s] /\ ~ed.isNew
        BY <1>0, <1>1, <1>5, <3>3 DEF Changed
      <4>2. secrets' = secrets
        BY <1>0, <1>1, <4>1 DEF Stored
      <4>3. Current(x)
        BY <1>0, <3>1, <4>1 DEF IInv, SessionIsSound
      <4>4. Current(x)'
        BY <1>1, <4>2, <4>3, SessionStays
      <4>5. QED BY <1>1, <2>1, <3>1, <4>4 DEF SessionIsSound, Idle
    <3>4. QED BY <1>0, <3>2, <3>3
  <2>4. QED BY <1>2, <2>2, <2>3 DEF IInv, SessionIsSound
<1>6. QED BY <1>4, <1>5

\* What the edit outdated is closed, and what it did not is left alone.
LEMMA ClosePreserves ==
  ASSUME NEW d \in Editors, IInv(d), Typed', Close(d)
  PROVE  IInv(d)'
<1> PICK ed : ed = editor[d]
  OBVIOUS
<1>0. /\ ed.pc = "close" /\ ed.kind \in {"save", "delete", "reset"} /\ ed \in Records
      /\ ed.kind = "delete" => ed.server \in Servers /\ ed.todo = Affected(rows, ed.server)
      /\ ed.kind = "reset" => ed.todo = Servers
  BY DEF Close, IInv, EditIsSound, Typed
<1>1. UNCHANGED <<rows, secrets>> /\ rows \in [Servers -> Rows \cup {None}]
  BY DEF Close, IInv, Typed
<1>2. BastionsAreSound' /\ NoSecretWithoutServer'
  BY <1>1 DEF IInv, BastionsAreSound, NoSecretWithoutServer, Acyclic, Jump
<1>3. /\ ed.kind = "save" => editor'[d] = Idle
      /\ ed.kind = "delete" => editor'[d] = [ed EXCEPT !.pc = "secrets gone"]
      /\ ed.kind = "reset" => editor'[d] = [ed EXCEPT !.pc = "reset"]
  BY DEF Close, Finish, Goto, FirstRemoved, IInv, Typed
<1>4. /\ ed.kind = "save" => editor'[d].pc = "idle"
      /\ ed.kind = "delete" => editor'[d].pc = "secrets gone"
      /\ ed.kind = "reset" => editor'[d].pc = "reset"
  <2>1. Idle.pc = "idle"
    BY DEF Idle
  <2>2. QED BY <1>0, <1>3, <2>1 DEF Records
<1>5. ed.kind # "save" => editor'[d].kind = ed.kind /\ editor'[d].server = ed.server
  BY <1>0, <1>3 DEF Records
<1>6. EditIsSound(editor[d])'
  BY <1>0, <1>1, <1>4, <1>5 DEF EditIsSound
<1>7. ASSUME NEW x \in Sessions, Bound(x)' PROVE SessionIsSound(editor[d], x)'
  <2>1. session'[x] = session[x] /\ ~(session[x].server \in ed.todo /\ session[x].state = "open")
    BY <1>7 DEF Close, Bound, NoSession
  <2>2. Bound(x) /\ (Current(x)' <=> Current(x)) /\ \A s : Apart(x, s)' <=> Apart(x, s)
    BY <1>1, <1>7, <2>1, SessionStays
  <2>3. session[x].server \in Servers \ ed.todo /\ session[x].state = "open" /\ Current(x)
    BY <1>0, <2>1, <2>2 DEF IInv, SessionIsSound
  <2>4. CASE ed.kind = "save"
    BY <1>4, <2>1, <2>2, <2>3, <2>4 DEF SessionIsSound
  <2>5. CASE ed.kind = "delete"
    <3>1. Apart(x, ed.server)
      BY <1>0, <1>1, <2>3, <2>5, AffectedCoversChains DEF Apart
    <3>2. QED BY <1>4, <1>5, <2>1, <2>2, <2>3, <2>5, <3>1 DEF SessionIsSound
  <2>6. CASE ed.kind = "reset"
    BY <1>0, <2>3, <2>6
  <2>7. QED BY <1>0, <2>4, <2>5, <2>6
<1>8. QED BY <1>2, <1>6, <1>7 DEF IInv, SessionIsSound

\* The steps of a deletion: every session that is left is apart from the
\* server.
LEMMA RemoveSecretsPreserves ==
  ASSUME NEW d \in Editors, IInv(d), Typed', RemoveSecrets(d)
  PROVE  IInv(d)'
<1> PICK ed, s : ed = editor[d] /\ s = ed.server
  OBVIOUS
<1>0. ed.pc = "secrets gone" /\ ed.kind = "delete" /\ s \in Servers /\ ed \in Records
  BY DEF RemoveSecrets, IInv, EditIsSound, Typed
<1>1. /\ UNCHANGED <<rows, session>> /\ rows \in [Servers -> Rows \cup {None}]
      /\ secrets \in [Servers -> Secret] /\ secrets' = [secrets EXCEPT ![s] = None]
  BY DEF RemoveSecrets, IInv, Typed
<1>2. editor'[d] = [ed EXCEPT !.pc = "row gone"]
  BY DEF RemoveSecrets, After, FirstRemoved, Goto, IInv, Typed
<1>3. editor'[d].pc = "row gone" /\ editor'[d].kind = "delete" /\ editor'[d].server = s
  BY <1>0, <1>2 DEF Records
<1>4. BastionsAreSound' /\ NoSecretWithoutServer'
  BY <1>1 DEF IInv, BastionsAreSound, NoSecretWithoutServer, Acyclic, Jump
<1>5. EditIsSound(editor[d])'
  BY <1>0, <1>1, <1>3 DEF EditIsSound
<1>6. ASSUME NEW x \in Sessions, Bound(x)' PROVE SessionIsSound(editor[d], x)'
  <2>1. /\ session[x].server \in Servers /\ session[x].state = "open"
        /\ Current(x) /\ Apart(x, s)
    BY <1>0, <1>1, <1>6 DEF Bound, IInv, SessionIsSound
  <2>2. \A u \in Chain(rows, session[x].server) : rows'[u] = rows[u] /\ secrets'[u] = secrets[u]
    BY <1>1, <2>1 DEF Apart, Chain
  <2>3. Current(x)' /\ Apart(x, s)'
    BY <1>1, <2>1, <2>2, StaysCurrent DEF Apart
  <2>4. QED BY <1>1, <1>3, <2>1, <2>3 DEF SessionIsSound
<1>7. QED BY <1>4, <1>5, <1>6 DEF IInv, SessionIsSound

LEMMA RemoveRowPreserves ==
  ASSUME NEW d \in Editors, IInv(d), Typed', RemoveRow(d)
  PROVE  IInv(d)'
<1> USE StoreAssumption
<1> PICK ed, s : ed = editor[d] /\ s = ed.server
  OBVIOUS
<1>0. ed.pc = "row gone" /\ ed.kind = "delete" /\ s \in Servers /\ secrets[s] = None
  BY DEF RemoveRow, IInv, EditIsSound
<1>1. /\ UNCHANGED <<secrets, session>> /\ rows \in [Servers -> Rows \cup {None}]
      /\ rows' = [t \in Servers |->
           IF t = s THEN None
           ELSE IF Jump(rows, t) = s THEN [rows[t] EXCEPT !.jump = None] ELSE rows[t]]
  BY DEF RemoveRow, IInv, Typed
<1>2. editor'[d] = Idle
  BY DEF RemoveRow, After, FirstRemoved, Finish, IInv, Typed
<1>3. \A t \in Servers :
        /\ t = s \/ Jump(rows, t) = s => Jump(rows', t) = None
        /\ t # s /\ Jump(rows, t) # s => Jump(rows', t) = Jump(rows, t)
        /\ rows'[t] = None => t = s \/ rows[t] = None
  BY <1>1 DEF Jump, Rows
<1>4. BastionsAreSound'
  <2>1. Acyclic(rows')
    BY <1>3, AcyclicByJump DEF IInv, BastionsAreSound
  <2>2. ASSUME NEW t \in Servers, Jump(rows', t) # None PROVE rows'[Jump(rows', t)] # None
    <3>1. Jump(rows', t) = Jump(rows, t) /\ Jump(rows, t) # s /\ rows[Jump(rows, t)] # None
      BY <1>3, <2>2 DEF IInv, BastionsAreSound
    <3>2. Jump(rows, t) \in Servers
      BY <1>1, <2>2, <3>1 DEF Jump, Rows
    <3>3. QED BY <1>3, <3>1, <3>2
  <2>3. QED BY <2>1, <2>2 DEF BastionsAreSound
<1>5. NoSecretWithoutServer'
  BY <1>0, <1>1, <1>3 DEF IInv, NoSecretWithoutServer
<1>6. EditIsSound(editor[d])'
  BY <1>2 DEF EditIsSound, Idle
<1>7. ASSUME NEW x \in Sessions, Bound(x)' PROVE SessionIsSound(editor[d], x)'
  <2>1. session[x].server \in Servers /\ Current(x) /\ Apart(x, s)
    BY <1>0, <1>1, <1>7 DEF Bound, IInv, SessionIsSound
  <2>2. ASSUME NEW u \in Chain(rows, session[x].server) PROVE rows'[u] = rows[u]
    <3>1. u \in Servers /\ u # s
      BY <2>1 DEF Apart, Chain
    <3>2. Jump(rows, u) # s
      BY <1>0, <2>1, ChainIsClosed DEF Apart
    <3>3. QED BY <1>1, <3>1, <3>2
  <2>3. Current(x)'
    BY <1>1, <2>1, <2>2, StaysCurrent
  <2>4. QED BY <1>1, <1>2, <2>1, <2>3 DEF SessionIsSound, Idle
<1>8. QED BY <1>4, <1>5, <1>6, <1>7 DEF IInv, SessionIsSound

LEMMA ResetVaultPreserves ==
  ASSUME NEW d \in Editors, IInv(d), Typed', ResetVault(d)
  PROVE  IInv(d)'
<1>1. editor'[d] = Idle /\ UNCHANGED <<rows, session>> /\ \A s \in Servers : secrets'[s] = None
  BY DEF ResetVault, Finish, IInv, Typed
<1>2. BastionsAreSound' /\ NoSecretWithoutServer'
  BY <1>1 DEF IInv, BastionsAreSound, NoSecretWithoutServer, Acyclic, Jump
<1>3. EditIsSound(editor[d])'
  BY <1>1 DEF EditIsSound, Idle
<1>4. \A x \in Sessions : ~Bound(x)'
  BY <1>1 DEF ResetVault, IInv, SessionIsSound, Bound
<1>5. QED BY <1>2, <1>3, <1>4 DEF IInv, SessionIsSound

\* Only a save that has written its row leaves sessions that are outdated;
\* they are excused.
LEMMA FailsPreserves ==
  ASSUME NEW d \in Editors, IInv(d), Typed', Fails(d)
  PROVE  IInv(d)'
<1> PICK ed : ed = editor[d]
  OBVIOUS
<1>1. editor'[d] = Idle /\ UNCHANGED <<rows, secrets>>
  BY DEF Fails, Finish, IInv, Typed
<1>2. BastionsAreSound' /\ NoSecretWithoutServer'
  BY <1>1 DEF IInv, BastionsAreSound, NoSecretWithoutServer, Acyclic, Jump
<1>3. EditIsSound(editor[d])'
  BY <1>1 DEF EditIsSound, Idle
<1>4. ASSUME NEW x \in Sessions, Bound(x)' PROVE Bound(x) /\ session'[x] = session[x] /\ Current(x)
  <2>1. CASE ed.kind = "save" /\ ed.pc # "row"
    <3>1. Excuse({"connecting", "open"})
      BY <2>1 DEF Fails
    <3>2. session'[x] = session[x] /\ session[x].state \notin {"connecting", "open"}
      BY <1>4, <3>1, ExcusedOrStays DEF IInv
    <3>3. QED BY <1>4, <3>2 DEF Bound, IInv, Typed, SessionRecords
  <2>2. CASE ~(ed.kind = "save" /\ ed.pc # "row")
    <3>1. session' = session
      BY <2>2 DEF Fails
    <3>2. Bound(x)
      BY <1>4, <3>1 DEF Bound
    <3>3. ed \in Records /\ ed.pc # "idle"
      BY DEF Fails, IInv, Typed
    <3>4. SessionIsSound(ed, x) /\ EditIsSound(ed)
      BY DEF IInv
    <3>5. ed.pc = "secrets" => Current(x)
      BY <2>2, <3>2, <3>4 DEF SessionIsSound, EditIsSound
    <3>6. QED BY <2>2, <3>1, <3>2, <3>3, <3>4, <3>5 DEF SessionIsSound, EditIsSound, Records
  <2>3. QED BY <2>1, <2>2
<1>5. ASSUME NEW x \in Sessions, Bound(x)' PROVE SessionIsSound(editor[d], x)'
  <2>1. Current(x)' /\ session[x].server \in Servers /\ session'[x] = session[x]
    BY <1>1, <1>4, <1>5, SessionStays DEF IInv, SessionIsSound
  <2>2. QED BY <1>1, <2>1 DEF SessionIsSound, Idle
<1>6. QED BY <1>2, <1>3, <1>5 DEF IInv, SessionIsSound

\* A session made while an edit is under way is excused, any other is current.
LEMMA ConnectPreserves ==
  ASSUME NEW d \in Editors, Editors = {d}, IInv(d), Typed',
         NEW y \in Sessions, NEW s \in Servers, Connect(y, s)
  PROVE  IInv(d)'
<1>1. UNCHANGED <<rows, secrets, editor>>
  BY DEF Connect
<1>2. BastionsAreSound' /\ NoSecretWithoutServer'
  BY <1>1 DEF IInv, BastionsAreSound, NoSecretWithoutServer, Acyclic, Jump
<1>3. EditIsSound(editor[d])'
  BY <1>1 DEF IInv, EditIsSound, ValidJump, Chain, Affected, Jump
<1>4. ASSUME NEW x \in Sessions, Bound(x)' PROVE SessionIsSound(editor[d], x)'
  <2>1. CASE x = y
    <3>1. /\ session'[x].server = s /\ session'[x].made = Profile(rows, secrets, s)
          /\ session'[x].excused = Editing
      BY <2>1 DEF Connect, IInv, Typed
    <3>2. editor[d].pc = "idle"
      BY <1>4, <3>1 DEF Bound, Editing
    <3>3. Current(x)'
      BY <1>1, <3>1 DEF Current
    <3>4. QED BY <1>1, <3>1, <3>2, <3>3 DEF SessionIsSound
  <2>2. CASE x # y
    <3>1. session'[x] = session[x]
      BY <2>2 DEF Connect, IInv, Typed
    <3>2. SessionIsSound(editor[d], x)
      BY DEF IInv
    <3>3. QED BY <1>1, <3>1, <3>2, SessionStays DEF SessionIsSound
  <2>3. QED BY <2>1, <2>2
<1>5. QED BY <1>2, <1>3, <1>4 DEF IInv, SessionIsSound

\* Steps that are not of an edit, nor make a session.
LEMMA OthersPreserve ==
  ASSUME NEW d \in Editors, IInv(d), Typed',
         (\E y \in Sessions : Opened(y) \/ End(y)) \/ Unlock \/ UNCHANGED vars
  PROVE  IInv(d)'
<1>1. UNCHANGED <<rows, secrets, editor>>
  BY DEF Opened, End, Unlock, vars
<1>2. BastionsAreSound' /\ NoSecretWithoutServer'
  BY <1>1 DEF IInv, BastionsAreSound, NoSecretWithoutServer, Acyclic, Jump
<1>3. EditIsSound(editor[d])'
  BY <1>1 DEF IInv, EditIsSound, ValidJump, Chain, Affected, Jump
<1>4. ASSUME NEW x \in Sessions, Bound(x)' PROVE SessionIsSound(editor[d], x)'
  <2>1. /\ session'[x].server = session[x].server /\ session'[x].made = session[x].made
        /\ session'[x].state \in {session[x].state, "open"}
        /\ Bound(x)
    BY <1>4 DEF Opened, End, Unlock, vars, Bound, NoSession, IInv, Typed, SessionRecords
  <2>2. (Current(x)' <=> Current(x)) /\ \A s : Apart(x, s)' <=> Apart(x, s)
    BY <1>1, <2>1 DEF Current, Apart
  <2>3. SessionIsSound(editor[d], x)
    BY DEF IInv
  <2>4. QED BY <1>1, <2>1, <2>2, <2>3 DEF SessionIsSound
<1>5. QED BY <1>2, <1>3, <1>4 DEF IInv, SessionIsSound

LEMMA CrashPreserves ==
  ASSUME NEW d \in Editors, IInv(d), Typed', Crash
  PROVE  IInv(d)'
<1>1. UNCHANGED <<rows, secrets>> /\ editor'[d] = Idle /\ \A x \in Sessions : session'[x] = NoSession
  BY DEF Crash
<1>2. BastionsAreSound' /\ NoSecretWithoutServer'
  BY <1>1 DEF IInv, BastionsAreSound, NoSecretWithoutServer, Acyclic, Jump
<1>3. EditIsSound(editor[d])'
  BY <1>1 DEF EditIsSound, Idle
<1>4. \A x \in Sessions : SessionIsSound(editor[d], x)'
  <2>1. \A x \in Sessions : ~Bound(x)'
    BY <1>1 DEF Bound, NoSession
  <2>2. QED BY <2>1 DEF SessionIsSound
<1>5. QED BY <1>2, <1>3, <1>4 DEF IInv

LEMMA NextPreserves ==
  ASSUME NEW d \in Editors, Editors = {d}, IInv(d), [Next]_vars
  PROVE  IInv(d)'
<1>1. Typed'
  BY TypeIsInvariant DEF IInv
<1>2. CASE \E s \in Servers : \/ \E jump \in Servers \cup {None} : Save(d, s, jump)
                            \/ \E t \in Servers : Duplicate(d, s, t)
  BY <1>1, <1>2, SavePreserves, DuplicatePreserves
<1>3. CASE (\E s \in Servers : Delete(d, s)) \/ Reset(d)
  BY <1>1, <1>3, DeleteOrResetPreserves
<1>4. CASE WriteRow(d) \/ WriteSecrets(d) \/ Close(d)
  BY <1>1, <1>4, WriteRowPreserves, WriteSecretsPreserves, ClosePreserves
<1>5. CASE RemoveSecrets(d) \/ RemoveRow(d) \/ ResetVault(d) \/ Fails(d)
  BY <1>1, <1>5, RemoveSecretsPreserves, RemoveRowPreserves, ResetVaultPreserves, FailsPreserves
<1>6. CASE \E y \in Sessions, s \in Servers : Connect(y, s)
  BY <1>1, <1>6, ConnectPreserves
<1>7. CASE (\E y \in Sessions : Opened(y) \/ End(y)) \/ Unlock \/ UNCHANGED vars
  BY <1>1, <1>7, OthersPreserve
<1>8. CASE Crash
  BY <1>1, <1>8, CrashPreserves
<1>9. QED BY <1>2, <1>3, <1>4, <1>5, <1>6, <1>7, <1>8 DEF Next
-----------------------------------------------------------------------------
(***************************************************************************)
(* The invariant of storage.rs and of the edits in lib.rs, if there is one *)
(* editor: edits come one after the other.                                 *)
(***************************************************************************)
THEOREM InvariantHolds ==
  ASSUME NEW d \in Editors, Editors = {d} PROVE Spec => []IInv(d)
<1>1. Init => IInv(d)
  BY InitEstablishes
<1>2. IInv(d) /\ [Next]_vars => IInv(d)'
  BY NextPreserves
<1>3. QED BY <1>1, <1>2, PTL DEF Spec

(***************************************************************************)
(* Type correctness of rows, vault, edits and sessions.                    *)
(***************************************************************************)
THEOREM TypeCorrect ==
  ASSUME NEW d \in Editors, Editors = {d} PROVE Spec => []TypeOK
<1>1. IInv(d) => TypeOK
  BY TypedIsTypeOK DEF IInv
<1>2. QED BY <1>1, InvariantHolds, PTL

(***************************************************************************)
(* validate_jump_host and the foreign key of the table keep bastions sound *)
(* for any number of servers, whatever fails in between.                   *)
(***************************************************************************)
THEOREM BastionsStaySound ==
  ASSUME NEW d \in Editors, Editors = {d} PROVE Spec => []BastionsAreSound
<1>1. IInv(d) => BastionsAreSound
  BY DEF IInv
<1>2. QED BY <1>1, InvariantHolds, PTL

(***************************************************************************)
(* Removing secrets before the row and writing them after it leaves no     *)
(* secret without its server.                                              *)
(***************************************************************************)
THEOREM SecretsHaveServers ==
  ASSUME NEW d \in Editors, Editors = {d} PROVE Spec => []NoSecretWithoutServer
<1>1. IInv(d) => NoSecretWithoutServer
  BY DEF IInv
<1>2. QED BY <1>1, InvariantHolds, PTL

(***************************************************************************)
(* What affected_server_ids finds is enough: the sessions that are left    *)
(* open by an edit were made with the profiles as they are.                *)
(***************************************************************************)
THEOREM EditsCloseWhatTheyOutdate ==
  ASSUME NEW d \in Editors, Editors = {d} PROVE Spec => []SessionsAreCurrent
<1>1. IInv(d) => SessionsAreCurrent
  <2>1. SUFFICES ASSUME IInv(d), ~Editing, NEW x \in Sessions,
                        session[x].state = "open", ~session[x].excused
                 PROVE  session[x].made = Profile(rows, secrets, session[x].server)
    BY DEF SessionsAreCurrent
  <2>2. editor[d].pc = "idle"
    BY <2>1 DEF Editing
  <2>3. QED BY <2>1, <2>2 DEF IInv, SessionIsSound, Bound, Current
<1>2. QED BY <1>1, InvariantHolds, PTL
=============================================================================
