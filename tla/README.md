# Serverbox: a verification development

Serverbox is a desktop application (Tauri: a Rust backend in `src/src-tauri/src`,
a TypeScript webview in `src/src`) that manages servers over SSH. The interesting
part of it is not what it computes but who does what when: one JavaScript thread
sends commands to a pool of backend threads, the backend keeps process-wide maps
of connections, operations, terminals, tunnels and log streams, long-lived threads
poll non-blocking SSH channels, and a vault file is replaced while the program may
be killed. This directory holds TLA+ models of that part, the TLC runs that check
them on small instances, and TLAPS proofs of the main results for every instance.

`PROJECT.json` is the index: components, runs, the map from definitions to source
lines, the hazards of the code with the properties that cover them, and the
theorems. This file explains how the pieces fit.

## 1. Inventory

Each part: its state, its operations, what makes it hard, what makes it correct.

**Command client** (`src/app/command-client.ts`, callers in `main.ts`). State: one
`activeOperation` (id, label, `cancelled`). `invokeCommand` cancels the current
operation, takes the slot, sends the command and awaits the reply;
`cancelCurrentOperation` marks the call, frees the slot and sends a cancel message
of its own; `recoverAndRetry` asks for a master password or a host key and sends the
command again as a new operation. Hard: the cancel message and the command are
independent and may be processed in either order; state is read before an `await`
and used after it. Correct: only the latest result is applied, the slot is always
freed, a question is not repeated for ever.

**Operation registry** (`ssh.rs`, `OPERATIONS`). A map from operation id to a shared
flag, with "pending" entries for cancels that came first. `begin_operation`,
`finish_operation`, `cancel_operation`, `prune_pending_cancellations`. Hard: the two
orders of begin and cancel, pruning by age and number, one `finish` on every exit
path. Correct: an entry exactly for every running command, with the flag that
command looks at; no cancel lost; a bounded number of pending entries.

**Connection cache** (`ssh.rs`, `CONNECTIONS`, `with_client`). A map from server to
one connection and the `profile_key` it was made for. A call looks the connection
up, probes a reused one, connects when there is none, retries once, runs the command
under the connection's mutex and drops the connection if it turned out unusable.
Hard: lock, unlock, act; parallel connects; invalidation of a connection somebody
replaced; edits of the profile in between. Correct: a command runs on a connection
made for the profile it read; an unusable connection leaves the cache and no other
does; every call returns.

**SSH transport** (`ssh.rs`). Connect, verify the host key, authenticate, relay
through bastions, `exec` with input, limits and timeouts, and the ways of becoming
root (`id -u`, `sudo -n true`, then the stored password). A remote process has a life
of its own: it goes on when its channel is gone. Hard: one channel carries the sudo
password and the input of the command; a cancel between `exec` and the end of the
input; output that is cut off at its limit. Correct: sudo and command each get what
is theirs, a success means that the command ran to its end on all of its input (if
the server said how it ended), a cancel ends every call.

**Host-key trust** (`ssh.rs`, `main.ts`). `known_hosts`, the question to the user,
`accept_host_key`, `replace_host_key`. Hard: one waiter shared by several questions,
the server answering with another key between question and answer, a file that is
read, edited and written back, hops of a bastion chain. Correct: no key is recorded
that nobody has agreed to, none that nobody was shown (which does not hold), no line
of another host is lost.

**Terminal sessions** (`terminal.rs`). A map of sessions; per session an mpsc
mailbox, a shared byte counter and a thread that loops over mailbox, resize, write,
read and keepalive. Hard: partial and blocked writes on a non-blocking channel, the
counter shared by two threads, four places that remove the entry. Correct: input is
delivered in order, once and within its budget; a blocked write is repeated
unchanged; a close always ends the session.

**Credential vault** (`credentials.rs`). Derived key, salt and decrypted document
behind a mutex, and an encrypted file replaced through a temporary file. `unlock`,
`update_server`, `remove_server`, `change_master_password`, `reset`. Hard: failure or
a crash between the steps, a password change that must not half happen. Correct:
memory and file agree, the file is always one complete vault.

**Server store** (`storage.rs`). SQLite rows and notes, and the vault. Rows, notes
and secrets are written one after the other; the bastion graph is validated outside
of the write. Correct: no secrets without a server, no bastion cycle.

**Command layer** (`lib.rs`). Commands as thin wrappers, and the activity lifecycle:
which tunnels, streams, terminals and connections a save, delete, disconnect or
password change closes. Hard: activity that is just starting.

**Tunnels** (`tunnels.rs`). A map of runtimes (running flag, error), a listener
thread per tunnel, a pump thread per connection. Hard: two starts at once, restart
while the old listener still polls, half-closed connections, deleting a tunnel that
runs. Correct: what runs is what the table names, a failure leaves its message, a
stop ends listener and connections, no byte is lost or repeated.

**Live log streams** (`log_stream.rs`, viewer in `main.ts`). A map of sessions with a
close channel each, a thread per stream that reads, decodes and emits, and a viewer
that makes the identifier itself. Hard: the viewer pauses, restarts and leaves while
a start is under way, which `close` cannot see; characters cut in two by a read.
Correct: no stream outlives the wish for it, the viewer shows what was printed.

**File transfers** (`providers.rs`). Staged uploads, saves and downloads, the search
for conflicts, the ladder of renames, clean-up. State: a staging file per transfer,
the files at the destinations. Hard: a failure, a cancel or a lost connection at any
step, servers without overwriting renames, two transfers with one destination.
Correct: a reader sees a whole file or none, failures leave nothing behind, a success
has placed everything the walk of the local disk could read.

**Cron editing** (`providers.rs`). Two commands per edit, `crontab -l` and
`crontab -`; lines without an identifier are named by their position. Hard: somebody
else edits in between. Correct: other lines stay as they are.

**Remote snapshots and actions** (`providers.rs`, `tier3.rs`, `disk.rs`): commands and
scripts, run as the user, as root, or as root when the user is refused; their output
is parsed and nothing is kept.

**Webview shell** (`main.ts`, `app/*`): navigation, views, dialogs, workspace tabs,
dragging, formatting. Hard: replies for a view that is no longer shown.

Interactions: webview -> commands (messages, any order) -> `with_client` ->
registry and cache; commands -> terminals and streams (mailboxes) -> events back to
the webview; store -> vault; edits -> everything that is open for the server.

## 2. Modules and plan

| module | what it is | status |
|---|---|---|
| `OperationRegistry` | the registry's calls, as atomic operators | checked, proved |
| `CommandClient` | webview slot, messages, threads, registry | checked, proved |
| `Connections` | `with_client` by several threads, edits, losses | checked, proved |
| `InputPipe` | abstract: a bounded ordered pipe | implemented by the next |
| `TerminalSession` | one terminal | checked, proved |
| `DurableVault` | abstract: a vault replaced as a whole | implemented by the next |
| `CredentialVault` | the vault and its file | checked, proved |
| `TunnelPump` | an iteration of the pump, as operators on a record | checked, proved through `Tunnels` |
| `Tunnels` | runtimes, listeners, connections | checked, proved |
| `ServerStore` | rows, secrets, bastion graph, what an edit closes | checked, proved |
| `Transfer` | uploads, saves, downloads, file actions | checked, proved |
| `HostKeys` | connections along a chain, known_hosts, the question | checked, proved |
| `LogStream` | stream threads, decoding, the viewer | checked, proved |
| `Crontab` | a crontab and its edits, as operators | checked, proved through `RemoteWork` |
| `RemoteExec` | one command: the call and the remote process | checked, proved through `RemoteWork` |
| `RemoteWork` | jobs: privileged commands, scripts, cron edits | checked, proved |
| `MCSessions` | `Transfer`, `HostKeys` and `LogStream` in one run | for TLC |
| `MCStores` | `ServerStore` and `CredentialVault` in one run | for TLC |

`CommandClient` EXTENDS `OperationRegistry`: the registry's state is part of the
composed system; in the same way `Tunnels` EXTENDS `TunnelPump`, and `RemoteWork`
EXTENDS `RemoteExec`, which EXTENDS `Crontab`. Abstract specifications are used
through `INSTANCE ... WITH`. `Transfer`, `HostKeys` and `LogStream` use SSH sessions of
their own and share no state, so a product of the three would only multiply
their states; `MCSessions` runs them in one specification whose initial state chooses
the one a behaviour is about. `MCStores` does the same for `ServerStore` and
`CredentialVault`.

The proofs are in `CommandClient_proofs`, `Connections_proofs`, `Terminal_proofs`,
`Vault_proofs`, `Tunnels_proofs`, `ServerStore_proofs` and `RemoteWork_proofs`, each of
which EXTENDS the module it is about, and in `Sessions_proofs`, which EXTENDS
`Transfer`, `HostKeys` and `LogStream`.

Next in order: the tabs of the webview (a terminal closed while it connects).

## 3. How the models correspond to the code

`PROJECT.json` maps each definition to lines; here is the reading key.

**OperationRegistry, CommandClient.** Every registry operator is one critical
section of the map's mutex. A flag (an `Arc<AtomicBool>`) is a number, so that
pointer equality (`Arc::ptr_eq`) is equality of numbers. Instants only matter
through the age of pending entries, so `prune` picks an arbitrary cut: every entry
up to it has expired. A labelled command is `Invoke`, then in the backend
`RejectCommand` (fails before `begin_operation`) or `BeginCommand`, `RunCommand`,
`EndCommand`, then `ReceiveReply`. The cancel message waits in `cancels` until
`HandleCancel` gives it a thread, so all orders of the two messages occur.
`RunCommand` is the whole body up to the last `ensure_not_cancelled`; as the earlier
checks only add errors, the last one decides. `Superseded` is the test after the
`await`; `Settle` is the `finally` block.

**Connections.** One map entry and one profile; other servers use other entries and
a bastion matters only as part of what a connection was made with. Each action is a
stretch of `with_client` between two points where another thread can interfere:
lookup, removal, connect, insertion, lock, probe, invalidation, command. The version
in a profile stands for all that `profile_key` leaves out: stored secrets and the
bastion's own address. Connections nobody has in hand are freed and their number is
reused, which keeps the model finite and is faithful to an `Arc`.

**TerminalSession.** `pc` is first `start` (insert, second look at the flag, spawn),
then the loop of the session thread; one action per attempt (`ResizeTaken`,
`ResizeNotTaken`, `WriteTaken`, `WriteBlocked`, `WriteFails`, ...). The commands of
the webview run on the main thread and so one at a time, but a `terminal_input`
takes three steps (`Lookup`, `Reserve`, `Send`) with the session thread in between.
Bytes are numbered in the order in which they are accepted; a chunk is an interval.

**CredentialVault.** The mutex is held for a whole call; a call that writes stays in
`op` for the steps of `atomic_write`, each of which may fail (`WriteFails`) or be the last
one (`VaultCrash`). Authenticated encryption means that a file opens with its own
password only. `windows` is the build: `#[cfg(windows)]` adds `RemoveOld`, and a write
that fails after it has returned an error although the old file is gone.

**Tunnels, TunnelPump.** Every start is a run with a number; the table names the run
inserted last. `Start` and `Insert` are the two critical sections of `start`, `Stop`
is the one of `stop` and `stop_all`. A run's `thread` follows `run_local` and
`run_remote`: bind or connect (`Listen`), the accept loop, the SOCKS5 handshake that
keeps the loop from its flag, and at the end message before flag (`Report`,
`Finish`). A connection is a record; `Iterate` is one iteration of `pump`: read socket,
write channel, read channel, write socket, each of which may do nothing, a part, or
fail. Bytes are counted: both buffers are queues, so counts say which bytes are
where. The iteration is one step, as what the peers do meanwhile only adds to what
the next one finds.

**ServerStore.** An edit is a record in `editor` whose `pc` names the next step. A save
is checks (`Save`), row (`WriteRow`), vault (`WriteSecrets`), and, if secrets or
`profile_key` changed, the closing of what is open for the affected servers (`Close`);
a delete closes first, then removes secrets and row; a reset closes everything and
empties the vault. Any step may fail (`Fails`) or be the last (`Crash`). A step on the
vault is atomic, which is what `DurableVault` says of it. Terminals, streams, running
tunnels and cached connections are all `session`s, with a copy of the profiles and
secrets they were made with. `Close` is one step for all maps and servers: what is
still connecting then is found in no map, and the code does nothing about it, so
`SessionsAreCurrent` excuses what connects while an edit runs. A name of a server, its
tags and its notes are metadata and left out; the sudo password is not part of a
connection.

**Transfer.** A job is a call of `upload_path`, `write_file`, `download_path` or
`file_action`; `pc` is the place in it between two calls of SFTP or of the local file
system. `scan` is `upload_conflicts`, `root` is `ensure_remote_directory`, `file`
and `write` are `upload_file` or the body of `write_file`, and `atomic`, `overwriting`,
`unlink`, `plain` are the calls of `rename_staging` in their order. What a file holds
is who wrote it and how much: `[by, part]`. Every call may fail (`FailEarly`, `FailWriting`,
`RenameFails`), the connection may go (`LoseLink`, `RenameUnheard`: the rename
happens and its reply is lost), the user may cancel, the program may be killed. What the
server makes of a rename is the choice of `server`. A downloaded folder is fetched
file by file in the code; here, as only its name matters, it is one staging file.
Both walks of the local tree drop what they cannot read (`filter_map(Result::ok)`): in
`upload_conflicts` such an entry counts as free (`Overlook`), in `upload_directory` it is
passed over (`Skip`, remembered in `skipped`), and the transfer still ends with Ok.

**HostKeys.** A command walks its chain from the last bastion to the server: `Open` is
the connection and the handshake of a hop, `Verify` and `Refuse` are `verify_host_key` with
libssh2's `check_port` (`CheckPort`, which also looks at lines for the name without
the port), `Fail` is every other error. `Ask` and `Answer` are the one dialog and
promise of `main.ts`: a question that finds the dialog open is not shown and gets the
answer to the one that is. So there are two histories: `granted` are the lines of all
questions that were answered with yes, `reviewed` the lines that were in the dialog when
they were. `Seek`, `Compare` and the steps after it are `accept_host_key` and
`replace_host_key`. `known_hosts` is a set of lines, since the order does not matter
for a check; rewriting it takes three steps (`Read`, `Truncate`, `WriteBack`), as
`write_file` of libssh2 opens the file for writing before it writes.

**LogStream.** `following` is where each call of `startLogFollowing` stands, by the
identifier it will use: waiting for the close of the stream before (`stopping`), waiting
for its start (`started`). `stream` is the entry and the thread; `closing` are
close_log_stream commands under way, `closeAsked` the close channels, `bus` the events
in order. `Drained` is the loop of `emit_utf8`, `FirstUnit` what `str::from_utf8`
says at its position; bytes are kinds (lead of so many, continuation, never valid).
`Replied` names an assumption: a start makes a round trip over the network and is
answered after closes that were sent before it and only take a lock. Without it
TLC finds a stream nobody closes, started by the first of two restarts.

**RemoteExec, RemoteWork, Crontab.** A call is `call[c]`, its process `proc[c]`; when a
call ends early the process becomes a stray whose input has ended. The actions of the
call are the statements of `exec_with_input_limited_timeout`; those of the process say
what sshd, sudo, sh and crontab do (external): a `wrapper` is the shell of
`sudo_password_command` that takes the password off the input, an `asking` one is
`sudo -S` before a command that reads nothing. A job is a list of stages;
`AfterId` and `AfterSudo` are the three ways of `execute_privileged` and its siblings,
`AfterDirect` the fallback of `signal_process`, `compose_action` and `docker_collection`,
`AfterList` and `AfterInstall` the two halves of a cron edit. Output is counted, and what it
says is one of four things the code asks for. A process ends well or badly and the
server sends its status, or a signal ends it, or the channel is closed, and nothing is sent
(`Killed`, possible in every phase); `ExitStatus` is what libssh2 answers, which is 0 for as
long as it was told nothing (`told`), so that the -1 of `exit_status().unwrap_or(-1)` never
occurs. A position in a crontab is counted
over all lines, as `enumerate` does.

## 4. Runs

| run | instance | shows |
|---|---|---|
| `command_client` | 3 invocations, 2 threads, 1 pending cancel, one kind of question | the safety of registry and slot, `SlotIsFreed` |
| `connections` | 2 threads, 2 calls, 2 keys, 1 edit | the safety of the cache, `CallsReturn` |
| `connections_save` | the same | violated: `SaveInvalidates` |
| `terminal` | room for 3 bytes, inputs of 0 and 2 bytes, 2 inputs, 2 resizes of 2 sizes, 2 keepalive failures | the terminal's safety and liveness, `InputPipe` |
| `tunnels` | 2 tunnels (SOCKS5, remote), 2 starts, 1 connection, 2 bytes up and 1 down | the tunnels' safety, `StopEnds` |
| `stores` | 3 servers, 1 secret, 1 value of the rest of `profile_key`, 1 editor, 1 session; or a vault with 2 servers, 2 slots, 2 secrets, 2 passwords, 3 salts, both builds | bastions, secrets, what edits close; the vault's safety, `DurableVault` |
| `tunnels_race` | 1 tunnel, 2 starters | violated: `StopReachesEveryRun` |
| `sessions` | 2 transfers, 2 commands, 3 streams (one kind per behaviour) | transfers, host keys, streams |
| `known_hosts_bastion` | 2 commands, as in `sessions` | violated: `QuestionsReachUser` |
| `known_hosts_unseen` | 2 commands on two servers, no change of keys, no other programs | violated: `TrustIsReviewed` |
| `remote_work` | 1 job of each kind on 5 hosts, 2 cron edits, 1 change by others | commands, sudo, crontab |
| `vault_windows` | the vault of `stores` | violated: `WritesAreAtomic` |

Why the bounds are enough. `command_client`: a stale reply needs two operations, a
pruned cancel two pending ones, and a third invocation lets a retry supersede a
running one; two threads let a cancel overtake its command and also wait for it.
`connections`: every conflict on the entry is between two calls, or a call and an
edit; two keys tell a reused connection of the old profile from one of the new, and
the one edit may keep the key, which is the interesting case. `terminal`: two inputs
of two bytes against room for three meet the full budget, a partial write and an
empty input; two resizes collapse; the session thread is the same for every number
of sessions. `tunnels`: two starts are an old and a new run, of one tunnel or of two;
two bytes up make a partial write, a full buffer and an end seen while data wait; one
byte down is what the end of the channel could overtake. With one starter (clicks
one after the other) `OnlyLatestRuns` holds; the race has two. `stores`: three
servers put one behind two bastions and make every cycle of up to three; sessions do
not meet, so one will do; a change of bastion stands for every change of the profile;
the servers are interchangeable (symmetry). There is one editor: the dialogs of the
webview submit one edit at a time, and nothing else holds two back. With two,
TLC finds a cycle of bastions (each save is checked before the other is written) and
secrets without a server (a save inside a delete): the properties hold for edits one
after the other and for no more. In the vault two servers tell the updated one from the others, two
slots a kept secret from a cleared one, three salts allow two password changes.
`sessions`: a
file of two reads has a middle; a tree of two entries has a link, which is not looked
for, and a next one; two transfers are what can meet at a destination or a folder, on
servers with each set of renames and with each set of files there before.
Three addresses are a host, the same host without its port, and a bastion; the chains
are a server alone, behind a bastion, and behind itself, which makes the search for
the hop choose; two keys are an old and a new one; one change of a key falls before,
between or after question and answer. Three streams are needed for a restart beside a
restart; only the first prints (a beginning that nothing continues, a character of two
bytes, one cut off at the end), in every way of cutting it; the others are the race.
Symmetry is over the commands, and over the streams that do not print. `remote_work`:
two lines of input show their order; a bound of one with outputs of none, one and
two or more are below, at and above it; every combination of root, sudo without a
password and a right, wrong or missing password; one crontab with a comment in front,
lines with and without an identifier, and a switched-off line, changed by somebody else
beside the edit; another that is empty until two clients add to it, or one edits what
the other has added.
What the bounds leave out in `connections` is an endless stream of competing calls:
a poller of `lock_client` could then starve, which `CallsReturn` does not exclude.

Deadlock checking is off where the system may stop: all invocations, transfers or
jobs made and nothing under way, or a terminal that has ended.

Fairness. `command_client`: backend threads and replies are scheduled (weak), and a
queued command gets a thread if one becomes free again and again (strong: the
runtime's queue is served in order); cancels and users owe nothing. `connections`:
each step of a call that stays possible is taken, since every wait on the network
has a timeout. `terminal`: the session thread and the end of `start` are scheduled.
`InputDelivered` and `ResizeDelivered` state their assumption on the remote host in
the property itself: it takes what it is offered again and again. `tunnels`: threads
run, and since the pump never blocks it comes back to its condition; no read, write,
connection or click has to happen. `remote_work`: the client's thread goes on with its call
and its job (each call of libssh2 has a timeout, so that the next action is always
possible); the remote process, the user and others owe nothing. `CancelEnds` therefore
holds also for a command that prints for ever. The vault has no liveness property; nothing in it
waits.

Findings. `connections_save`: a comment in `lib.rs` promises that a connectivity
change invalidates the server; a connection being made at that time is cached after
the invalidation and used by later calls when `profile_key` did not change.
`vault_windows`: `docs/REVIEW.md` calls vault writes atomic; on Windows the old file
is removed first. `tunnels_race`: a dialog says that tunnels remain active until
they are stopped; of two starts at once the first leaves a run that no stop reaches.
`known_hosts_bastion`: comments in `ssh.rs` say that an unknown key is shown to the
user and that the whole chain is searched for its hop; for a bastion the error gets a
prefix on its way and is no longer known as a question, so the server cannot be
connected to until the bastion was on its own.
`known_hosts_unseen`: a comment in `ssh.rs`, the dialog and the README of the program
say that no first-contact key is trusted without its fingerprint having been shown; a question that
comes while the dialog is open for another one is not shown, and one yes records both keys.
One remark without a run: the same document calls the second call of
`prune_pending_cancellations` in `cancel_operation` redundant. The model without it
breaks `PendingBounded` (this is the mutant of that property); and without the first
one a cancel that finds its own expired entry would be dropped together with it.

Every checked property comes with a mutant: an alternative definition, next to the
one it replaces and marked MUTANT, under which TLC finds the property violated.

## 5. Proofs

`CommandClient_proofs` proves, for every finite number of invocations, any number of
threads and any bound on pending cancels, the type invariant,
`RegistryMatchesThreads`, `CancelReachesCommand`, `NoSuccessAfterCancel`,
`OnlyLatestApplies` and `PendingBounded`. The inductive invariant adds to `TypeOK` and
`RegistryMatchesThreads` what the messages in flight need: entries carry flags that
were allocated and instants that are past, so a new flag is clear (`FlagsAllocated`);
nothing is known of an operation before it is issued, and a reply only exists once its
command is past its last check (`QuietBeforeIssue`); a cancel request is sent once,
for an operation that has lost the slot, which holds the newest one or nothing
(`CancelsOnce`); a raised flag belongs to an abandoned operation, a pending entry to a
processed request (`PendingIsRaised`); and every processed request that was not pruned
still reaches its command (`RequestKept`). `PendingBounded` has an invariant of its own,
`PendingInv`: pending entries have different instants (`InstantsDiffer`), so that
removing the oldest of too many leaves as many as the bound allows. A set whose
surplus is removed has just the bound left by well-foundedness of the subset order.

`Terminal_proofs` proves, for every capacity, every set of lengths and sizes and
every bound, the type invariant, `InputAccounted`, `EntryIsLive`, `RetriesSameWrite` and
that `TerminalSession` implements `InputPipe`. The property alone is not inductive: that
the counter is exact after a write needs to know that the bytes in mailbox and queue
are exactly those sent and not yet taken. The invariant says so: the chunks are
`Ordered` (later ones carry later bytes), `Contiguous` (no gap between the
bytes taken, the queue, the mailbox and the bytes sent), `Bounded` (inside the bytes
sent), and `Settled` (nothing else is pending while the thread lives).

`Vault_proofs` proves, for all servers, slots, secrets, passwords and builds, the type
invariant, `MemoryMatchesFile` and that `CredentialVault` implements `DurableVault`. Between two steps of a write, memory and file need not
agree, so `MemoryMatchesFile` says nothing there and is not inductive; the invariant
adds `UndoAgrees`: the document a failing write goes back to agrees with the file
under the key in memory, and the step that removes the old file is only reached on
Windows. With it every step is a step of `DurableVault` or a stutter: an update or
a change of the password is `Prepare`, the rename is `Commit`, a failure or a crash
is `Abandon`, the removal on Windows is `Vanish`.

`ServerStore_proofs` proves, for any servers, secrets and sessions, and any profile,
the type invariant, `BastionsAreSound`, `NoSecretWithoutServer` and
`SessionsAreCurrent`, from the assumption that there is one editor (`Editors = {d}`).
That a save closes no cycle is a fact about graphs (`ValidJumpKeepsAcyclic`): a cycle
would have to lie in the chain that was checked, and the server is not in it. A
session is current again only when an edit is over, so the invariant says what is
left to do at each step: after the row is written, sessions whose chain misses the
server are current (`Apart`), at the closing those outside of
`affected_server_ids` are (`AffectedCoversChains`), and a deletion goes on only when
no session depends on the server. `EditIsSound` keeps what the edit knows: that the
bastion checked at the start is still good when the row is written, which is where
one editor is needed.

`Connections_proofs` proves, for any finite number of threads, any keys, calls and
edits, the type invariant, `RunsOnOwnProfile`, `SpoiltIsEvicted` and
`InvalidationSparesOthers`. Two things are needed. A connection that waits to be
inserted is known to nobody else and not yet judged (`NewIsPrivate`): this is why no
spoilt connection enters the cache after the verdict. And a thread that connects
gets a number that nobody has in hand (`UnusedIsNew`): there is one more number than
there are threads, and when the cache is not empty some thread has the cached connection in hand
or none (`NumberLeft`). The rest says what a thread knows where it stands:
`KeyIsRead`, `HeldIsOwn`, `DropsSpoilt`.

`Tunnels_proofs` proves, for any tunnels of any kinds, starts, connections and sizes of
the buffers, the type invariant, `FailureLeavesError`, `PumpIsFaithful`,
`EndIsComplete`, and, from the assumption that there is one starter
(`Starters = {s}`), `OnlyLatestRuns`. `PumpIsFaithful` becomes inductive with what the
pump knows of the end of the socket: it sees it after the last byte (`Sound`). An
iteration keeps `Sound` because each of its four parts does. A failure leaves its
error since a listener is only closed for a reason (`LeavingHasCause`). `OwnersBegan`
and `RunsBegin` tie a connection to a run that was inserted, so that the flag of a new
run cannot be that of an old connection. For `OnlyLatestRuns` a start under way keeps its
place free (`PlaceIsFree`), which a second starter could break and does, in `tunnels_race`.

`Sessions_proofs` proves of `Transfer`, for any transfers beside each other, any tree and any length
of files, the type invariant, `NeverTorn`, `FailureCleansUp`, `OkIsComplete`,
`PlacesOnlyFree` and `RemovedForReplacement`. The core is `StageIsOwn`: a staging file is
its job's own, and whole when the first rename is tried, unless the server has renamed it
and only the reply is lost; from it follow the two properties of the destinations.
`PlacedSoFar` and `ScannedSoFar` are the loops: what is behind the place `at` is placed or
was skipped, and was looked for or overlooked. `OkIsComplete` says two things of a success:
every entry the walk could read was renamed into place, and as long as nobody else has begun
(`Alone`) each destination holds the whole file of this transfer, so that no rename that
failed or was not heard of was taken for done. The latter needs `StageIsOwn`, since what a rename
leaves at the destination is the staging file. `NoLitter` and `FolderOfFiles` are the two halves of `FailureCleansUp`;
the second one says that the folder of a download stays while a staging file or a
destination is in it. `PathOfKind` says which operations come to which steps.

It proves of `HostKeys`, for any commands, chains of bastions and keys, the type
invariant, `TrustIsGranted` and `LinesSurvive`. `Sound` says of a command what it must know
before it writes: its question was answered with yes, in a dialog of its own or in one it
joined, and the key it is about to record is the one in that question, whatever the server
presents now. That its key was in the dialog (`TrustIsReviewed`) is more than that and does
not hold. A
replacement writes back what it read some steps before, so `LinesSurvive` needs that,
as long as nothing else has changed the file (`disturbed`), one command rewrites at a
time and what it has in memory lacks only what it replaces (`RewritesAlone`). The search for
the hop in `Seek` ends at a hop of the chain because a set of hops has a greatest
element (`Greatest`, from the well-foundedness of the subset order).

It proves of `LogStream`, for any number of streams and any order of replies and events,
the type invariant and `NoOrphanStream`. The property says nothing of a start that has not
opened its stream yet, and nothing of starts that wait for a close; the invariant adds
both. `StartsAreAwaited`: a stream is only opened for a start that still gets its answer.
`WaitersAreAhead`: while the viewer has an identifier, whoever waits for a close waited
already when the start of that identifier was sent, and that start is not answered yet.
This matters where a waiting start is sent (`AfterStop`): it takes the viewer's identifier
without closing the stream that had it. No stream is lost by that, because the answer to
the start of that stream is still to come, finds the stream unwanted and closes it.
`EndsAreTrue`: a stream whose end was announced is gone, so the viewer that forgets it
leaves nothing behind.

It also proves `ShowsWhatWasSaid`, for every output of every server and every way to cut it
into reads. `Drained`, the loop of `emit_utf8`, is a recursive function over all sequences
of bytes; that it satisfies its own equation (`DrainedUnfolds`) is shown by joining the
solutions for sequences of at most `n` bytes, which exist (`SolutionsExist`) and agree
(`SolutionsAgree`). Induction on lengths is by least elements (`ByLength`), over sets in
place of predicates. Three facts then carry the argument. `ShownCut`: to decode some bytes,
keep what has no end yet and decode it with the next bytes is to decode both at once; it
rests on `UnitStays`, that what from_utf8 finds to be whole or wrong stays so whatever
follows. `ReadableIsShown`: a whole output decoded at once is its characters, with one
replacement for each run that is none; here `UnitBreaksOff` says that a character that is
not continued is an error as long as what there is of it. And the invariant `DecoderIInv`:
what the viewer has shown, what lies in the events on their way (`Told`) and what the
decoder will make of the bytes to come (`Shown`) are, in this order, the output
(`Progress`); nothing is announced after an end (`Tells`); what is kept between two reads
is the beginning of a character (`Decodes`). `OutputsAssumption` says how the constant
`Outputs` writes an output down, in the pieces that from_utf8 makes of it;
`AllBytesArePieces` proves that every sequence of bytes can be written so.

`RemoteWork_proofs` proves, for any clients, jobs, input, crontabs, servers and changes by
others, the type invariant, `PasswordStaysApart`, `CronLinesKept` and `OkIsWhole`. The
invariant (`IInv`) is, beside types, about a process alone and about a job together with
its call and process. `Apart`: what a process has read and may still read is no password,
unless it is the first line of a shell that asks for it or all there is for a `sudo`
that asks; this holds of strays too, whose input is cut off anywhere. `Linked` and `Conserved`: what the process has
read, what lies in the channel and what the call has still to write is, in this order, the
whole input, so that a process that succeeds has read it all; what the call has kept is the
output up to the limit whenever there is nothing new (`Kept`). `Honest`: a process that
succeeded in a way of becoming root was root. A process that was killed has not succeeded, but
may have the status of one that has: what `OkIsWhole` says of root and input is
therefore only about processes whose status was sent; what it says of bounded output
follows from `Kept` and holds of all. `Staged`: which call belongs to which step of which plan.
`Editing`: the input of `crontab -` is the edit of what was listed. For `CronLinesKept`
the proof needs that an edit changes the lines that answer to its identifier and no others (lemmas on
`Saved`, `Switched`, `Deleted` over sequences of any length), and that, where the
edit hits the crontab it was meant for, the one line that answers has the text of a job the user
chose: because the crontab is the one that was shown, for a position, or because an identifier
of ours stays with one job (`Legal`).

The assumptions are those the modules name (`RegistryAssumption`,
`ClientAssumption`, `ConnectionsAssumption`, `TerminalAssumption`, `VaultAssumption`,
`StoreAssumption`, `PumpAssumption`, `TunnelsAssumption`, `TransferAssumption`,
`ScenariosAssumption`, `HostKeysAssumption`, `LogStreamAssumption`, `OutputsAssumption`,
`RemoteExecAssumption`, `RemoteWorkAssumption`): finite sets of identifiers, natural numbers
for bounds, sequences over the names they use, and distinct names for distinct things;
in particular the sudo password is no line of a script or of a crontab, and in the crontab at
the start an identifier of ours names one job, and no line has that of the new job (a
fresh UUID).
TLC evaluates them in every run of the module.

Only model-checked: all liveness (`SlotIsFreed`, `CallsReturn`, `CloseEnds`,
`InputDelivered`, `ResizeDelivered`, `StopEnds`, `CancelEnds`), which is out of the
prover's reach. Every safety property of a run that passes has a theorem. The type
invariants are not among the properties of the runs: they follow from the proofs.

## 6. Not modelled, and why

Left out on purpose: rendering and layout, what remote scripts do and how their output is
parsed (stateless, one command each), the cryptography of the vault, the SSH protocol
below libssh2, the types of `models.rs`, packaging and the web site. Not yet modelled:
the bytes of the bastion relay (`relay_jump`, a pump like that of `TunnelPump`), the
tabs and views of the webview, rows of tunnels, saved commands and notes.

Within the modelled parts: commands without a label, which never take the
slot; the connecting half of `terminal::start`, which is the command path of
`CommandClient`; loss of a directory entry after
a power failure (the directory is not synced by `atomic_write`), which would need a
model of the file system; folders inside an uploaded or downloaded tree, modes and
owners of files; dialogs that hide the host-key question; the status line and the
following switch of the log viewer, which a superseded start that fails still resets.

What properties excuse is named where they are defined, and with the hazards in
`PROJECT.json`: entries of a tree that the walk of the local disk cannot read, which an
upload passes over without a word; a destination that `rename_staging` has removed and
whose replacement it then cannot rename, so that both are lost (`NeverTorn` allows an
absent destination, `RemovedForReplacement` only says what is on the server when it is
removed); a remote command that a signal ends or that sends no status, which counts as a
success; a cron edit that hits a crontab other than
the one it was made for, because somebody changed it, `crontab -l` failed
(`|| true` makes that an empty crontab) or the input was cut off by a cancel; a
rewrite of `known_hosts` beside another change of the file; sessions that connect while an
edit runs, or are open when a save fails half done. The code guards against none of them,
and no document or comment of the repository promises more; where one does, it is a finding (section 4).
