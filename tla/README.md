# XiaoWei: TLA+ verification project

XiaoWei is a desktop assistant: an Electron application over Rust crates, with
a Go account server and an iOS client. Its core is the agent service: durable
conversations whose runs call a language model and local tools, and which have
to survive failed writes, crashes, interruptions and power loss without losing
a record, repeating an effect or becoming impossible to open. Around it stand a
Gateway that connects processes, accounts with rotating credentials, and a
clipboard history and launcher. This directory models these parts, checks the
models with TLC and proves theorems about the core with TLAPS.

    tlc -workers 2 -config MCAgentRun.cfg MCAgentRun.tla  # one run
    tlapm AgentRunProofs.tla                              # one module's proofs

`PROJECT.json` lists every run with its properties, the source lines behind
every definition (`map`), the hazards of the code with the properties that
cover them, one deliberately broken variant (mutant) per checked property,
and the disagreements between code and documentation that the models showed.

## 1. Inventory

State, operations and interactions of the parts, what is hard about each, and
what makes it correct. The heading says where it is modelled.

### Session journal (`crates/xw-agent-rollout`) - `Rollout`, `DurableLog`

State: one JSONL file per conversation, a cross-process writer lock, and in
memory the entries, the committed position and whether a failed write asks for
a check (`Journal`, `WriterState`). Operations: `create_with_cwd`, `append`,
`check_after_failure`, `open_registered` with `read_and_repair`,
`claim_registered`, `SessionFiles::delete`. Called by `xw-agent` under its
session lock; shares the file with other processes. Hard: torn writes, a sync
that fails, a crash or power loss between any two system calls, a repair that
is itself interrupted. Correct when confirmed records are never lost, dropped
ones never return, and memory equals what a replay would read.

### Records and their validation (`crates/xw-agent-types`) - `Records`, `History`

State: the records of a conversation, folded into maps of runs, turns,
generations, tools and interactions. Operations: `History::push`, run before
every append and on every read; the codec, which leaves out of a line what
earlier records determine. Hard: the rules couple records that are far apart; a
record appended in the wrong order makes a conversation unreadable; a field
left out of a line that cannot be put back changes the past. Correct when no
code path produces a refused record, and every record is read as it was written.

### Agent run and recovery (`crates/xw-agent`: run_loop, execution, persistence, recovery, interactive, tool_execution) - `AgentRun`, `Tools`, `SystemContext`

State: `Session` (journal, history, requests, active run, failed run, tools,
interactions) behind one mutex, and one `drive` task per run. Operations:
start, retry, interrupt, answer, change the model; generations, tool calls,
extraction, settlement; load, recovery, unload; and what a run rebuilds from
the history before it starts: the texts a model was shown, todos, granted
paths, instructions, tools and skills. Interacts with the model host (calls
out, without the lock), tools (outside effects), the journal (appends that can
fail) and clients (concurrent calls). Hard: clients act between any two steps
of the drive task; every append can fail; a crash leaves a prefix of the
records; recovery and repair can fail too; files change under a run. Correct
when the history stays valid, effects have an intent and happen once, an input
gets one run, an acknowledged answer counts, a stopped run ends, and memory
equals what the history says.

### Session directory (`crates/xw-agent`: index, catalog, retention, service) - `SessionDirectory`

State: SQLite rows (live, archived with a revision, deleting), the loaded
sessions, an async gate, `frozen` and `deleted` marks, viewers. Operations:
create, load, list, archive, restore, delete and its resumption, viewing,
maintenance, closing. Hard: `delete_target` and `archive_session_before` wait
for a run outside the gate, which the run's end needs. Correct when at most one
of load, archive and delete wins, viewers keep a session, a deletion hits what
its caller saw and is final, and every call is answered.

### Titles, model information, events, interaction delivery (`crates/xw-agent`) - `Titles`, `Delivery`

State: title tasks per session, model query numbers, bounded observer queues,
delivery receipts. Hard: late results of superseded tasks, full queues,
repeated or late receipts, a restart between delivery and receipt. Correct when
a late result changes nothing, and an observer either sees every event in order
or learns that it missed some.

### Runtime, tools, platform - `Tools`, `Shell`, `WebTools`

`xw-agent-runtime` collects one generation and implements the built-in tools;
`xw-agent-tools-web` searches with a provider that follows the settings;
`xw-sandboxed-exec` and `xw-platform` wrap the operating system. Hard: files
that others write between a look and a write, a command whose group outlives
it, settings that change while the tools are assembled. Correct when a model is
not told something false about a file or a command, and nothing is left behind.

### Gateway (`gateway/rust`) - `Calls`, `Streams`, `Events`, `Gateway`

State: owners with exported calls, streams and events; pending calls; stream
lives; subscriptions. It connects the Electron processes and the crates. Hard:
an owner is replaced while calls run, a stream's `next` is dropped, a caller is
cleaned up during an open, a queue is full. Correct when a call ends exactly
once, a stale owner reaches nobody, and a subscriber gets what its policy says.

### Account and connection (`crates/xw-api`, `xiaowei-mobile`, desktop's native account service) - `Account`, `Connection`, `Peer`, `Mobile`, `NativeAccount`

State: credentials with a generation, one operation at a gate with a phase and
checkpoints; one maintained connection; a socket with requests, one stream's
frames and events; and the hosts' own tables. Hard: rotation against
cancellation and replacement, results of an older generation, a socket opened
for a replaced target, an abort before the operation has begun. Correct when a
rotated pair is never dropped while its target lives, no stale operation stores
over a newer session, and no credentials are used for another account.

### Server (`server/internal`, Go) - `ServerSessions`, `ServerPeer`

State: sessions and access tokens in PostgreSQL, the hub of sockets, and per
peer its streams, slots and notifications. Hard: two logins on a device,
commits whose answer is lost, notifications out of order, a logout over the
socket it ends, a stream's open that outlives its request. Correct when a
revoked session keeps no socket and no slot leaks.

### Settings, clipboard, launcher (`xw-storage`, `xw-clipboard`, `xw-bookmark`, `xw-app`, `xw-search`) - `Settings`, `Clipboard`, `Launcher`

State: settings with side effects in the system; clipboard rows with
attachment files shared by content; indexes that watchers keep. Hard: an apply
that succeeds and a save that fails; another program at the pasteboard during a
read; overlapping rescans. Correct when the system has what was saved, a row
has its file, the poll captures a version once, and an index holds what its file says.

### The rest

The Gateway's TypeScript side implements the same protocol a second time;
Electron windows and React views hold no state that the crates do not own; the
iOS views sit on `xiaowei-mobile`; contracts are generated; scripts build.

## 2. Plan and how it was carried out

Order: what a user can lose first.

| # | Modules | Contents |
|---|---------|----------|
| 1 | `Rollout`, `DurableLog` | the journal file and the abstract log it implements |
| 2 | `History`, `AgentRun` | runs, tools, questions, failures, recovery |
| 3 | `RolloutProofs` | the safety invariants of `Rollout` for all constants |
| 4 | `SessionDirectory`, `Titles`, `Delivery` | what the agent service does beside a run |
| 5 | `Records`, `Tools`, `SystemContext`, `Shell`, `WebTools` | what a record is on disk, and what tools and model rely on |
| 6 | `Calls`, `Streams`, `Events` | the Gateway |
| 7 | `Account`, `Connection`, `Peer`, `Mobile`, `NativeAccount` | the client's accounts and connections |
| 8 | `ServerSessions`, `ServerPeer` | the server |
| 9 | `Settings`, `Clipboard`, `Launcher` | the desktop's other stores |
| 10 | `AgentRunProofs` | effects, answers and inputs of a run |
| 11 | `RolloutProofs` (second part) | the journal implements `DurableLog` |
| 12 | `DirectoryProofs` | the listing, the decisions about a session, retention |
| 13 | `Gateway`, `GatewayProofs` | calls and streams together; calls, streams and subscriptions |
| 14 | `ServerProofs` | the server's sessions and peer, and the client's end of a peer |
| 15 | `ClientProofs` | account, connection, mobile client |
| 16 | `DesktopProofs` | settings, clipboard history, native account service, the processes of a command |
| 17 | `ViewProofs` | titles and model information, delivery of questions |
| 18 | `AgentRunProofs` (second part) | the run loop, recovery and the validator agree |
| 19 | `SessionTools`, `RolloutProofs`, `DesktopProofs` (last parts) | what tools, search and model remember; the launcher's indexes |

Composition. `AgentRun` extends `History`: the drive task appends, the
validator judges. It takes from `Rollout` what that proves of a failed append:
the entries before it are committed, the failed one is in doubt until a check
or an open decides. `SessionDirectory` uses `AgentRun`'s run and `Titles`' task
as tokens with a start, an end and a cancellation. `Gateway` puts `Calls`,
`Streams` and `Events` together, which have their owners' lives in common, and
states what no part of it may do (`NoLate`). `NativeAccount` and `Mobile`
use `Account`'s operation as something that rotates pairs and ends. The MC
modules put parts that share no state side by side: a behaviour is that of one
part, chosen at `Init`, so a run explores each of them fully and never their
product.

Abstract specification: `DurableLog`, which `Rollout` implements (property
`ImplementsLog`). No module uses a RECURSIVE operator; what a run
finds in its history is a recursive function over the entries (`Hydrated`,
`Learned`).

## 3. The modules and the code

### `Rollout`

One session, any number of `Writers` (processes, or sessions of one process).

| Variable | Code |
|----------|------|
| `page`, `disk` | the file as processes see it and as the device holds it: complete lines and a torn tail |
| `seen`, `kept` | the directory entry, visible and durable |
| `holder` | the OS lock behind `WriterLock` |
| `phase`, `entries`, `pending` | the `Journal` (or `SessionFiles`) of a writer: where it is between two system calls, `Journal.entries`, the record it works on |
| `setup` | the handle is still inside `create_with_cwd` |
| `row` | the SQLite row, and the time before and after it |
| `confirmed`, `discarded`, `refused` | history variables |

Actions follow the system calls, because a crash can come between any two:
`Create`, then twice `BeginAppend`, `WriteRecord`, `WriteNewline`,
`CommitAppend`, then `FinishCreate` and `Register` are `create_session`;
`FailAppend`, `CheckTruncate`, `CheckFinish`, `CheckFail` the path of a failed
write; `Open` and `RepairFinish` a cold open; `Claim`, `MarkDeleting`,
`RemoveFile`, `SyncRemoval`, `AlreadyRemoved` a deletion and its resumption.
`Release` is a dropped journal or a dead process. The environment writes the
file or the directory back at any time (`WritebackFile`, `WritebackName`) and
loses power (`PowerLoss`).

Abstractions: a record is its entry identity (unique by `EntryId::new`). A
torn record is known to be torn, since the newline is missing. Write-back copies
the whole file; a device that persists a later part of the file without an
earlier one is outside the model, as it is outside what the code defends
against. A workspace directory next to the file is left out.

### `DurableLog`

The contract of a journal: an append-only sequence of confirmed records, a set
of records in doubt, and an owner who always sees the confirmed records
followed by records in doubt. `Offer` puts a record in doubt; `Decide`
confirms some, rules out some, and may change the owner. `Rollout` maps onto
it by `Log == INSTANCE DurableLog WITH ...`, where the doubt is what is in a
file or in hand and is neither confirmed nor discarded.

### `History`

`Accepts(h, e)` is `History::push`: one rule per kind of record, with the
conditions that look at other records. A history is a set, since the rules ask
which records exist and not where they stand; the counting rules (turn
ordinals, call and generation limits) count records. An id `<<run, turn,
call>>` stands for the uuids: the code makes one conversation generation per
turn, one interaction and one extraction per call. `Settlement` is
`settle_with_tools`: the list of records that recovery appends. The arms for
compaction, continued runs and interaction preemption are left out: nothing in
the repository appends those records.

### `AgentRun`

| Variable | Code |
|----------|------|
| `log`, `doubt`, `check` | the journal: committed history, the record whose append failed, `WriterState::NeedsCheck` |
| `loaded`, `installed` | the session is in `State.sessions`; its tools hold WebFetch |
| `active`, `cancelled`, `failed` | `Session.active`, its token, `Session.failed_run` |
| `requests`, `unclosed`, `view` | `Session.requests`, what `has_unclosed_calls` would find in `Session.history`, the run statuses shown |
| `step`, `at`, `result`, `question` | the program counter of `drive` |
| `runs`, `faults` | bounded counters |
| `refused`, `effects`, `replies`, `answered` | history variables |

A section that the code executes under the state lock is one action, and its
appends fail at any of them (`Break`): the ones before are committed, the
failed one is in doubt. `Start` is `accept_run` with `record_start`, `Retry`
its answer to a known input, `Prepare` its `prepare_writer` (also reached from
`set_session_config` and the titles; it stands alone because a call that
prepares may be refused right after). `EndGeneration` is the stream loop and
`record_generation`; `CommitIntent`, `Refuse`, `RunBash`, `RunLocal`,
`BeginExtraction`, `EndExtraction`, `Ask`, `Answered`, `Expire`, `Respond`,
`CommitResult` the tool loop; `EndTurn`, `NextTurn`, `EndRun`, `Leave` the end
of a turn and of a run; `Configure` a model change whose record fails;
`Unload`, `Crash`, `Load` the life of the session in memory. `Load` is the
open, the settlement and the projection: the session is inserted only when all
succeeded.

Abstractions: five tools stand for the kinds the code tells apart. Bash is the
one with an outside effect and no way to recover it (the file tools are like
it), WebFetch an extension with a helper generation and the recovery policy
CancelPending, AskUserQuestion waits for a client (RequestPermission is like
it), TodoWrite and Skill work on the session, and Skill makes the context
change. A generation's stream is its outcome; the mark of its first event is
left out, because no rule but its own reads it and an append that fails there
fails the run as one does at the message. Exceeding the display budget ends a
generation as Failed like too many calls does, and exceeding the history budget
ends the turn as Failed (`EndTurn` may choose it). A model change that is
recorded changes nothing else here and is no step.

### `Records`, `Tools`, `SystemContext`, `SessionTools`

`Records` has a record as a function on all field names, `Nil` where it has no
such field. `Accepts` is `validate_entry` with `History::push`, `Encode` and
`Decode` the compact line of `format.rs`; `AppendRecord` is `append_entry`: the
entry kept in memory is what the reader of its line sees. The operators
`Inputs`, `Runs`, `Gens` ... propose every record the agent would write next,
and `Changed` any of them with one field changed, which the validator must
refuse or the codec must carry. Fields the validator does not tie (`Measured`:
counts and a summary) are replaced by the reader's own values.

`Tools` follows the file tools, TodoWrite and RequestPermission: `tree` is the
file system, `said` the committed history, `doubt` an entry whose append failed,
and `reads`, `todos`, `grants` what `FileTools` and `TodoWrite` remember.
`StartRun` rebuilds these from the history; `Read` ... `Commit` are the calls,
with the look at a file and the write to it two actions that `OtherWrites` may
come between. `RecoverSession` is the repair with its settlement.

`SystemContext` has the difference of instructions and tools that `context_sync`
records (`Plan`, `Apply`), and the skills: `TakeSnapshot` before a run,
`ReplyWith` the model's loads, `LoadSkill` their results, `Synchronize` the
update that carries the bodies, and crashes between any two. `SessionTools` puts
`Tools`, `WebTools` and `SystemContext` side by side: what a session's runs remember.

### `SessionDirectory`

| Variable | Code |
|----------|------|
| `row`, `revision`, `touched`, `file`, `activity` | the SQLite row of a session, its journal |
| `loaded`, `frozen`, `dirty`, `creations`, `viewers`, `service` | `State` of the service and `Session`'s marks |
| `work` | a session's background tasks: run, flush, title |
| `gate`, `claim` | `IndexAccess.gate`; the file of a cold session, held by `SessionFiles` |
| `op` | for every caller the operation it is in and where it waits |
| `timer`, `due`, `pass` | the maintenance task |

A section under the gate is one action, unless something that does not take the
gate can change what its later half relies on; archiving and deletion are
therefore several (`settling`, `marked`, `forgotten`, `cleaned`).

### `Titles`, `Delivery`

`Titles`: `view` and `row` are the title and model columns in memory and in
SQLite, `tasks` and `query` the two kinds of late answers, `op` a title update
between its check and its commit, `watch` an observer's bounded queue with what
its client was told. `Delivery`: `listed` are the observers with the retired
ones, numbered in the order they came, `stream` each observer's receipts and
what it was shown;
`Look`, `Notified`, `Heartbeat` are `next`, `Acknowledge` a receipt at any later
time, `Restart` a new instance of the service.

### `Calls`, `Streams`, `Events`, `Gateway`

`Calls`: `call[k]` is the handle (`Rpc` or a native session) with its work,
`handler[k]` the handler nobody aborts; `Begin`/`Prepare`, `Start`, `Stop`,
`Check`, `Conclude`, `Complete` are the steps of `invoke`, `CleanupCalls`,
`Replace`, `Unregister`, `Shutdown` what happens around it. `Streams`:
`stream[s]` is the admission, the `Life` and the actor, `next[s][n]` a call of
next. `Events`: `queue[i]` is a `DeliveryQueue`, `sub[i]` the subscription with
its generation and lent callbacks, `attempt` and `replay` the activations that
await a transport. The native wrapper of a stream and the registry's stream
are one layer here.

### `Account`, `Connection`, `Peer`, `Mobile`, `NativeAccount`

`Account` is `SessionCore`: `core` its state, `pending` the operation with its
phase, `gate`, and per operation (`op`) the drive's copies. `Call`, `Begin`,
`Resume` and `Enter` are the host's calls and the next phase, `Issue` and
`Answer` the two ends of a request, `Settle` the end of a drive,
`ActivateTarget`, `SuspendCore`, `CloseCore` the host's other calls. A pair of
tokens is the number of its issue. Hosts resume the operation they have pending
and no other, as both hosts of the repository do. `Connection`: `task[g]` is
`maintain` of generation g, `call` a `Client::invoke` that chooses its
transport, `wait` an `authenticate`. `Peer` is the socket's table of requests,
one `ResponseStream` and served events. `Mobile` is `MobileClient` with its
lifecycle lock, `NativeAccount` the addon's service with the host's loop around
it, whose `Reply` may or may not rotate.

### `ServerSessions`, `ServerPeer`

`ServerSessions`: `session` and `live` are the tables, `login[l]` a login
transaction (`Lock`, `Replace`, `CommitLogin`, `NotifyLogin`), `told` the
notifications still to run, `socket` the hub with the periodic check and a
logout over the socket, `unsure` commits whose answer was lost. `ServerPeer`:
`streams[x]` is an open with its factory, its slot and its producer, `cancel[x]`
the request that cancels it, `sub[y]` a subscription's queue and worker.

### `Settings`, `Clipboard`, `Launcher`, `Shell`, `WebTools`

`Settings`: `update` is the change that holds the lock (apply, save, publish, or
undo), `slot`, `watch` and `fresh` the way of a snapshot to the clipboard's
worker. `Clipboard`: `board` is the pasteboard with its change count, `rows`
and `files` the store, `op` what holds the lock; another program writes the
board at any moment. `Launcher`: per source of bookmarks and per directory of
applications what is on disk, what the watchers were told, what was loaded and
the index made of it; `Search` is the ranking. `Shell`: the command, its group
and the phases of its end. `WebTools`: the task that follows the search
settings, from the assembly of the agent to its end.

## 4. Runs

| Run | Bounds | Distinct states | Shows |
|-----|--------|-----------------|-------|
| `rollout` | journal: 2 writers, 5 entries; records: 13, of 2 turns with 2 generations, 1 after a changed one; tools: 2 files, 6 entries; shell: 3 forks; web: 4 changes; skills: 2, 6 entries, 2 edits | 1,152,481 | `TypeOK` (with the lock), `ConfirmedSurvives`, `LiveEqualsReplay`, `DiscardedStaysOut`, `ImplementsLog`; `RoundTrip`; `ToolsKept`; `ShellKept` |
| `agent_run` | 1 run, 2 calls, 3 turns, 2 faults, all tools, with fairness | 376,215 | `TypeOK`, `NeverRefused`, `Settled`, `EffectsIntended`, `AnswersHold`, `InterruptEnds` |
| `agent_run_retry` | 2 inputs (symmetric), 2 runs, 1 call, 2 faults | 664,548 | `ViewIsReplay`, `OneRunPerInput` |
| `directory` | 1 session, 2 clients and maintenance, 2 calls, 1 pass, 1 fault, with fairness | 223,053 | `ListingKept`, `OneDecides`, `RetentionKept`, `Answered` |
| `views` | titles: 2 tasks, 1 client, 1 observer with a queue of 2, 2 runs, 1 fault; delivery: 3 observers of 2 clients, 2 questions, 1 restart | 2,429,116 | `ViewsKept`, `TitlesKept`; `DeliveryKept`, `NewestRetained` |
| `desktop` | 2 calls, 2 streams, 4 subscriptions, 2 owners and transports; 3 settings changes; 3 contents, 2 versions, 2 calls, 1 failure; 2 bookmark files, 2 directories; 2 operations | 1,218,677 | `CallsKept`, `StreamsKept`, `SubscriptionsKept`, `NoLate`; `SettingsKept`; `HistoryKept`, `HistoryTrue`; `LauncherKept`; `NativeKept` |
| `clients` | 2 operations, 2 targets, 3 pairs; 2 connection generations; 2 works, 2 changes; 4 requests; 2 logins, 2 sockets; 2 streams, 3 subscriptions | 1,489,483 | `AccountKept`, `Recovers`; `CredentialsKept`; `OwnersSettled`; `PeerKept`; `SessionsKept`; `ServerPeerKept` |
| `rollout_promoted`, `rollout_forgotten`, `agent_run_tools`, `gateway_cleanup`, `server_login` | small | - | five disagreements with the documentation, below |

What the properties say is stated above each of them in its module. Some are
conjunctions: `ToolsKept` is `SessionToolsKept`, `ProviderKept` and
`ContextKept`, `NoLate` the same promise for calls and for streams.

Why the bounds are enough. In `Rollout` two records are the setup of a session;
three more give a confirmed one, one whose append fails and one written after
the repair, which is the longest dependency the properties speak of, and the
lock leaves a second writer no more to do than a third would. The proofs then
remove these bounds. In `AgentRun` two faults are a failure and a failure of the
recovery from it; two calls give a reply with several calls, a run that goes on
to a further turn, and one that exceeds its limit (in the code 50 calls and 51
generations: `MaxCalls` and one more); a second run is needed only where a
property relates inputs or runs, and `agent_run_retry` has it. With
`MCNothing`, a generation that does not complete leaves no partial message;
`agent_run` covers both. In `Records` thirteen records are a run of two turns
with a call and its continuation; a changed record (`MaxAfter`) is looked at
with one record after it, because a record read wrongly that the next one does
not notice is already a violation. In the other modules the actors are two of a
kind where the property is about who wins, limits of queues and pools are one
or two so that they are reached, and a third counts where the code keeps a
list: three observers with room for one, three events for a queue of two. In
`Launcher` the first file and directory contents are fixed (the second
directory is missing at first) and two moves change them (`MaxMoves`).

`MCBound` in `MCClients` is a constraint: it leaves out behaviours in which a
second login and a second socket, or streams and notifications, or a caller
that waits for the connection and a call, are there at once, or an account that
was activated twice is stopped as well. `MCDBound` in `MCDesktop` leaves out two
native calls at once and behaviours of the clipboard that use up two versions,
two calls and the failure. Each of these meets the rest of its module alone;
what would be reached only through such a state is not explored.
No view and no replaced definition is used; symmetry only in `agent_run_retry`,
whose properties are invariants and treat inputs alike. Deadlock is checked in
the runs of `AgentRun` and `SessionDirectory`, and in those of `Rollout` alone;
in the other runs there are parts that stand still when everything was closed
or every id was used.

Fairness. `AgentRun`'s `FairSpec`: `WF(cancelled /\ (Generation \/ Call))`: once
its token is cancelled, the task's `select!` sees it, a generation and a tool
end, and a pending question expires, so the drive task continues. Nothing is
assumed of a model that streams for ever or a question nobody answers while the
run is not cancelled. `WF(Ending)`: the settlement of turns and runs is
straight-line code of a scheduled task. Clients, faults, loads and crashes are
not fair. `SessionDirectory`'s `Progress`: while the task of a caller, a
cancelled run, a flush, a title task or a pass of maintenance can move, one of
them does; runs that nobody cancelled, clients and the clock are not fair.

### What the violated runs show

1. `RefusedIsNotPromoted`: a comment in `check_after_failure` says that a
   complete line whose sync failed must not be promoted by reopening. The check
   does not; but a journal that is dropped in NeedsCheck and opened again does
   just that, since a cold open takes complete lines as they are. `AgentRun`
   takes this into account: `Load` may or may not find the record in doubt,
   and the properties hold either way.
2. `ForgottenIsErased`: a resumed deletion that finds no file does not sync the
   directory before it removes the row.
3. `agent_run_tools`: recovery closes the open calls of the tools that are
   assembled now. If an earlier recovery, without the tool, has ended the turn
   of such a call, the record is refused and the session cannot be opened.
   `agent_run` and `agent_run_retry` fix the assembled tools (`MCAlways`),
   which is why `NeverRefused` holds there.
4. `gateway_cleanup`: `open_stream` adds a stream to the tracked ones after its
   handler has returned. The cleanup of its caller between the two finds
   nothing to end, and the stream stays. `Calls` has the same window
   (docs/gateway.md:39).
5. `server_login`: the notification of a device's older login, run late, closes
   the socket of the newer session, which is active, with UNAUTHORIZED.

### What the models showed beside that

Seen while modelling, each kept in the model as the code has it. Where a
property would not hold because of one, the property's comment or a history
variable named here makes the exception.

- Gateway: a remote event consumer that is activated twice can stay bound to a
  transport that delivers nothing to it (event.rs:528-572); a dropped `next`
  releases `busy` before it cancels (stream.rs:128-137); when the manifest of a
  native stream cannot be read, its session stays registered
  (napi/streams.rs:127).
- Account: a resume with a stale id completes another operation's phase, which
  no host does; after a suspension `settled_outcome` may return the older pair;
  the saved entry of the selected server is dropped when a session is
  persisted while none is current; a cancelled login whose rollback cannot be
  saved leaves the revoked session on disk; once `close` has taken the
  operations map, an abort no longer finds its operation (mod.rs:160).
- Connection: `maintain` returns without publishing when the server's name
  cannot be normalised; `authenticate` reads the generation after `set_target`;
  a response stream prefers its terminal state over a chunk already answered.
- Server: the open context of a stream is cancelled only with the connection
  (peer.go:250-252); `stream.cancel` just before the stream is installed answers
  success and the stream stays (peer.go:279-305, excepted via `stop`); a login
  or logout whose commit answer is lost sends no notification (`unsure`).
- Clipboard: a deletion whose cleanup query fails after the rows went does not
  reset the last hash (`halfway`); a deletion between our own copy and the next
  poll lets our write be captured again.
- Settings: a caller that goes away during an apply cancels the outbound calls
  of the rollback too (`astray`). Launcher: a change between the first load and
  the watch is missed (`suspect`), and an older rescan may overwrite a newer one
  (`doubtful`). WebTools: a failed refresh waits for the next settings event
  (`missed`).
- Tools: a file whose own text says "content unchanged since last read" is
  skipped when reads are rebuilt (filesystem.rs:138); a file that vanished and
  was written again with the same text reads as unchanged within a run, and in
  full after a restart; Edit and Write overwrite what another program wrote
  after they looked; a failed write may leave the file empty. Bash: a group of
  zombies only may refuse a signal, which reports a finished command as unknown
  (bash/mod.rs:116).
- Skills: a crash between a reply and the intent of one of its calls leaves that
  call without result, and `has_unclosed_calls` then refuses every further run.

## 5. Proofs

| Module | Theorem | Statement |
|--------|---------|-----------|
| `RolloutProofs` | `Inductive` | `Spec => []IndInv` |
| | `TypeCorrect`, `Survives`, `Replay`, `StaysOut` | `TypeOK`, `ConfirmedSurvives`, `LiveEqualsReplay`, `DiscardedStaysOut` always hold |
| | `RecordedOnce` | no file ever holds a record twice (`OnceOK`) |
| | `Implements` | `Spec => ImplementsLog`: the journal implements `DurableLog` |
| | `GrantsAreFollowed`, `ToolsRemember` | `GrantsFollow` and the whole `SessionToolsKept` of `Tools` always hold |
| | `SearchFollows`, `ContextStays` | `ProviderKept` of `WebTools` and `ContextKept` of `SystemContext` always hold |
| | `ToolsAreKept` | the three specifications imply that `ToolsKept` always holds |
| `AgentRunProofs` | `RunInductive` | `Spec => []RunInv` |
| | `Intended`, `AnswersStand`, `OneRun` | `EffectsIntended`, `AnswersHold`, `OneRunPerInput` always hold |
| | `SafeInductive` | `OneInstall` implies `Spec => []SafeInv` |
| | `Unrefused`, `RestIsSettled`, `ReplaysAgree` | under `OneInstall`: `NeverRefused`, `Settled`, `ViewIsReplay` always hold |
| | `SettlementGood` | what recovery appends is accepted and ends every run, from any history that can be recovered |
| `DirectoryProofs` | `ListingIsKept`, `OneAlwaysDecides` | `ListingKept`, `OneDecides` always hold |
| | `RetentionIsKept` | the action property `RetentionKept` |
| `GatewayProofs` | `CallsAreKept`, `StreamsAreKept`, `SubscriptionsAreKept` | `CallsKept`, `StreamsKept`, `SubscriptionsKept` always hold |
| | `NoLateResultIsTaken`, `NoLateChunkIsMade`, `NothingIsLate` | the action properties of calls, of streams, and `NoLate` of both |
| `ServerProofs` | `SessionsAreKept`, `ServerPeerIsKept`, `PeerIsKept` | `SessionsKept`, `ServerPeerKept`, and `PeerKept` of the client's end |
| `ClientProofs` | `AccountIsKept`, `SessionRecovers` | `AccountKept`, `Recovers` always hold |
| | `CredentialsAreKept`, `OwnersAreSettled` | `CredentialsKept`, `OwnersSettled` always hold |
| `DesktopProofs` | `SettingsReachTheListener`, `HistoryIsKept`, `NativeServiceIsKept` | `SettingsKept`, `HistoryKept`, `NativeKept` always hold |
| | `HistoryIsTrue` | the action property `HistoryTrue` |
| | `NobodyIsLeft` | `ShellKept` always holds |
| | `IndexesAreKept` | `IndexIsRaw`, `IndexIsFresh`, `NothingVanishes`, three parts of `LauncherKept`, always hold |
| `ViewProofs` | `WhatIsShown`, `QuestionsReach`, `ReceiptsAreFound` | `ViewsKept`, `DeliveryKept`, `NewestRetained` always hold |
| | `LateAnswersStay` | the action property `TitlesKept` |

Every theorem is about all values of the constants, from the assumptions that
the module declares and TLC evaluates. These say no more than what a constant
is: a bound is a natural number, a limit of the code is one above zero, two
kinds of names are apart. The five theorems marked `OneInstall` have one more
hypothesis, explained below: a session has the same tools at every load. In each module the argument is one inductive
invariant, a lemma that it holds at first, a lemma per action or group of
actions that leave the same things alone, and the theorem that puts these
together. An invariant that a run checks is seldom inductive, so what follows
says what had to be added, which is what the code relies on without saying so.

**Rollout**, for any set `Writers` and any `MaxEntries`, from the two assumptions
of the module (`WriterAssumption`: the value for a free lock is no writer;
`BoundAssumption`: the bound is a natural number). `LiveEqualsReplay` says
something of a Ready journal only, but whether a check restores it depends on
what the file looks like in every other phase: `HandleOK` gives, per phase, how
the file stands to the entries of the handle. That a truncation cuts off exactly
the failed record needs `PendingOK` (the identity in hand is fresh and in no
entry) and `FileOK` (identities in a file were handed out and none was
discarded; the tail is none of the lines), which also gives `StaysOut`. That
confirmed records survive a power loss needs `ConfirmedOK`, for the device
too, and `StageOK` and `RowOK`, which say how far creation has come when a row
may exist. `TypeOK` contains the lock: all handles but one are closed, so each
step has one handle to argue about (`Facts`, `Others`, `Dropped`). There is one
lemma per action; `NextInv` puts them together. `Begins` restates `IsPrefix`
element by element for the arithmetic prover, and `Prefix` leads back to it.
All file values are records of one shape (lines and tail), because sequence and
record axioms of several shapes do not go together well in the SMT encoding.

**The refinement** of `DurableLog` goes by what is in doubt. `Pool` is the set of
identities that a file, its image or a handle holds; the abstract doubt is the
pool without what is confirmed or discarded. `BeginAppend` adds the fresh
identity, which is the abstract `Offer` (`Offered`). Every other step adds
nothing to the pool and leaves the confirmed records or makes them the lines of
the file (`StepDecides`), so it is a `Decide` or a stutter (`Decided`). That a
decision confirms only what was in doubt needs that no record is in a file twice
(`OnceOK`): without it the second copy of a confirmed record would be a line
behind the confirmed ones. `ViewHolds` is the last part: the entries of an owner
lead the file (`ShownLeads`), so what it shows behind the confirmed records is
in doubt (`LineInDoubt`).

**AgentRun**, for any inputs, replies, tools, limits and faults. An effect, an
answer and a run are each tied to one entry of the journal, and what could go
wrong is that a step makes a second one, or that one is lost in a failed append
or a settlement. So `RunInv` says where the drive task stands (`Placed`), that
entries, in the file or in doubt, belong to runs begun (`Filed`), and that the
task goes through turns and calls in their order: what has an outcome lies
behind it (`Done`), what has an effect or an answer is behind it or is the call
it is at (`Begun`). `Asked` adds that an answered call has its answer on record
and only the outcome Completed; `Ran` that a call with an effect has its intent
and one effect. `Caught` says that a session that may append knows every input
in its journal and has nothing in doubt, from which `Single`: no input has two
runs, counting the one in doubt. `Closes` and `Settles` say what recovery
appends, for all its variants: nothing for a run that did not begin, and
Completed for an answered call. Every append is `Grown` by a set of entries, of
which any prefix is committed and the next is in doubt, so a lemma per action
shows what its entries are, and `Drives`, `DrivesOne`, `Stays`, `Recovers` do
the rest. The settlement is written without operator parameters (`Closing` takes
the word of each id as a function), so that the prover can read it.

**AgentRun and its validator.** `NeverRefused` is about two pieces of code that
were written apart: what the run loop and recovery append, and what the
validator accepts. It is false as it stands, and the run `agent_run_tools` shows
why: a tool that is taken away and comes back makes recovery close a call of a
turn that has ended. `OneInstall`, the same tools at every load, is what that
finding asks for, and under it the three theorems hold for any inputs, plans,
interrupted messages and faults. The argument has three layers, and the first two are
about histories alone, sets of entries, without a state:

- *Histories that can be recovered.* `Sound` says what the validator and recovery
  rely on. What is open lies in something open, as far as recovery has to close
  it (`Nested`: a turn in its run, a question and a call that recovery may close
  in their turn); a call was asked for by its name in a complete reply
  (`Called`); an open run has not used up more than its budget (`Budgeted`); and
  nothing is ended, said or consumed that was not begun or accepted before
  (`Paired`, `Sourced`). `Extends` shows that whatever the validator accepts
  keeps this, but for what only recovery appends; the validator's counts become
  facts about cardinalities. Recovery closes from the inside out, in five
  phases, each on what the one before left (`PhaseInteractions` to `PhaseRuns`),
  and none of it is refused (`SettlementGood`). `Good` is acceptance of a
  sequence entry by entry with a `Sound` history after each, so that a crash or
  a failed append between two of them leaves one too; `GoodThen` puts sequences
  together.
- *Where the task stands.* `PointAt` says per step of the drive task what its
  history looks like: which turn, generation and call are open and that the rest
  of the turn is as the step found it. One lemma per step (`HistIntent`,
  `HistOutcome`, `HistMessage`, `HistEndTurn` and so on) shows that the entry it
  appends is accepted there and leads to the point of the next step.
- *The session.* `SafeInv` adds to `RunInv` that the file is `Sound` with and
  without its doubtful entry (`Sane`), that the task stands at its point unless
  the journal must be checked first (`Point`), and that inputs, calls without a
  result and ends of runs in memory are those of the journal (`Shown`, `Seen`,
  `Ongoing`), with the exceptions for the run under way and the one whose end
  could not be written. There is one lemma per action; starting a run takes two,
  as it settles a failed run first.

TLC checked `SafeInv` on the instances of `agent_run` and `agent_run_retry` before
it was proved.

**SessionDirectory**, for any sessions, clients and limits (`CallersAssumption`:
maintenance is no client, nobody is neither). The three properties rest on what
the gate, the claim and the frozen mark protect between two sections of a call.
`GateIsHeld` says who has the gate; `ClaimIsUsed` that a claim is of a cold
session by the decision about it; `SessionIsHeld` that a decision that waits
outside the gate has its session frozen or claimed; `DecisionStands` that a
deletion takes memory, file and row in this order. `MemoryIsBacked` and
`RowIsBacked` are `ListingKept` with the exceptions for the call that holds the
gate (a session being created or deleted), and `FoundIdle` says that what a pass
of maintenance found idle in memory stays so until it is archived, which is what
retention needs. Steps that decide nothing are settled by one lemma (`Quiet`),
those of a decision by `DecisionStep` and `DecisionRest`, and the closing, the
crash and the open of the service by `EmptyService`.

**Gateway.** Calls: per call `HandlerPlaced`, `ToldOnceLeft` and `FirstOutcome`
(a handle is pending exactly until its first outcome), and for all of them
`Admission`: the handlers at work for an instance are finitely many and no more
than its permits, by the cardinality lemmas of the library. Streams: `RequestSent`
and `LateNeverTaken` (a dropped `next` has cancelled its stream, and what it
asked for is not taken after), `NoneWaits`, `Bound` and `Admissions`. Events:
`QueueOK` is the promise of each policy for the whole way of an event, what was
taken, what is at work and what is queued; `FromPresent` that nothing is held of
a source or transport that is gone; `RemoteOK` and `AttemptOK` tie a consumer's
lease to its newest generation. The two action properties follow from the
invariants of the step's first state.

**Server and peer.** Sessions: a login is the only one at its device's row
and knows what it replaces (`LoginsHold`); an open socket of a revoked session is
told, will be, or the commit's answer was lost (`Told`), which every step of a
login, a logout, a check and a registration preserves for a reason of its own.
The server's peer: a slot is counted as long as factory, source or producer is
there (`StreamOk`, `Slots`), a finished stream has its end sent (`StreamEnds`), and a
subscription's received, sent and queued events together are what its policy
promises (`Ordered`, `Newest`). The client's end: a request is in the table
exactly while it has no answer, is sent only after it was entered, and is left
behind only with a word to the server (`AskedOK`); `StreamOK` and `FrameOK` do
the same for the stream whose end may overtake the answer of its opening.

**Clients.** Account: `OpHolds` says for each operation where it waits (`OpWaits`),
that who has the gate drives what is pending unless its target was replaced
(`Drives`), that it holds its own target's session and owes its host no pair
(`Owes`), and that a forced refresh comes once (`Forces`) and never after one it
waited for (`Merges`); `Spent` classifies the phases for the last two. Connection:
`Published` ties the snapshot and the peer to the task of the current generation,
`TaskOk` a socket to the steps that close it, `InvocationOk` a call to a peer of
its own key. Mobile: `OneOwned` (one operation is started and not released, the
client's or the change's), `ChangeHolds` (the change that has the lock waits for
whatever it does not keep) and `QuietHolds`.

**Desktop.** Settings: `SystemFollows` says at each step of a change what the
system has, `EventsFollow` and `WorkerFollows` that the newest word on the way
to the worker is what is saved; `SettingsKept` is this where nothing is under
way. Clipboard: `WorkIsSound` and `ReadIsTrue` are about what the lock's holder
carries, enough for `HistoryKept`; `HistoryTrue` also needs what the poll
remembers: `TakenBefore`, a version at work is newer than all captured ones,
`LastIsThere`, the remembered hash is an item's, and `OursIsLast`. The native
service: `PairOffered` (the host has the core's pair or awaits it), `AbortStops`
and `DrainQuiets`; and `ContextHeld`, a request keeps the account it was issued
for unless the service ends.

**Launcher**, for any files, directories and what they hold (`DirsAssumption`:
there is a directory). An index is made of a list that was read piece by piece
while others change the files, so the invariants say what has been read so far:
`ReadTrue`, of a loading nothing came between, what the files read before hold;
`ScanTrue` the same of each scan, directory by directory; `LeftTrue` and
`FoundTrue` what the lists are afterwards, unless a change is still to be read.
`MadeTrue` and `AppsTrue` are about who indexes last: an index that is made is of
the newest list, and so is the one in place, unless another is being made.

**Permissions and search.** `GrantsFollow` reads the history backwards: a result
that permits belongs to the last call, and `Story` says that such an entry only
came when the user's answer for the path of that call was on record
(`MayFollow`), which appends keep (`StoryGrows`) because permissions on record
only grow (`GrantsGrow`). `Working` ties the call under way to the last call of
the history (`LastCall`), and `Recorded` says so of the entry in doubt too, as
recovery may take it or not. For the search provider, `SettingsFollowed` says at
each step of the start and of the task that what was read is what is stored,
unless word of a change is still on its way (`Fresh`).

**What tools and model remember.** Executors and context are rebuilt by reading
the history entry by entry, so the arguments go along it. `Induction` gives
induction over the naturals: of a set with zero and all successors, the members
below one that were missing would be mapped one to one, and so onto, themselves
without zero. `HydratedSteps` and `LearnedSteps` use it to unfold the two
recursive functions by an entry. For the tools, `Newest` is the text that was last shown
of a range, `Account` says that every result fits the entries before it, and
`Knows` that what has been read off so far is the newest of each range;
`MemoryInv` adds the call at work, whose effect on the executor comes before its
entry (`JustRead`, `JustListed`), and the entry in doubt. For the model's
context, `Sound` says that every recorded update applies, that the names
counting as loaded are in the catalog, and that what was taught is among them or
was not offered since; `MayBeTold` is what an entry must satisfy to keep that
(`SoundGrows`), `PlanApplies` that a recorded difference leads to what it was
made from, and `InForce` ties the context in memory to the record and to the
snapshot of the run, but for the update still due after a load.

**Shell**, for any number of forks, with no assumption: `ShellInv` says at each
point of the tool's end what may still run and whether it was sent SIGKILL.

**Titles and delivery.** `SessionInv` says of each update of a title between its
check and its commit who holds the gate (`OpsHeld`), that it was made from the
view as it still is and raises the revision if it changes anything
(`UpdatesStand`), and what the row has meanwhile (`RowStands`): what the view has,
what is about to be committed, or, after a failed write, what it had. That is
`RowIsView` where the gate is free, and `TitlesKept` for the commit. `WatchInv`
follows an observer's queue event by event: of each field, the last event in the
queue that carries it, or else the client's copy, has what the session shows,
and whatever changes a field publishes an event with it. For delivery,
`DeliveryInv` says that one question at a time is pending, that whatever was shown
has been asked, and that only the last delivery can be of the pending question;
its receipt is still there because the limit of receipts is not zero, so nothing
is shown twice. `NewestRetained` goes by the cardinality of the closed observers
that are later than a forgotten one.

Only model-checked, and why:

- Liveness under fairness (`InterruptEnds`, `Answered`): the prover has no rule
  for ENABLED.
- `TypeOK` of `AgentRun`: `Placed`, `Filed` and `Sane` give the shapes of its
  variables; that ids stay within the bounds and inputs are those of the model
  is not proved.
- `NeverRefused`, `Settled` and `ViewIsReplay` where the tools of a session change
  between loads: the first is false (`agent_run_tools`).
- `RoundTrip` of `Records` is a statement about records of fourteen shapes that
  the provers do not tell apart in reasonable time, and its inputs are
  proposals that grow with the history.
- Of `LauncherKept`, `UseHelps`: it is about the order that the community modules'
  `SetToSortSeq` chooses, which is not open to proof.
- The properties of the runs that expect a violation are false.

What the two recursive functions over a history compute is proved for the
histories that can occur, by induction on the entry (`RunKnows`, `SoundGrows`).

## 6. Not modelled

See the components with status `not_modelled` or `partly` in `PROJECT.json`,
each with its reason. In short: the text of messages and prompts, budgets other
than the call limit, display items and deltas; continued runs, preempting and
cancelled inputs (nothing in the repository appends those records); streaming
and provider formats, HTTP bodies, wire encoding; Glob, Grep and the sandbox
profile; scoring of texts, the tokenizer and file search, which are pure
functions; migrations; passwords and rate limits; wall-clock time; the
TypeScript Gateway, the renderer and the iOS views.
