# Verification of OpenXTerm

OpenXTerm is a desktop terminal: a Tauri back end in Rust
(`src/src-tauri/src`) runs SSH, Telnet, serial and local shell sessions, SFTP
and FTP transfers, a status poller and an X11 proxy; a React front end
(`src/src`) keeps tabs, saved sessions and the rows of the transfer window.
This directory holds TLA+ modules of its concurrent parts, TLC configurations
that check them on small instances, and theorems that TLAPS proves for every
value of the constants.

`PROJECT.json` lists the components, the runs, the source lines each definition
stands for, the hazards of the code and the theorems. Paths below are relative
to the repository.

## 1. The system

### Components

| Component | Source | State | Operations |
|---|---|---|---|
| Embedded SSH terminal | `src-tauri/src/runtime.rs`, `runtime/ssh/interactive*.rs`, `runtime/ssh/auth.rs` | registry of terminals by tab id, wanted sizes, credential store, a controller and a stop flag per run | start, input (prompts), resize, stop, connection attempt, reader, finalize |
| SSH connection setup | `runtime/ssh/session.rs`, `ppk.rs`, `guidance.rs` | none beyond the connection | connect, authenticate, classify errors |
| Host-key verification | `runtime/ssh/host_key.rs`, `App.tsx` | known_hosts file, keys accepted once, a lock per endpoint, pending requests, queue of prompts | check, prompt, answer, time out, abort, store |
| Transfer engine | `transfer/mod.rs`, `state.rs`, `lifecycle.rs`, `upload.rs`, `download.rs` | cancel marks, retry data, files | upload, download, drag, cancel, retry, clean up |
| Transfer queue of the window | `lib/transferQueue.ts`, `lib/transferBatch.ts`, `state/openXTermStoreTransfers.ts`, `TransferWindowPage.tsx` | rows, batch records, snapshot in local storage | merge events, flush, cancel, retry, clear |
| Remote file operations | `transfer/sftp.rs`, `entries.rs`, `components/sidebar/`, `FileBrowserView.tsx`, `useSftpConflictResolver.ts`, the properties windows | the remote tree, listings, selections, questions, drafts | list, create, rename, chmod, delete, upload, download |
| Tab lifecycle | `state/openXTermStoreTabActions.ts`, `openXTermStoreListeners.ts`, `openXTermStoreTerminalActions.ts` | tabs, feeds, stopped flags | open, close, restart, type, listen |
| Local PTY, Telnet, serial | `runtime.rs`, `runtime/telnet.rs`, `runtime/serial.rs` | registry entry, reader threads | start, read, watch, stop, finalize |
| Storage | `storage.rs`, `commands.rs` | `state.json`, backups | load, migrate, write atomically, export, prune |
| Store of sessions, folders and macros | `state/openXTermStoreDomain.ts`, `openXTermStoreHelpers.ts` | session, folder and macro lists | save, move, drag, remove, import |
| Live status | `runtime/status/mod.rs` | pollers by tab, last counters | start, stop, poll |
| Frame of the window | `App.tsx`, `components/forms/`, `useOpenXTermStore.ts`, `TerminalSurface.tsx` | preferences, dialogs, drafts, lock, sidebar, the terminal mounted | edit, save, lock, unlock, resize, menu commands, paste |
| X11 forwarding | `runtime/x11/*.rs` | channels, two buffers per channel | accept, pump, close |
| Proxy sockets, probes, drag, platform | `proxy.rs`, `probe.rs`, `drag/`, `platform/` | none that lasts | protocol handshakes, operating-system calls |

### How they interact

- The window calls *commands*. The synchronous ones (start, input, resize, stop)
  run one after the other on the main thread. The asynchronous ones (transfers,
  remote files) run on blocking threads and interleave with everything.
- The back end's threads answer with *events*: output, working directory, exit,
  status, transfer progress, host-key prompt. Nothing ties an event to the run
  that produced it beyond the tab id.
- Terminals, transfers and the status poller open SSH connections, and every SSH
  connection goes through host-key verification, which may wait for the user.
- A terminal's typed password is shared with linked SFTP and the poller through
  the credential store (`runtime/ssh/auth.rs`).
- The transfer window and the main window are two web views. They share the
  progress events and a snapshot in local storage.

### What is hard, and what makes each component correct

- *Terminals.* A run has a connecting thread, then a reader, and the main thread
  acts on it at any time. A stop does not wait for the threads, so a restart
  finds those of the run before it still alive, under the same tab id. Correct
  means: one thread drives a run, a run ends once and says so once, a live run
  can be reached, the remote PTY has the size of the pane, no password outlives
  its session, and stopped runs come to rest.
- *Host keys.* Several connections to a server start together, the user answers
  late or never, terminals are stopped meanwhile, and the file has no lock.
  Correct means: no connection passes with a key nobody vouched for, one question
  at a time and none that was answered, no stored key is lost, every verification
  ends.
- *Transfers.* Cancel marks are global and are reset by the command they are
  meant for; most errors leave the function before its clean-up; batches share a
  mark; the window invents the events the back end does not send. Correct means:
  a cancelled transfer does not go through, a success wrote its file, failures
  leave nothing behind and can be retried, existing files survive, every command
  is answered and its row is final.
- *Storage.* Every command reads, changes and replaces one file; it may be killed
  between any two steps, the power may fail, and nothing keeps a second instance
  of the program from the same file. Correct means: the file is always a whole
  state, a command is accepted only when its change is stored and refused only
  when it is not, what this build cannot read is not replaced, and the original
  of a migration is backed up first.
- *Tabs.* Opening and restarting wait for stops and paints, and the threads of a
  run emit when they like. Correct means: nothing runs without a tab, the active
  tab is open, an ended session is shown as ended, each run ends once.
- *Store.* An action saves item after item, each with an await, and changes the
  window at the end. Correct means: the window shows what the disk holds, and
  nothing disappears that the user did not see.
- *Files.* Operations, listings and links come and go in any order, over one
  place for a question, one flag for busy and one component for all file tabs.
  Correct means: old files survive unless the user chose them, a listing is that
  of the right host and is current after an undisturbed operation, a failure half
  way is told, every operation ends.
- *Frame.* Each writer of the preferences writes all of them, effects run between
  a save and its answer, dialogs close when a save is answered. Correct means: what
  is shown is saved, no writer undoes another, no draft is lost, a lock is opened
  only by its own authentication, a terminal shows all its tab has printed.

## 2. Modules

| Module | Models | State |
|---|---|---|
| `TerminalLifecycle` | what a terminal promises: a run is launched once, ends once (stopped or by itself) and is reported at most once | abstract specification |
| `SshTerminal` | the registry, commands, prompts, connection attempt, reader and finalizer | `terminals`, `pendingWidth`, credentials per tab; `stopFlag`, `state`, `width`, program counters per run |
| `HostKey` | verification of host keys, the decision broker, the file, the window's queue | `knownHosts`, `acceptedOnce`, `hostLock`, `stage`, `pending`, `mailbox`, `prompts` |
| `SshProofs` | theorems about these two | |
| `TransferEngine` | commands, registries, cancel, retry, clean-up and the row shown | `cancelled`, `retryOps`, `files`, `pc`, `row` |
| `StateFile` | what the stored state promises: commands are all or nothing, whatever fails | abstract specification |
| `StateModel` | sessions and folders, and what the commands make of them | operators |
| `Storage` | `state.json`, its atomic replacement, migration, backups, pruning; kills, power failures, several instances | `file`, `durable`, `backups`, `pc`, `op`, `task`, `loaded`, `temp` |
| `StorageProofs` | theorems about it | |
| `TransferWindow` | the rows of a batch in the main and the transfer window, events, frames, the shared snapshot | `at`, `items`, `pending`, `known`, `inbox`, `snapshot`, `phase` |
| `TransferProofs` | theorems about it and `TransferEngine` | |
| `WorkspaceTabs` | tabs of the window over local, Telnet and serial runs; implements `TerminalLifecycle` too | `row`, `active`, `traces`, `ops`, `commands`, `registry`, `runs`, `events` |
| `WorkspaceTabsProofs` | theorems about it | |
| `SessionStore` | sessions, folders and macros of the window and of the disk | `window`, `disk`, `ops`, `line`, the delete dialog |
| `SessionStoreProofs` | theorems about it | |
| `SftpPanel` | the SFTP panel of the sidebar | `host`, `disk`, `shown`, `loading`, `dialog`, `ops` |
| `SftpPanelProofs` | theorems about it | |
| `RemoteProperties`, `FileTab` | properties windows; the file tabs they are opened from, which compose with them | `host`, `windows`, `payloads`, `events`; `session`, `snapshot`, `ops` |
| `FileTabProofs` | theorems about them | |
| `TerminalScreen`, `AppShell` | the terminal on the screen; the frame of the window around it, which composes with it | `feed`, `term`, `request`, `pastes`; `prefs`, `saved`, `saves`, `dialogs`, `lock` |
| `AppShellProofs` | theorems about them | |
| `MC...` | small instances for TLC | |

`SshProofs` and `TransferProofs` extend two modules each; that is why the initial
predicate, the next-state relation and some actions of `HostKey` and
`TransferEngine` carry the name of their module (`HostKeySpec`, `EngineSpec`).

### SshTerminal

A *run* is one start of a session under a *tab*. The actions `StartSession`,
`StopTerminal`, `Type` and `Resize` are the commands; each is one step, as the
main thread serialises them. `ConnectStart` to `OpenFails` are `connect_and_run`
on its thread, cut where it reads or writes shared state, so that a command can
come between any two of them. `ReaderTop` and `ReaderRead` are the reader's loop,
`FinalizeSwap`, `FinalizeRemove`, `FinalizeClear` and `FinalizeEmit` the four
steps of `finalize_terminal`, which the connecting thread and the reader both
call. Data are abstracted: a typed line is a value that is empty or not, a size
is its number of columns (rows are treated alike by the code), output is left
out, and the result of a connection attempt is any of the outcomes
`session.rs` produces. A tab may be started again at any time, as the restart
button does, also while threads of its earlier run are alive. Two histories follow
what comes of it: `elders`, the runs of the tab that were alive when a run was
launched, and `robbed`, the runs whose registry entry `finalize_terminal` removed
on behalf of such an elder.

`TerminalLifecycle` is the abstract specification. `ImplementsLifecycle`
instantiates it with the stop flags, the exit reports and the launched runs of
`SshTerminal`.

### HostKey

A connection walks through `verify_connected_server` by `stage`: `new` (the status
is asked without the lock), `waiting` for the endpoint's lock, `recheck`,
`register`, `asking`, `decided`, then the outcome. A changed key is replaced by
`ReadFile`, `TruncateFile`, `WriteFile` (the other lines go back) and `AppendLine`,
each a step of its own since other endpoints hold other locks, and each of which
may fail; a write that fails has put back some of the lines. `harmed` is the
history of what the missing lock of the file can cost: the endpoints whose lines may
be lost, or were read cut short, because a rewrite for another endpoint overlapped,
and every endpoint once two rewrites overlapped or one failed after the truncation.
The timeout of a prompt
(300 s in the code) may pass at any time. `Answer` is the user in `App.tsx`, who
always sees the oldest prompt; `Resolve` is the command on its way. The file is a
set of (endpoint, key) lines. The path of the file is taken as resolved (the code
checks nothing without one) and the application handle as available.

### TransferEngine

A command walks by `pc` from `enqueued` through `begin`, `check`, `allow`,
`create`, `copy`, `verify` and `complete` or `fail` to `answered`. `Leave` is an
error that leaves the function from inside its match (`?`), which is what all
SFTP errors do; `Fail` is the code after the match, which cleans up, remembers
the retry and reports. `Shown` is the rank rule of `mergeTransferProgress`. A target
is absent, old or new (`files`) and made of pieces, each known by who wrote it
(`pieces`); `holders` are the transfers that have it open, and a piece lands in the
file only while its writer is one of them. `CopyEnd` is the end of the copy, where
nobody looks at the target again. `owner` is the history of who created or removed it
last. A folder is one target. `link` says whether the network works; steps that ask
it wait while it does not. Progress events reach the row at once; their delays and the
second window are `TransferWindow`'s. Cancelling a batch marks its id
(the `batch` of a transfer's plan), and `after` is the order in which the window
sends a batch. `plan` is chosen once and never changes. FTP uploads have no conflict
check, so `ExistingFileKept` exempts them (`MayOverwrite`).

### Storage

Each instance of the program carries out one command at a time (the synchronous
commands of one process run on its main thread); `pc` walks through
`load_storage`, `create_storage_backup` and `write_file_atomically`, one file
operation a step, and `task` says what a write is for: the first file, a
migration, or the change itself. The model of the file is an arbitrary value and a
command an arbitrary function of it (`Effect`); `MCStorage` instantiates them with
`StateModel`. `file` is what a process sees at the path of `state.json`,
`durable` what the directory on the disk has: `Settle` writes it back, and a power
failure keeps either, tearing what was never flushed. Backups are in the order of
their creation (the names carry the time), `Prune` removes one at a time, and a
backup whose writer dies stays torn. Temporary files of dead processes are not
kept: their names are never used again and nothing reads or removes them.
`Restore` is the manual restore of `docs/storage.md`, of a whole backup and with
the program closed. `list_storage_backups` changes nothing and is left out.

`StateFile` is the abstract specification: read, replace at most once by what the
command makes of what it read, accept or refuse. It promises no isolation, because
the code has none: two instances lose each other's updates. `ImplementsStateFile`
maps the file to the abstract state, `loaded` to what was read, and `pc` and
`answer` to the progress of a command.

### TransferWindow

The backend of `TransferEngine` is reduced here to the states of the children;
what is modelled in full is how they reach the screen. The main window runs the
batch (`Enqueue`, `Begin` to `Complete`, `Fail`, `Rejected`), the events wait in an
`inbox` of each window, `Receive` puts them into `pending`, and `FlushMain` and
`FlushSub` are the animation frames that merge them (`Merge` is
`mergeTransferProgress`, `Aggregate` is `aggregateBatchProgress`). `Mount`, `Bind`,
`Storage`, `AutoClose` and `UserCloses` are the life of a transfer window.

### WorkspaceTabs

An action of the window is a slot of `ops` that goes from wait to wait; `commands`
is the line of the main thread, `main` the finalization it does after a stop.
`runs` holds each run's threads, its stop flag and whether its end is still owed,
`events` what was emitted and not heard. A local run has a reader, a watcher of
its process and a poller, a Telnet run a connector and a reader, a serial run a reader that is
started before the entry is registered. Output is one event without text.
A start is refused for a session that lacks a host, a port or a shell
(`RefuseStart`), before it stops anything. A save or a deletion may be refused too:
`Granted` goes on with the action, `GivenUp` drops what is left of it, with the
terminals a removal has stopped by then. The removal of a folder (`RemoveFolder`,
`FolderRemoved`) waits for its deletion and stops no terminal.
`hasty` remembers the tabs whose earlier run had threads left when the next one
began, or that were closed while a start was under way: for these the code
promises less (section 5), and the properties say so.

### SessionStore

An item is its folder, as a path of names; the rest of it is left out. Each action
of `openXTermStoreDomain.ts` is a slot with the commands it has still to send, and
the window changes when its last answer comes. `tangled` is set when two actions
about one item or the tree overlapped, or one broke off half way; the properties
that need quiet say `~ tangled`. `ShownWasSaved` needs none.

### SftpPanel

Two hosts, each a map from directories and names to what is there, and the
download directory. `Start`... actions begin an operation, `Host(o)` is the
backend's side of its next command, `Window(o)` the continuation after the answer.
`Resolve` asks about a conflict through the one dialog, `AutoLoad` and
`FollowTerminal` are the two effects; the latter forgets the path that failed when
the terminal's directory is the one shown (`CaughtUp`). A rename is up to the host,
which may refuse a taken name or replace what has it; an upload of a folder merges
into the folder that is there. `history` keeps what the user has allowed, what a host
has replaced, and which listings an overlapping operation has overtaken.

### RemoteProperties and FileTab

`RemoteProperties` is the window of one entry: payload in the local storage,
draft, two commands, result, close or reload. Whether a rename onto a taken name
replaces what has it is the server's choice; an FTP server may reject either command
(`Reject`); `moved` is the name a rename has given the entry when the mode
was refused after it. `FileTab` adds the main window with its file tabs. Uploads and
downloads ask about a conflict first (`Asking`, `Resolve`).
One component serves all of them, so leaving a tab does not end its operations:
`history.crossed` says one was left under way, until a tab is entered with none. What the
user began in the meantime may be about an entry of the wrong host even after that:
a delete remembers it (`stray`), and so does the history for each properties window
(`strays`), since both carry a path and a name and nothing else. The context menu is
closed by a click that reaches the window, which one on the x of a tab does not: the
menu may then stay for the tab that follows, and a window opened from it is in
`strays` too (`MayStray`).

### TerminalScreen and AppShell

Only the active tab has a terminal. `term` is the terminal with its refs: how much
of which list it has written, and what is on the screen (chunks by number, and
the notice). Each change of the store is one step together with the effects it
triggers, as React runs them before anything else can happen; `Tell`-like steps of
the sessions append output, end runs and restart them. `AppShell` composes it with
the preferences (`saves` is the line of commands that write them), settings,
dialogs, lock and sidebar. The registration of the menu's listener (App.tsx:312)
is taken as always current, and a tab may be clicked while a dialog is open, which
is more than the program allows.

## 3. Runs

Every run passes but `hostkey_lost_key`, in which TLC finds a counterexample to a
comment of the code (section 5, item 4); the longest take a minute or two, `panel_ops`
(766,000 states) three.

| Run | Instance | Checks |
|---|---|---|
| `ssh_restart` | 1 tab, 2 runs, restarts and resizes at any time | `SingleDriver`, `RegistryIsTrue`, `RegisteredRunHasLatestSize`, `ImplementsLifecycle` |
| `ssh_liveness` | 1 tab, 2 runs, fair threads | `EndedRunQuiesces`, `ConnectingIsLeft` |
| `hostkey_two_hosts` | 3 connections, 2 of them to one endpoint and 1 to another, both with new keys, fair threads | `PassedIsTrusted`, `QuestionsAreDue`, `KnownHostsHold`, `VerificationEnds` |
| `hostkey_lost_key` | the same connections | `StoredKeysStay`, violated |
| `transfer_pairs` | five plans of 2 transfers, 2 attempts each, a network that comes and goes, fair workers | `BatchCancelHolds`, `AnswersAreTrue`, `ExistingFileKept`, `CommandsEnd` |
| `storage_failures` | 2 instances, 2 commands, 1 fault (kill, power failure, broken copy), retention of 3 | `StateIsWhole`, `UnsupportedIsKept`, `MigrationKeepsOriginal`, `NewestAreKept`, `ImplementsStateFile` |
| `window_batch` | a batch of 2, main window and 1 transfer window, 1 retry, a lag of 1 event | `RowsAreTrue`, `OnlyRetryGoesBack`, `CompletionArrives` |
| `store_actions` | 2 folders, 2 sessions, 1 macro, 2 actions at a time of 4, 1 failing command | `StoreIsTrue`, `InStep`, `NoSilentLoss` |
| `tabs_runs` | 1 tab, 1 session, 3 runs of three kinds, 3 actions of the user, 2 at a time | `TabsAndRunsMatch`, `EndIsShown`, `ImplementsLifecycle` |
| `panel_ops` | 2 links, 2 directories, 3 names, 2 operations at a time, 1 fault | `OldFilesKept`, `PanelIsTrue`, `HalfIsTold`, `PanelSettles` |
| `file_tab` | a linked and a saved session, 2 directories, 1 properties window, 4 actions, 1 fault | `ListingIsTrue`, `DeletedWasChosen`, `ReportsAreTrue` |
| `shell` | 2 terminals, 3 chunks, 3 actions, 2 widths, 1 setting, 2 dialogs, 1 fault | `TerminalIsOfTab`, `PreferencesAreTrue`, `LateAnswersAreHarmless`, `SidebarSettles` |

Several of them are conjunctions of named parts, defined before them in the
modules: `RegistryIsTrue` is `LiveRunIsRegistered` and `ExitedRunIsGone`;
`QuestionsAreDue` is `OnePromptPerEndpoint`, `AskedOnlyWhenNeeded` and
`NoLeakedRequest`; `KnownHostsHold` is `OneKeyPerEndpoint` and what remains of
`StoredKeysStay` once the endpoints in `harmed` are left out;
`AnswersAreTrue` is `AnsweredRowIsFinal` and `CompletedIsWhole`; `RowsAreTrue` is
`NoEarlySuccess` and `CompletionIsRecorded`; `StoreIsTrue` is `ShownWasSaved`;
`TabsAndRunsMatch` is `NoOrphan` and `ActiveIsOpen`; `PanelIsTrue` is
`ShownIsCurrent` and `LoadingIsWarranted`; `PanelSettles` is `OperationEnds` and
`FollowsTerminal`; `ListingIsTrue` is `ListingIsOfTab` and `ChangeIsListed`;
`ReportsAreTrue` is `DoneIsApplied`, `ShownIsThere`, `ErrorHasCause` and `PayloadsAreTaken`;
`TerminalIsOfTab` is `ScreenComplete`, `StopIsShown` and `PasteStaysHome`;
`PreferencesAreTrue` is `SavedIsShown` and `EditsSurvive`; `LateAnswersAreHarmless`
is `UnlockIsOwn` and `DraftIsSavedOrKept`. The type invariant of a module is the first
part of one of them; `TypeOK` of `SshTerminal` and `Storage` is proved instead.

The plans of `transfer_pairs` are chosen in `Init`: a batch of an SFTP and an FTP
download; two FTP uploads, from the browser and from a file; an SFTP download to a
file that exists, next to a refused FTP folder of its name; a drag that overwrites
and an upload of a refused folder; two SFTP uploads to one name.

### Bounds

- Two runs of one tab are enough for every restart race: the code only relates a
  run to the one entry of its tab, and tabs share nothing but the main thread. The
  theorems are about any number of tabs.
- Of the connections of `HostKey`, two share an endpoint, so that one holds the lock
  while the other arrives or waits; the third has another lock, so that its rewrite
  of the file comes between any two steps of theirs. The file begins with the old keys
  of both servers: each question is about a changed key, and about an unknown one
  where a rewrite has taken the line.
- Width 1 is below the clamp and the default 3 above it: with one requested width,
  two sizes and the clamp are in play.
- `Chunks` (at most 2) puts a step before, between and after pieces.
  `MaxAttempts` (at most 2) is the first try and a retry; it bounds `Retry` only.
- `storage_failures` starts from what long use leaves: as many exports as are kept
  and one migration less, so the first commands prune. `KeepCount` is 3 and not
  smaller: a backup stays safe as long as fewer newer torn ones can appear before
  its command prunes than are kept, and the fault and the other instance can
  bring about two. The code keeps 10 and 20. Two commands and one fault put a
  failure before, inside and after any step of either instance.
- `window_batch`: two children are a first and a last one; `MaxLag` 1 lets each
  window be behind by an event on its own, which every mixture of frames,
  snapshots and events needs; one retry takes a final row back once.
- `store_actions`: two overlapping actions are what the code can confuse; two
  folders nest (`MaxDepth` 2), four actions in a row create, move and delete.
- `tabs_runs`: three runs are one before, one now and one that overlaps; the races
  are all about two neighbours of them.
- `panel_ops`, `file_tab`: two hosts tell a listing from that of another, two
  operations at a time overlap; `MaxActs` (2 and 4) counts what the user starts,
  not the effects and answers, which are unbounded. `panel_ops` starts with the form
  of a rename open, so that the two actions are left for what overlaps with it.
- `shell`: `MaxActs` 3 counts output, ends, restarts, menu commands and pastes;
  `MaxEdits` 1 is a draft that differs from the preferences. Random simulation with
  7 actions found nothing more.
- Symmetry of runs, tabs and instances is used for safety properties, never
  in a run with a liveness property.
- `CHECK_DEADLOCK FALSE` is set where the system comes to rest once the bounded
  counts are used up: `HostKey`, in which all connections end, and the modules of
  the window.

### Fairness

- `SshTerminal`: each thread of a run is scheduled (weak fairness of its steps).
  The user, the network and the remote end are not fair: nobody must type, answer
  or disconnect. A connection attempt ends because every wait in it has a timeout
  (`session.rs`).
- `HostKey`: each verification thread is scheduled, and the timeout of its prompt
  passes. The user need not answer.
- `TransferEngine`: each worker is scheduled, and what asks the network is answered
  only while the network works (`AwaitsNetwork`). curl is given no time or speed limit
  (`ftp.rs:84-108`), so a stalled FTP transfer may hang for ever; only the writes of
  an SFTP upload give up (`write_sftp_chunk_with_timeout`, `upload.rs:341-387`).
  `CommandsEnd` therefore says that every command is answered if the network is back
  for good some day, and an SFTP upload in its copy in any case.
- `TransferWindow`: events reach the main window and its frames fire
  (`requestAnimationFrame`, as the code asks for; a window that is minimised for ever gets none).
  Commands may hang and transfer windows may never load.
- `SftpPanel`, `AppShell`: commands are served and answered, the
  continuation after an answer and the effects run. In `SftpPanel` the user answers a
  question, which covers the window until then.

## 4. Proofs

TLC checks instances; the following hold for every value of the constants under
the assumptions named in the modules. These say that special values are not
ordinary ones, that bounds are numbers and that parameters have their type; that the
sets of runs, folders, sessions, bookmarks, names and slots are finite, as what they
stand for is; that there is at most one transfer window of a batch, as
its label in the code makes sure; and, in `Storage`, that the file at the start is
one that a program or a user has written. Where a theorem needs more, it says so in an `ASSUME` of
its own, explained below.

Each proof has an inductive invariant `IInv` that was model-checked first, one lemma
per action or kind of step, and a last step that combines them. Unless it is said
otherwise, it is stronger than the properties because these are about what is seen
at the end, and each step on the way has to be known to lead there.

`SshProofs`, about `SshTerminal`:

- `TypeCorrect`: `Spec => []TypeOK`.
- `OneDriver`: `Spec => []SingleDriver`.
- `RegistryHolds`: `Spec => []RegistryIsTrue`, restarts of live tabs included: a live
  run is in the registry unless one that was alive when it was launched has removed its
  entry (section 5, item 1), and a run that has reported its end is not in it.
- `LatestSize`: `Spec => []RegisteredRunHasLatestSize`.
- `Refinement`: `Spec => ImplementsLifecycle`, that is, `SshTerminal` implements
  `TerminalLifecycle`.

`SingleDriver` alone is not
inductive: that `BeginConnect` starts no second thread follows from the state of
the controller (it prompts only while no thread drives it), which in turn follows
from where the thread is when it writes that state, so `IInv` ties the program
counters to the controller's state, the stop flag and the registry. For
`RegistryHolds`, a run that can still finalize has either lost its entry to a later
one or is an elder of whoever holds it (`EldersKnown`, `ReachInv`).

`SshProofs`, about `HostKey`:

- `OnlyTrustedPass`: `HostKeySpec => []PassedIsTrusted`. No connection passes with a
  key that neither the initial file nor an answer of the user vouches for.
- `OnePromptAtATime`: `OnePromptPerEndpoint` and `NoLeakedRequest`.
- `OnlyDueQuestions`: `HostKeySpec => []QuestionsAreDue`.
- `StoredKeysAreKept`: `HostKeySpec => []KnownHostsHold`.

`TrustInv` says where trust comes from at every place it passes through: the
file, the lines held back by a rewrite, the keys accepted once, the answers on
their way, the mailbox and the decision of a thread. The proof shows that
neither races on the file nor late answers can create trust, only lose it.
`LockInv` ties the program counters past the lock to its holder, and the requests
to the connections that wait for them. No lock covers the file itself. The last two
theorems are about any endpoints, keys and initial file, and say what holds for an
endpoint that is not in `harmed`: `FileInv` collects what is known of the file
(`AloneInv`: two rewrites at a time harm everybody; `KeptInv`: a single one has all
lines of the others in hand; `StoredInv`: a line that was stored is in the file or
about to be written back), `DecisionInv` what a connection may do with its answer.

`TransferProofs`, about `TransferEngine`, for any transfers, batches, targets and
attempts:

- `ExistingFilesAreKept`: `EngineSpec => []ExistingFileKept`.
- `CancelledBatchesWriteNoMore`: `EngineSpec => []BatchCancelHolds`.
- `AnsweredRowsAreFinal`: `EngineTypeOK` and `AnsweredRowIsFinal`.
- `AnswersTellTheTruth`: `EngineSpec => []AnswersAreTrue`.

`EngineIInv` says what a command past its checks has found (`LateInv`, `KeptInv`), when
it may clean up (`FailInv`), and how the row stands to it (`RowsInv`). `WholeInv`
says what a transfer has written: pieces come from those that have the file open, and
those it has sent are there as long as nobody created or removed the file after it.
Nothing is asked of the plans: transfers of one name included.

`StorageProofs`, for any number of instances, any models and commands:

- `TypeCorrect`: `Spec => []TypeOK`.
- `StateAlwaysWhole`: `Spec => []StateIsWhole`.
- `NewerIsNotReplaced`: `Spec => UnsupportedIsKept`.
- `PruningKeepsTheNewest`: `Spec => NewestAreKept`.
- `OriginalIsKept`: `Spec => MigrationKeepsOriginal`, assuming `RetentionCoversFaults`.
- `Refinement`: `Spec => ImplementsStateFile`.

The inductive invariant `IInv` adds what a process holds at each place of its
command (`LocalOK`: a temporary file is flushed when it is renamed, a model is
loaded before it is written), that backups come from whole files (a restore would
otherwise break the file), and that nobody works on a file that cannot be read and
nothing else is on its way to the disk (`Untouched`: otherwise a power failure
could bring a file back under a process that has read another). `LocalStep` does
the steps that leave the file alone; the refinement maps each action to a step of
`StateFile` or a stutter. `OriginalIsKept` needs a count: from some backup on, all
backups of migrations are of the file that lies there, at most as many of them torn as there were
faults, and the oldest of these is whole or being written by the instance that is
to migrate (`MigrationInv`). Pruning takes the oldest first, so that a whole one is
left as long as no more backups can be torn or being written than are kept:
`MaxFaults + Cardinality(Procs) <= KeepCount`. With two kept, one
fault, two instances and three commands TLC finds the original lost. The code keeps 10.

`TransferProofs`, about `TransferWindow`, for any number of children, retries and
events behind:

- `WindowsShowTheTruth`: `Spec => []RowsAreTrue`.
- `RowsNeverFallBack`: `Spec => OnlyRetryGoesBack`.

A row is as true as the places it is merged from: `HonestInv` says it of the rows,
the inboxes, the events waiting for a frame, and the snapshot. That the end of a batch is
recorded needs that the main window hears of every success (`HeardInv`), as the last
thing it hears of that child (`OrderInv`), and that whoever may write over a final
snapshot has it in its own rows (`SnapshotInv`).

`SessionStoreProofs`, for any items, import files and actions under way:

- `ShownItemsWereSaved`: `Spec => []StoreIsTrue`.
- `CalmWindowEqualsDisk`: `Spec => []InStep`.
- `NothingIsLostUnseen`: `Spec => []NoSilentLoss`.

`InStep` is about the moment when nothing is under way; `SyncInv` is what holds
on the way there: while nothing is tangled, an item differs between the window and
the disk only if the one action about it has written it already, and then the action
holds the value the window will get.

`WorkspaceTabsProofs`, for any tabs, sessions, actions under way and runs:

- `TabsAndRuns`: `Spec => []TabsAndRunsMatch`.
- `RunsFollowLifecycle`: `Spec => ImplementsLifecycle`.
- `EndsAreShown`: `Spec => []EndIsShown`.

That nothing runs without a tab is a matter of who still owes what: a run without a
tab has a stop on its way, in the line of commands or in an action that will send it
(`TabInv`, `RemovalInv`), a start that was not served has its tab, and an id that was
not used has no past (`NewInv`). `CommandsInv` and `OpsInv` relate the line to
the actions that wait for it, `SoloInv` says that one run of a tab at most is busy.
`EndsAreShown` adds `EInv`, which follows an exit event from the finalizer to the
listener: the runs of a tab are launched in order and each has one thread that can
end it (`HistoryInv`), so nothing is heard of a tab after the exit of its last run,
and that exit is shown, is on its way, or gave way to a start that is under way or
has failed (`EndInv`). Only the poller of a local session could hide it (`StatusInv`).

`SftpPanelProofs`, for any hosts, directories, names and operations under way:

- `OldFilesAreKept`: `Spec => []OldFilesKept`.
- `PanelShowsTheTruth`: `Spec => []PanelIsTrue`.
- `HalfADeletionIsTold`: `Spec => []HalfIsTold`.

An operation carries its permission with it: what it has still to do is what the
user pointed at, allowed in a question, or what was not there when the host was
asked (`LeaveInv`, `PickedInv`). A listing is current, known to be behind, or about
to be replaced by an operation that ends with a listing or a failure (`ShownInv`);
who has a link to itself has had it from the start (`AloneInv`), and half a tree
stays only where a deletion failed (`HalfInv`).

`AppShellProofs`, for any tabs, output, widths, settings, dialogs and bounds:

- `TerminalAlwaysOfTab`: `Spec => []TerminalIsOfTab`.
- `PreferencesAlwaysTrue`: `Spec => []PreferencesAreTrue`.
- `LateAnswersAlwaysHarmless`: `Spec => []LateAnswersAreHarmless`.

What is on the screen is not determined by the list of chunks alone, so `TermInv`
says what a terminal knows of the store each time its effects have run: it has
counted the whole list, and shows all of it or all that follows what was cleared.
The proof rests on lemmas about lists that keep the elements of a set (`Only`):
what is appended, skipped and cleared. For the preferences, `QueueInv` says where in
the line of saves the state file stands, and that the one save under way has all that
was asked for; a width that was dragged is on its way (`Dragged`), and a draft of
the settings differs from the window in what was touched (`DraftInv`). `LockInv` ties
the authentications under way to the lock they were asked for.

`FileTabProofs`, for any sessions, directories, names, operations and windows:

- `ListingAlwaysTrue`: `Spec => []ListingIsTrue`.
- `DeletedAlwaysChosen`: `Spec => []DeletedWasChosen`.
- `ReportsAlwaysTrue`: `Spec => []ReportsAreTrue`.

A path says nothing of when it was read. `FromStart` therefore relates each listing,
on its way or on the screen, and each entry chosen from one, to a directory that
nobody has changed (`TabInv`, `MenuInv`, `JobInv`). `FreshInv` is what makes a quiet
tab true: a listing that is out of date has an operation that will list again, or a
window whose change has still to be told. `OwnInv` follows the file of a properties
window through its two commands, as long as the window is alone with its directory.
The attempt showed that two properties were false on larger instances than the run
had: after the next tab was entered, a delete begun before, and a window opened before,
could still work on a name that another host had listed. `DeletedWasChosen` and
`Alone` now say so (`stray`, `strays`; section 5, item 11).

Sequences and counts are reasoned about without induction over operators: by the
theorems of the library, a least counterexample (`Least`), or a recursive
function.

Only model-checked:

- Liveness (`EndedRunQuiesces`, `ConnectingIsLeft`, `VerificationEnds`, `CommandsEnd`,
  `CompletionArrives`, `PanelSettles`, `SidebarSettles`): it rests on fairness and
  `ENABLED`, which the prover does not treat.

Every other property of a passing run, invariant, action property or refinement, is a
theorem; only `OriginalIsKept` has an assumption of its own.

## 5. Known disagreements

Behaviours of the code, all of them in the models unless it is said otherwise, that a
statement of the repository or a user's expectation excludes. `hostkey_lost_key`
shows item 4; no run checks the others. Where a property would otherwise fail, its
formula names the case.

Statements of the documentation:

1. A finalizer removes the registry entry by tab id (`runtime.rs:566`), so that a
   run that fails late removes the entry of the run that replaced it, and the live
   one gets no more input; `docs/qa/embedded-ssh-sftp-x11-smoke.md:118`. Hence
   `robbed` in `LiveRunIsRegistered`, and `hasty` in `WorkspaceTabs`.
2. A connection that succeeds after its tab was stopped stores the typed password
   again (`interactive.rs:240`) and nothing clears it; `README.md:197`.
3. The size is read before the connection attempt (`interactive.rs:229`); a resize
   during it does not reach the remote PTY; `docs/v0.2-core-reliability.md:38`.
   `RegisteredRunHasLatestSize` is about the controller's size.
4. Replacing a changed key rewrites the whole file (`host_key.rs:305`) under the
   lock of one endpoint, and can lose a key that another endpoint stores at the same
   time, although its user chose to "store the key in the known_hosts file"
   (`:29`): `hostkey_lost_key` shows it with every connection passed. Meanwhile known
   keys are asked about again, and a write that fails after the truncation loses
   keys too. Hence `harmed` in `QuestionsAreDue` and `KnownHostsHold`.
5. A cancellation before the command begins is reset by it (`lifecycle.rs:52`), and
   one after its last check is ignored; smoke list, line 145.
   `BatchCancelHolds` says what holds for batches.
6. The retry of an interrupted transfer is refused because of its own leftover
   (`download.rs:270`), which the clean-up of failed downloads never sees; a failed
   SFTP upload skips its retry data (`upload.rs:104`); smoke list, line 146.
7. A transfer window that missed the first child of a batch may write its own
   "running" rows over the final snapshot before it hears of it
   (`TransferWindowPage.tsx:88`), and then never closes; smoke list, line 75.

Races without a statement against them:

8. The last menu command stays the window's request: a terminal that is mounted
   again obeys a clear again (`TerminalSurface.tsx:271`). A list replaced by one of
   the same length is not drawn again. `ScreenComplete` leaves both out.
9. Two saves of the preferences under way together write over each other
   (`EditsSurvive`: `crossed`), and a change of the preferences resets the draft of
   the settings dialog.
10. A late save closes the dialog that was opened meanwhile (`App.tsx:584`), and the
    menu's "new" replaces a draft (`DraftIsSavedOrKept`: `let`).
11. The session of a linked file tab is a new object in each rendering
    (`App.tsx:360`), which sends the tab back to the root. The answer for a tab that was left
    shows up in the next one (`ListingIsOfTab`: `crossed`), where a delete may be
    confirmed or a properties window opened for what another host has
    (`DeletedWasChosen`: `stray`; `ReportsAreTrue`: `strays`).
12. The sidebar keeps its selection and its rename form by path when the link
    changes (`OldFilesKept`: `strayed`), and a second question about a conflict
    takes the place of the first, whose operation then never goes on
    (`OperationEnds`: `unheard`).
13. A move of a folder that fails half way leaves window and disk apart until the
    next start (`InStep`: `tangled`).
14. The download of a folder from an FTP server, which is refused after a look at
    its target (`download.rs:221`), removes what another transfer has saved under
    that name meanwhile (`CompletedIsWhole`: `owner`).
15. Two SFTP uploads to one name truncate and write the same file
    (`upload.rs:302-308`): both may succeed and leave a mixture of the two.
    `CompletedIsWhole` allows pieces of those that were still copying (`holders`).
16. A stalled FTP transfer hangs for ever, since curl gets no time or speed limit
    (`ftp.rs:84-108`). The calls of SFTP other than the writes of an upload have only
    the timeout of the library's session, which is not relied on. Hence the network
    in `CommandsEnd`.
17. A click on the x of a tab does not reach the window (`Workspace.tsx:93-96`), and
    only there does a file tab close its menu (`useFileBrowserSelection.ts:63`): the
    next tab keeps it, and its "Properties" opens the old entry on another server
    (`ReportsAreTrue`: `strays`).
18. A rename is sent without a look at the new name (`entries.rs:95-103`); the panel
    looks in the listing it shows, which may be that of another directory than the
    form's. A server that replaces files on a rename then loses one
    (`OldFilesKept`: what a host replaced is allowed). Over FTP the two halves, RNFR
    and RNTO, are sent over two connections, whose effect is the server's (not modelled).
19. When the deletion of a session is refused, its terminals have been stopped
    already (`openXTermStoreDomain.ts:277-281`): their tabs stay, and nothing says so or
    offers a restart. The removal of a folder stops no terminals: those of
    its sessions run on in tabs whose session is gone.

## 6. Not modelled, and why

- X11 forwarding: the proxy's loop and its two buffers are tied to the rest only by
  the stop flag of their run; all that the plan has left.
- Pure functions without state: algorithm profiles, key formats, guidance texts,
  ANSI handling, the parsing of listings, option negotiation of Telnet. Unit tests reach them.
- What the status poller measures; when it emits is in `WorkspaceTabs`.
- Proxy handshakes and probes: sequential exchanges on one socket.
- Native drag and platform services: calls of the operating system. The downloads a
  drag starts are in `TransferEngine`.
- Rendering: layout, fonts, menus, the search in a terminal, the status bar, the
  sorting of lists. What of it keeps state that matters is in `TerminalScreen`,
  `AppShell`, `SftpPanel` and `FileTab`.
- The FTP server: an FTP rename sends RNFR and RNTO in two connections, whose
  effect depends on the server.

## 7. What the plan has left

`X11Proxy`: the two buffers of a channel against its ends and the stop flag.
