# TLA+ specifications of OpenTerm

OpenTerm is an SSH terminal: a desktop application (`openterm-app`), a command line
client (`openterm-cli`) and the libraries both rest on (`openterm-ssh`,
`openterm-storage`, `openterm-crypto`, `openterm-core`). What can go wrong in an order
nobody tested happens between actors that run concurrently on one tokio runtime: the UI
loop, one connection worker per tab, the tasks a worker spawns, the tasks of the
connection pool, blocking tasks on the database, and the hosts at the other end. This
directory specifies those parts in TLA+, checks them with TLC and proves with TLAPS, for
every size, the safety properties the runs check of them: the connection pool, a tab and
its worker, transfers, shells, the channel budget, dials and host keys, forwards, the
command line client, the vault, and the machines of the user interface.

Paths below are relative to the repository. `pool.rs` is
`crates/openterm-ssh/src/connection_pool.rs`, `lib.rs` is
`crates/openterm-ssh/src/lib.rs`; `connection.rs`, `update.rs`, `session.rs`,
`subscription.rs`, `main.rs`, `metrics.rs` and `terminal_render.rs` are in
`crates/openterm-app/src`.

## 1. Inventory

| Component | State | Operations | Interacts through | What is hard | What makes it correct |
|---|---|---|---|---|---|
| SSH connection pool | idle connections, capacity semaphore, statistics, health-check task | acquire, drop (return), health-check round, shutdown | two tokio locks, a semaphore, a `Notify`, tasks spawned by `Drop` | locks taken in two orders, awaits under a guard, aborts at any await, pings outside the lock | a lease is exclusive; permits are conserved; every acquire ends; teardown closes everything |
| Session lifecycle and connection worker | `Phase`, reconnect backoff, pending connect; the worker's place | connect, disconnect, host-key answer, reconnect, close tab; dial, shell loop, teardown | a bounded command channel one way, an event stream the other | the UI decides on old news; commands are dropped when the channel is full; a command can reach the worker in another place than meant | the phase agrees with the worker; a connect is sent once and, if it is heard, settles |
| Transfer control | row in the UI, the worker's `TransferCtl` map, three atomics, the task | start, pause, resume, cancel; the task's end | commands, events, `mode` / `running` / `finalized` | worker and task decide in parallel who cleans up | one side ends an attempt; a cancel that is heard is obeyed and leaves no `.part` |
| Pipelined download and upload | `.part` files, chunk flags, attempt counter, stop token | `download_file`, `upload_file` | chunk tasks, SFTP server, local disk | chunks complete out of order, fail, vanish; writes arrive late; retries, resumes, aborts | the `.part` is a prefix; a promoted file is whole; content is never lost; transfers end |
| Channel budget and quick operations | `channel_sem`, `bulk_sem` | exec, SFTP listings, reads, writes, deletes | FIFO semaphores, `bounded()` timeouts | aborts and timeouts in a queue; some methods take no permit | permits are exact; interactive work is served |
| Host keys and authentication | known-hosts file, pending challenge | dial, verify, accept, reject, authenticate, tunnel | one file shared by tabs, pools and processes | a file read and appended by several dials; a stale challenge | every hop is trusted; nobody is locked out; dials end |
| Local port forwarding | accept loop, one task per stream | accept, pump, stop | the session mutex, a bounded event channel | a stop that waits for the mutex the opens hold | a stop is honoured; every stream is reported |
| Vault and secrets | key in memory, canary, encrypted secrets, settings | set up, unlock, enable, disable, auto-lock, save and delete hosts | blocking tasks and their messages | several writes one after another; a rollback; restarts | stored secrets open with the password the user knows |
| Command history | per-tab commands, the panel's list, a table | commit, capture output, append, backfill, clear, prune | blocking tasks over one table | tasks change places | the table follows the panel, row by row if they do not |
| Shell output, local terminal worker | channels, coalescing buffer; PTY, reader thread, child | pump, flush, exit, close; write, read, hang up, reap | channels, a descriptor closed by a thread | exit and close overtake buffered output; blocking writes | output in order, the end last; nothing leaks |
| Input line and suggestions | copy of the line, ghost, caches, queries | type, complete, accept, expand, commit, query | terminal echo, exec queries | the shell owns the line, the app guesses it; much is written past it | the copy is the line as long as the editor sees what is sent; queries are bounded |
| Terminal grid and rendering | buffer, snapshot, row caches, grid, PTY size, selection, mouse modes | write, clear, resize, search, draw; press, drag, wheel, copy | frames, the command channel, mouse reports | caches kept by keys; state that outlives what it is about | a frame is current; the PTY has the grid; what is shown is what is copied |
| Tabs, file panes, file viewer | tab list, rows and selections of two panes, dialogs, viewer | open, close, switch; list, select, delete, rename; load, page, edit, save | listings and reads answered late, transfers that refresh panes | answers for a tab, a directory or a file that is no longer shown | rows are those of the path; a local delete reaches what its dialog names; a viewer holds its own file |
| Resource monitor | previous sample, charts, process table | sample, compute, sort | exec tasks answered in any order | counters that restart, samples that change places | rates are sane; the table is the panel's |
| Command line client | stored hosts, terminal mode, exit status | list, add, import, exec, shell, SFTP | a process per command | ways out | one credential; a failure is reported |
| Configuration and core types | files and values | load, save | - | nothing runs concurrently | - |
| Views, theme, animation | - | draw | the UI loop | - | - |

`PROJECT.json` lists the components with their status, and under `hazards` each
place where the code is exposed to something a test would hardly reach.

## 2. Modules

| Module | Models | Built on |
|---|---|---|
| `PoolLease` | what a user of the pool is promised | - |
| `ConnectionPool` | `pool.rs`, one action per stretch between two awaits | refines `PoolLease` |
| `SessionWorker` | one tab and its worker | - |
| `TransferControl` | one transfer's row, control and task | abstracts `Download` to "the `.part` exists / was promoted" |
| `Download`, `Upload` | one file's windows, writes, retries and resumes | - |
| `ChannelBudget` | the two semaphores of a session | - |
| `SshConnect` | dials, known hosts, authentication, jump host, one-shot helpers | - |
| `LocalForward` | the accept loop and its streams | - |
| `Cli` | a process of the command line client | its helpers are `SshConnect`'s processes |
| `Vault` | the workspace database, the vault's memory, its blocking tasks | - |
| `History` | commands from the prompt to the table | - |
| `ShellPump`, `LocalShell` | the output of a remote shell, a local shell | - |
| `Suggestions` | the copy of the line and its completions | - |
| `GridSync`, `RenderCache`, `Pointer` | the terminal's size, what it draws, the mouse on it | - |
| `Tabs`, `SftpPanel`, `LocalPane`, `FileViewer` | the tab bar, the two file panes, the viewer | - |
| `Monitor` | the resource rail | - |
| `MCConnectionPool` | symmetry for TLC | `ConnectionPool` |
| `MCWorkers`, `MCSsh`, `MCDesk` | sums of machines for TLC, see section 4 | the modules above |
| `SequenceFacts` | lemmas on sequences: append, tail, removal, duplicates | - |
| `TransferControlProofs` | theorems about the control of a transfer | `TransferControl` |
| `SessionWorkerProofs` | theorems about a tab and its worker | `SessionWorker`, `SequenceFacts` |
| `WorkersProofs` | theorems about the download, the upload, the shells, and the sum `MCWorkers` | `MCWorkers`, `SequenceFacts`; `TransferControlProofs` and `SessionWorkerProofs` as instances |
| `SshProofs` | theorems about dials, budget, forwards, client, the sum `MCSsh`, and the pool | `MCSsh`, `ConnectionPool`, `SequenceFacts` |
| `VaultProofs` | theorems about the vault | `Vault` |
| `DeskProofs` | theorems about the user interface and the sum `MCDesk` | `MCDesk`, `SessionWorkerProofs`, `SequenceFacts` |
| `DeskTypeProofs` | the type invariants of the user interface | `DeskProofs` |

### ConnectionPool

The pool mutex and the statistics lock are RAII guards, so their holder is a
function of where the tasks are (`PoolLockFree`, `StatsLockFree`) and not a
variable. `pc[c]` names the await at which caller `c` is suspended: popping,
pinging, waiting for the statistics lock with a known outcome, waiting for the pool
lock *under* the statistics guard (`count`), waiting for a permit, dialing, using.
`ret[k]` is the task that `DataConnection::drop` spawns: it pushes and then waits
for the statistics lock under the pool guard. `hpc`, `cand`, `kept` are the
health-check round, `spc` the teardown. `Abort` drops what a task holds at
whichever await it is, which is what `JoinHandle::abort` does. `Die` is the
network. `PoolStats::waiting_requests` is never written and is left out, as are
`stats()` and `snapshot()`, which only read.

### SessionWorker

The UI's variables are the fields of `Session` that decide anything (`phase`,
`userDisc`, `due`, `hostKey`, `exitCode`, `hasTx`, `pending`); `cmds` is the
bounded channel filled with `try_send`, `evts` the stream back. The worker
announces itself (`Ready`), waits (`await`), dials, probes for tmux (`probe`,
already announced as Connected and not yet reading commands), runs its select loop
and tears down. `OnClosed` and `OnFailed` contain `Phase::after_close` and the
backoff decision; the `auto` parameter is the user's auto-reconnect setting.
`searching` is the history search, which is open over all tabs: while it is, the app has
no reconnect heartbeat (`subscription.rs:162-180`), and Enter in it writes to the tab.
`bounced` remembers that the last Connect was refused by a full channel, which
`connect_active` and `dispatch_reconnect` ignore, for the liveness properties to except.

### TransferControl, Download, Upload

In `TransferControl` one action is one access to one of the three atomics, because
the protocol between the worker's cancel arm and the ending task depends on their
order (`ClearRunning` before `LoadMode`, `WorkerCancel` before `CancelCheck`).
The user's commands go through `Send`, which a full channel may refuse at any time: its
256 slots are shared with everything else the tab sends. The row has changed by then, and
the refusal is ignored (`update.rs:2407-2413`, `2462`). `verdicts`, `canceled` and
`unheard` (the commands refused) are history variables for the properties. The file is
reduced to whether the `.part` exists and whether it was promoted; an upload uses the
same control path. The user is assumed not to press buttons on a row he has just
cancelled: the `TransferStarted` of a resume can bring such a row back for a moment.

In `Download` the remote file is a row of `Size` cells. The `.part` is its length and
the set of cells that hold fetched bytes, so a hole is a cell below the length that is
not in the set. `ChunkRead` is one `raw.read` with the positioned write of what it
returned, and sets the flag of the chunk with its last piece. `Stat` and `Open`
begin an attempt, `SpawnWindow`, `WindowDone` and `WindowBroken` are the loop over
windows, `Promote` and `CutBack` its end, `Retry` the decision of `download_file`.
The bandwidth measurement is a free choice of the next window within the clamp and
the doubling limit. A remote file keeps its content but may be cut short (`Shrink`);
the server then answers with a status (`ChunkFail`) or with no data (`ChunkEof`).
Not modelled: the progress reporter, a `set_len` that fails, and a second task on the
same `.part`.

In `Upload` the server handles the writes of one SFTP session in order (`pending`),
and may still handle those of an attempt that gave up beside the next attempt's
(`late`). The destination is absent, old, whole or torn. `disturbed` records what the
content property makes an exception for: a refused write, a failed `stat` of an
existing `.part`, a `.part` cut under late writes.

### ChannelBudget, SshConnect, LocalForward, Cli

`ChannelBudget` has the two tokio semaphores as a count and a FIFO queue each. A
transfer takes a bulk permit before it queues for a channel; an SFTP operation waits
inside its deadline, `exec_capture` outside of it; the shell takes none. Timeouts and
aborts drop a future in the queue or with its permit.

`SshConnect` is a dial from TCP to authentication, directly or through the jump host:
`check_server_key` under the four policies over the one known-hosts file, the pending
challenge and its acceptance by the user, key or password authentication with the
default keys after it, and the one-shot helpers that connect, run one operation and
close both sessions. A server may exchange its key at any moment.

`LocalForward` has the accept loop's `select!`, the FIFO session mutex that every
stream holds while it opens its channel and that a stop needs as well, half-closed
pumps, and the bounded channel of events.

`Cli` is one process at a time: resolve the target among the stored hosts, settle the
credential, confirm, enter raw mode, run, write, exit; the list commands are
transactions over the stored hosts. Remote work is one step with the outcomes of the
one-shot helpers.

### Vault, History

`Vault` identifies a secret with the key it is encrypted under, and a password with
the key it derives. The database is `secrets`, `auth` (which host refers to which
secret), `canary` and `savedEnabled`; each read or write is one transaction and a
restart may fall between any two. The blocking tasks (unlock, setup, the two
migrations) run from `run` through `commit` to `done` while the UI goes on. `faults`
collects the events the code does not protect the vault from, so that the invariants
say what holds until one of them happens.

`History` follows a command from `commit_input_line` through the captured output to
the blocking tasks that append, backfill and clear the table, in any order. A row and a
task carry the number of the commit they come from; `shuffled` records that a task ran
before one that was started earlier, `behind` that a clear did not wait for one.

### ShellPump, LocalShell, Suggestions

`ShellPump` numbers the pieces of output in the order they are written and follows
them through `event_shell`, its channel, the `OutputCoalescer` and the UI's channel;
the exit status takes a number as well. The last hop drops when the UI lags.

`LocalShell` is the worker, the thread that reads the PTY master and owns its
descriptor, the shell and the task that reaps it; kernel buffers and the channel are
bounded, and the worker writes with blocking calls.

`Suggestions` keeps the app's `line` beside what the shell has `sent`. Typing, Backspace,
Ctrl-C and Ctrl-U, an accepted ghost, a snippet and an accepted history search go through
the editor (`track_input`). `blind` marks that the copy cannot be exact until the next
Enter: after a cursor key, a completion, type-ahead, a lost write, Ctrl-L, which empties
the copy and leaves the shell's line (`session.rs:1529`), and `WritePast`, all that is
written to the shell and never shown to the editor: a paste (`update.rs:357-370`),
HistoryInsert (398-405), HistoryRun (957-965), TerminalWriteRaw (259-267) and the
emulator's own replies (2805-2807). A tag's query is
its mark in `pending` and the answers in flight.

### GridSync, RenderCache, Pointer

`GridSync` is the way from the window through `current_grid` and `apply_grid` to the
PTY, with an overlay that has no listener for the window's size. `RenderCache` is the
snapshot memo and the row geometries with their keys. `Pointer` is the canvas's
`update`: local selection with word, line and URL clicks, reports to the remote program
by the modes of the moment, wheel accumulation, the context menu, and the overlay that
draws a selection; a grid may shrink under it and the pointer may be outside.

### Tabs, SftpPanel, LocalPane, FileViewer, Monitor

`Tabs` addresses tabs by their place while closing ones leave later. `SftpPanel` is the
remote pane of several tabs with app-wide dialogs; listings answer late, out of order or
not at all. `LocalPane` reads its rows synchronously and keeps a selection of indices,
while other programs and finishing transfers change what is under it; it has the
context menu, the delete dialog and the rename / new folder prompt. `FileViewer` pairs
the viewer with read and write tasks whose answers carry a path or nothing. `Monitor`
has the sampling timer, the worker's tasks, and `metrics::compute` over one counter of
each kind (CPU total and idle, bytes); answers come in any order, and losing the
connection covers a reboot or another host.

## 3. Plan

Done, in the order of importance: the pool and its proofs; session and worker;
transfer control and its proofs; download and its proofs; vault; dials and known hosts; channel
budget; upload; forwarding; shells; history; panes, viewer, tabs; grid, rendering,
mouse; suggestions; monitor; command line; and the proofs about all of these. What is left:

1. The drag of files between the panes, and directory walks with more than one file in
   flight, which `LocalPane`, `SftpPanel` and `TransferControl` leave out.
2. `Download` with two tasks on one `.part`.

## 4. Runs

Three runs check the sum of several machines: a behaviour picks one machine in its first
state and the others rest, so TLC explores the sum of their state spaces and never the
product. The machines of such a run do not interact in the model; where they do in the
code, the module of one contains what it sees of the other as an input (a finished
transfer re-reads the rows of `LocalPane`, a lost connection clears `TransferControl`'s
map). The grouped properties of these runs are conjunctions of the modules' own.

| Run | Question | Result |
|---|---|---|
| `PoolSafety` | permits, ownership, lease count and the abstract lease under every interleaving, with one dying connection | holds |
| `PoolLive` | every acquire ends, dead idle connections are evicted, teardown closes everything (capacity 1) | holds |
| `PoolDeadlock` | the same acquire with capacity 2 | **violated**: lock-order deadlock |
| `Workers` | what runs beside the UI, with fairness: a download, an upload, the control of a file's and of a directory's transfer with refused commands, failed acquires and a lost connection, a whole tab, a remote shell's output, a local shell | holds |
| `Ssh` | what `openterm-ssh` and the command line promise: trusted hops, nobody locked out, exact permits, a stop that is honoured, dials that end | holds |
| `Desk` | the user interface, safety only: phase and worker, line and ghost, history, both panes, viewer, grid, tab bar, row caches, mouse, monitor; with the exceptions below | holds |
| `Vault` | disk and memory agree, secrets are never half converted, hosts resolve, migrations end, the vault locks itself | holds |
| `VaultRollback` | a rollback strands no secret | **violated** |
| `SessionWorkerLives` | the worker lives as long as its tab | **violated** |
| `TransferCancelDir` | a cancelled paused directory leaves no `.part` | **violated** |
| `DownloadHole` | a resume never skips a hole, aborts included | **violated** |
| `SftpDeletes` | a remote delete reaches only what was selected | **violated** |

The grouped properties of `Workers` and `Desk` say this, and not more:

- `CancelWorks`: a cancel that the worker receives before the task has read its mode for the
  last time ends the transfer as cancelled, and for a single file the row and the `.part`
  are gone for good - unless the transfer had come to its own end, the cancel was refused by
  a full channel, or the connection was lost since the last start. `PauseConfirmed`: a row
  does not say "Pausing..." for ever, unless the worker does not know the transfer, after a
  lost connection or a refused start.
- `SessionSettles`: a tab does not stay Connecting, and one that is Reconnecting dials
  again, unless it is being closed, its Connect was refused, its worker has ended
  (`SessionWorkerLives`), or, for the second, a history search is open.
- `GridSound`: the terminal has the size last worked out for the area the app knows of
  (little more than what `apply_grid` says), and once the channel is quiet and no resize was
  dropped the PTY has the terminal's, which is the property that takes several actors.
- `InputSound`: the copy of the line is the shell's while the editor sees all that is sent
  (section 2), each tag has one query in flight and one more for each late answer; a
  selection is tinted and copied as it was made, but for Select All; the remote program is
  told that a button is down only while it is, unless a release went astray; the wheel loses
  no fraction of a line.
- `DiskFollowsPanel`: once the tasks are done, and unless a clear overtook one: if they ran
  in the order they were started in, the table is the newest part of the panel, row by row
  with outputs; if they changed places, it has as many rows and no command more often.
- `PaneSound`: remote rows are those of the path unless a listing is due, failed or was
  lost; a local delete reaches nothing its dialog did not name; a remote one reaches only
  names that its dialog named *while the dialog's tab is in front and the pane at rest*; the
  rail's chart loses no traffic, and its table is the panel's unless an answer is due or a
  request was dropped.
- `ViewerSound`: what is shown, edited and saved is a text of the viewer's own file, the last
  page ends where the file does, a page is not saved as the whole. A file that was empty when
  read, or whose read failed, is exempt (`LoadedIsFullText`).
- `DeskSteps`: three action properties, `UserDisconnectWins`, `FocusStays` (a background tab
  that goes leaves the focus) and `FrameIsCurrent` (a frame shows the rows of the moment).

### What the violations show

- `PoolDeadlock`: `take_idle` waits for the pool mutex while it holds the statistics
  lock (`pool.rs:252-254`), and a return waits for the statistics lock while it holds
  the pool mutex (`pool.rs:376-385`). One caller reusing a connection and one
  return suffice. Afterwards every acquire, return and health check hangs.
- `SessionWorkerLives`: a Disconnect that crosses a remote close is read between two
  connections, where it ends the worker; later connects are swallowed.
- `TransferCancelDir`: the worker's cancel arm sweeps one path, `<directory>.part`.
- `DownloadHole`: a task that is aborted in mid-window never cuts its `.part` back.
- `VaultRollback`: a second Create before the first one's answer starts a second
  migration; it fails, and its rollback deletes the canary of the vault just created.
- `SftpDeletes`: the names of the selected rows are joined with the path of now, which
  the path field rewrites without touching the selection.

### Divergences no run states

Where a definition is named, it is in the module and TLC refutes it; the run lists keep
to what holds and to the findings above. The others were met in reading.

Pool and transfers:

- `shutdown()` disconnects what is idle at that moment; connections still lent to
  aborted transfers, or returning, are dropped later without an SSH disconnect
  (`pool.rs:322` says all are disconnected). They do close: `TeardownClosesAll`.
- The health check writes the number of connections it kept into `idle_connections`,
  although others may have been returned while it pinged (`pool.rs:311`, doc at 76).
- A returned connection keeps its permit, so a caller that waits on the semaphore times
  out beside an idle connection; `pool.rs:198` says it waits for a return.
- A cancel while a resumed transfer waits for its data connection is lost when the
  pool has none to lend (`connection.rs:826-850`, comment at 570-571).
- After a lost connection the worker's transfer map is gone: a cancel removes the row
  and leaves the `.part`, against `update.rs:654-656`, and a row that said "Pausing..."
  says so for ever, against `session.rs:1284-1285`.
- `transfer_control` and `resume_transfer` ignore a full command channel
  (`update.rs:2407-2413`, `2462`): a refused cancel of a paused transfer drops the row and
  leaves the `.part`; after a refused resume the row is Active with no task behind it, and
  a pause then stays "Pausing..." for ever.
- A pause that arrives when the last window is in flight shows a completed transfer
  as Paused; resuming it downloads the file again (`connection.rs:982`).
- A server that answers a read at the end of a shortened file with an empty data
  packet sets the flag of a chunk that was not fetched (`lib.rs:1364-1373`).
- An existing `.part` is taken for a prefix by its length alone, even when the remote
  file has changed (`lib.rs:1271`); two downloads to one destination share one `.part`
  (`lib.rs:1438`), and so do two uploads.
- A failed `stat` of the remote `.part` counts as "there is none" and truncates it, which
  after a lost rename answer is the only copy (`lib.rs:1522`).

Sessions, dials, forwards:

- `open_sftp` and `event_shell` take no channel permit, although the doc comment at
  `lib.rs:723` says every method does; an operation that times out frees its permit while
  its channel may still be open on the server.
- Authentication and the jump host's tunnel are bounded by the keepalive alone; with an
  interval of 0 a silent host holds a dial for ever.
- A key challenge that was shown before a host changed its key, and accepted after,
  records the old key and locks the host out. A failed write of known hosts under
  AcceptNew is ignored.
- The remote end's EOF ends a whole forwarded stream, the half still open included; an
  error of `accept` ends a forward without `Stopped`.
- The grace timer of `event_shell` starts again with every input; output is dropped by
  `try_send` when the UI's channel is full.
- A tab that asks for persistence runs `tmux` also where the probe has failed
  (`PersistenceDegrades` of `ShellPump`).
- A local worker that is blocked in a write to a full PTY sends no Closed for a
  Disconnect (`DisconnectCloses` of `LocalShell`; `connection.rs:1536-1537`).
- A `Resize` dropped because the command channel was full is never sent again. A `Connect`
  dropped for the same reason leaves the tab Connecting, or Reconnecting with no retry due.
- While the history search is open no tab redials: its subscription batch leaves the
  reconnect heartbeat out (`subscription.rs:180`, against 68-69), and neither Closed nor
  Failed closes the overlay. The other overlays' batches keep it.

Vault and history:

- `touch_vault` runs on save, unlock and enable only; `main.rs:233` says the timer counts
  from the last encrypt or decrypt. An unlock answer that comes after a disable leaves
  the master password in memory.
- A crash after the commit of a migration and before `persist_settings`, a host saved
  during a migration, and a settings write that fails, each leave a secret under a key
  nothing asks for. `SaveHost` never deletes the secret it replaces.
- A tab that has kept 200 commands records no further one (`EveryCommandSaved`;
  `update.rs:2819`). Output captured by one tab can be attached to another tab's command
  (`OutputBelongs`; `update.rs:2820`). A clear that appends overtake is undone by them. Each
  write is a blocking task of its own (`update.rs:2827-2868`): appends that change places
  leave the table in another order than the panel, and beyond its cap they prune a newer
  command than the oldest; a backfill that changes places is attached to another row.

User interface:

- Enter leaves the ghost and completes it again until the shell answers
  (`EnterDropsGhost`; `update.rs:1764-1765`); a fresh cache without a match is asked for
  again (`QueryOnlyOnMiss`; `update.rs:2010`); while the echo lags the line that ran is
  not the one that is recorded (`CommitsWhatRan`; `session.rs:1481`). After a paste, a
  command inserted or run from the history panel, a raw write or Ctrl-L the copy of the line
  is wrong until the next Enter, and ghosts and snippets go by it. Listings run in the exec
  channel's home directory; Files and `cd` queries overwrite each other's cache.
- Closing a tab may move the focus to a neighbour that is closing itself
  (`FocusMovesToLive`; `update.rs:2264-2265`).
- An overlay swallows the window's new size (`NeverOverflows`; `main.rs:1087-1088`).
- Every output burst redraws all rows, because the render key hashes the generation
  (`OnlyChangedRows`; `session.rs:24-25`).
- After Select All the old drag is still drawn while Copy takes everything
  (`SelectAllShows`). The canvas's selection survives a switch of tabs; a press reported
  to the remote program may never get its release (outside, under Shift, beyond column
  223 of X10), and later motion is reported as a drag; slow trackpad scrolling of the
  local scrollback rounds to nothing; `ClearTerminal` leaves the selection.
- A failed read counts as an empty loaded file and can be saved over the real one
  (`LoadedIsFullText`; `session.rs:1167-1169`); Edit is offered while loading; Replace
  changes the content and not the editor; a toggle drops unsaved text; a refused
  `try_send` leaves "Loading..." or "Saving..." for good.
- The remote delete dialog is the app's and not a tab's: after a switch of tabs under it,
  it deletes what is selected in the tab now in front, which it never named
  (`update.rs:2467-2479`).
- A re-read of the local pane is sorted as the remote pane is (`SortedAsShown`). A local
  rename or new folder acts in the path edited by now and replaces an existing file.
  Two listings of one directory answered out of order leave the older rows.
  `SftpDone`, `TransferFinished` and `SuggestionData` refresh the tab in front and not
  the tab of the event.
- The previous sample and the ports survive a reconnect (`ChartExact`, `PortsAreCurrent`);
  answers that change places bend the charts.
- Command line: `--trust-unknown-host-keys` defaults to true and cannot be turned off; a
  stored host's port wins over `--port`; a second import duplicates; the first match by
  name order wins, name or host; `process::exit` skips the guard of raw mode.

### Bounds, and why they are enough

- *Pool safety*: 2 callers, 3 connection identities, capacity 2, 1 fault. Two
  callers, the health check, a return and the teardown are all the actors whose
  locks can meet; the third identity lets a new dial differ from a connection on its
  way home. The theorems lift the bound. Symmetry over callers and identities is
  used in this run only, which has no liveness property.
- *Pool liveness*: capacity 1, the largest without the deadlock: with one connection
  nobody can reuse while another returns.
- *Session*: channel capacity 3 in `Desk` and 2 in `Workers` instead of 256, so that
  the full channel is reached; typing in both, two disconnects in `Desk` and one in
  `Workers`, which is enough to end the worker (`SessionWorkerLives`).
- *Transfer control*: two resumes and one lost connection, for the file and for the
  directory, with a pool that may fail to lend and commands that may be refused; more repeat
  the same map entry.
- *Download*: 5 cells in chunks of 2 give a short last chunk, resumes inside a chunk,
  two windows, and out-of-order completion; two attempts in each of two starts give
  a retry and a resume of what the retry kept; one abort. The theorems lift all of them.
- *Upload*: two cells, a window of two, two attempts, two starts, one abort: a late write
  meets a later attempt's, and a start finds every state an earlier one leaves.
- *Budget*: six requests over 3 channel and 2 bulk permits keep the code's relation
  (bulk below channels, more requests than permits). *Dials*: a tab and a process over
  one known-hosts file and one rotation. *Forward*: two streams, an event channel of one,
  so that it is full. *Cli*: two stored hosts, two names.
- *Vault*: two passwords, one host, two secret identities (the old and the new secret of
  an edited host), two blocking tasks, two heartbeats until the lock; nothing is explored
  past the first fault (`FewFaults`).
- *Shells*: three items through channels of one and a buffer of two; a paste of five
  through kernel buffers of one, which fills every buffer between worker and shell.
- *Line*: lines of at most four keys with one space, one history entry, one late answer
  per tag. *History*: two tabs, two commands, caps of two, four commits: pruning, the cap
  and two tasks at a time are reached.
- *Panes*: the remote pane once with two tabs and one name, once with one tab and two
  names and two listings; the local pane with two directories, two names, one a folder.
- *Viewer*: a file of 2 under a limit of 3 and one of 7 in pages of 2, so that the last
  page is short. *Grid*: two sizes, channels of two. *Tabs*: four. *Render*: two heights,
  three changes. *Mouse*: a grid of 2 x 1 with a program that wants reports and an X10
  limit of 2, and a grid of 2 x 2 with wheel steps of -2/3 and 4/3 of a line. *Monitor*:
  two tasks at a time, two units of CPU time, one of traffic per chart.

### Fairness

- Pool: tokio's mutex, `RwLock` and semaphore are FIFO, so a task that asks again and
  again is served: strong fairness for callers, returns, health check and shutdown
  (`TaskFairness`). Dials and pings have timeouts. `TimerFairness` is the acquire
  timer, and the drop of aborted tasks. Nothing makes a caller ask, a transfer end or
  a connection die.
- Session, transfers: the UI loop handles every event and the worker every command
  it is in a place to read; dials, probes and teardowns are bounded. The reconnect tick is
  fair while the app is subscribed to it: it is not during a history search, which is in the
  guard of `ReconnectTick`, and since nobody has to close the search `SessionSettles` makes
  an exception for it. Users, remote shells and networks owe nothing.
- Download, upload: every request has a deadline, so an attempt and each of its chunks
  make a step and a backoff ends; nobody has to start, stop or abort them.
- Dials: every step of a dial is bounded by the timeout or, with keepalives on
  (`Keepalive`), by the keepalive; the user need not answer.
- Budget: quick operations have deadlines; a transfer may hang for ever, and
  `ExecServed` holds beside it because the bulk permits leave channels free.
- Forward: the FIFO mutex serves the loop and the streams (strong fairness), opens end
  with the keepalive, pumps end once the session is down; peers owe nothing.
- Shells: the tasks and the thread are scheduled; the PTY's reader and the task that
  kills a shell ignoring the hang-up are timers and system calls that return. Strong
  fairness is for the one `select!` arm that competes with others (`TakeEnd`).
- Vault: blocking tasks end, their messages are handled, and the heartbeat ticks.
- `Desk` has no fairness: it checks safety only.

## 5. Proofs

### The pool

`SshProofs` (its last part), for every finite set of callers and identities, every capacity
of at least one and every number of faults (`PoolAssumption`; the last conjunct, at
least `Capacity` identities, only says that a dial finds a fresh one).

| Theorem | States |
|---|---|
| `PoolTypeCorrect` | `Spec => []PoolTypeOK` |
| `OneOwnerCorrect` | every open connection has exactly one owner |
| `PermitsCorrect` | free, fresh and travelling permits add up to the capacity |
| `ActiveCorrect` | `active_connections` counts the leases exactly |
| `PoolImplementsLease` | `Spec => ImplementsLease`: the refinement of `PoolLease` |

The argument is in layers. `PoolTypeOK` is inductive by itself. `Control` ties what a
task holds to where it is: a caller has a connection exactly in the places of
`AtWork`, a permit only where it can, a return that waits for the statistics has
already pushed. `OneOwner` is inductive with these two: each action that moves a
connection takes it from one owner and gives it to one other (`TakeFacts`, `PutFacts`,
`OwnerFrame`), and the sequences stay free of duplicates (`SequenceFacts`). The
counting invariants follow action by action from these and the cardinality theorems of
the library. For the refinement, the abstract `lent` is the connection of a caller
that is using it; `GrantFacts`, `ReturnFacts` and `CloseFacts` show the abstract step,
`LeaseFrame` the stuttering ones.

`OneOwner` cannot be proved alone: that an eviction or an abort drops a connection
nobody else has needs `Control`, and that the drained pool has no return in flight is
its clause about `spc = "drain"`.

### The download

`WorkersProofs`, its first part, for every size of the file, every chunk size, every clamp of the window
and every number of attempts, starts and aborts (`DownloadAssumption`: the sizes are
positive and the clamp is not empty), with a remote file that may shrink.

| Theorem | States |
|---|---|
| `TypeCorrect` | `Spec => []TypeOK` |
| `PartIsPrefixCorrect` | between attempts the `.part` has no hole below its length |
| `PromotedIsWholeCorrect` | what is promoted is the whole remote file |
| `NeverStartsOverCorrect` | no attempt resumes before the point where the one before it resumed |
| `StopSpawnsNothingCorrect` | after a stop the attempt starts no further chunk |

`TypeOK` needs `Order` (resume point, offset and total are in this order) to be
inductive. `Plan` says where an attempt stands: chunk tasks live in the drain only, and
an attempt that closes without a failure or a stop has spawned every chunk. `Kept` holds
for as long as nothing disturbs the download (the file on the server is unchanged, no
task was aborted): at rest the `.part` is a prefix, and while an attempt runs `Filled`
says what holds fetched bytes: everything below the resume point, every completed
chunk, of a chunk in flight what it has read, and every chunk below the offset is one or
the other unless something failed. `PartIsPrefix` cannot be inductive itself, because it
says nothing while chunks complete out of order. The two places where it is earned are
`BelowWatermark` (the cells below the watermark lie in contiguous completed chunks, by
`CellInChunk` and `CellIsGood`) and `WholeFacts` (an attempt that closes in good order
has every cell). The least element of a set of naturals that `Contiguous` picks comes
from the library's well-founded `<`; chunk arithmetic with a symbolic `Chunk` is in
`TimesGrows`, `TimesNext` and `ChunkOf`. `NeverStartsOver` rests on `Floor`: reads only
lengthen the `.part` and the cut is never below the resume point; it needs no excuse for
aborts.

The invariant `IInv` was checked with TLC on 4 cells in chunks of 2 before it was proved.

### Transfer control

`TransferControlProofs`, for every number of resumes and of lost connections (each
theorem assumes that `MaxResumes` and `MaxLosses` are naturals), files and directories,
with a pool that lends or fails.

| Theorem | States |
|---|---|
| `TypeCorrect` | `Spec => []TypeOK` |
| `OneVerdictCorrect` | worker and task never both clean up, never both report |
| `CanceledIsCleanCorrect` | a single file's transfer that is reported cancelled has no `.part` |

`finalized` is a flag that is taken once, but a start resets it, so `OneVerdict` is not
inductive: the reset could meet a cleanup of the worker. Three clauses rule that out.
`CancelIsLast`: the user sends nothing behind a cancel, so once the worker is in its
cancel arm or cleans up no start can follow. `Unclaimed`: while `finalized` is unset
nobody has reported or cleans up. `LeftOff`: a task that still holds the files has
`running` set, so the worker claims only after it has left off; this is why nobody can
write a new `.part` after the cleanup. `CancelIsLast` rests on the user leaving alone a
row he has cancelled (section 2). `CanceledIsCleanCorrect` assumes `IsDir = FALSE`: for a
directory TLC refutes it (`TransferCancelDir`). The conjunction was checked with TLC as
an invariant before it was proved; `Workers` checks both properties under the same names,
for a directory and for a file.

### A tab and its worker

`SessionWorkerProofs`, for every capacity of the command channel of at least one, every
number of disconnects, with typing or without (`SessionAssumption`).

| Theorem | States |
|---|---|
| `TypeCorrect` | `Spec => []TypeOK` |
| `SessionSoundCorrect` | the phase shown agrees with the worker: no connection behind a resting phase, no Connected without one, and no Connect queued twice or swallowed |
| `UserDisconnectWinsCorrect` | a connected tab on which the user pressed Disconnect becomes Disconnected and nothing else |

What the UI knows is always older than what the worker does, so the invariant is about
the news on its way. The events of one attempt are sent in an order (`Rank`), and the
stream holds events of one attempt only. `Announced` says, for each place of the worker,
which events can still be in the stream and which phases the UI can be in; `Busy` (an
attempt is queued, dialed, up, or told of by an event) excludes a pending reconnect and a
pending key decision, which is why there is never a second Connect. `Unannounced` is the
time before the worker's channel is known, when a Connect is parked, and `Gone0` the time
after the tab. `SessionSound` is the part of this that a user sees.

### The machines of `Workers`

`WorkersProofs`, for every value of the bounds of the run (`WorkersAssumption`: naturals,
of which the number of tries, the command channel, the output and the coalescing batch are
at least one; `DownloadAssumption`).

| Theorem | States |
|---|---|
| `WorkersTypesCorrect` | `MCSpec => []WorkersTypesOK`: the type invariants of all seven machines |
| `UploadKeepsContentCorrect` | until a disturbance: the remote `.part` has no hole, the destination is never torn, and while it is absent the `.part` is whole |
| `OneVerdictCorrect`, `CanceledIsCleanCorrect` | those of transfer control, for the directory and for the file of the run |
| `OutputSoundCorrect` | output and exit status arrive in the order written, complete unless something was dropped; Closed is last, behind the exit status |
| `DownloadStepsCorrect` | the action properties of the download, in the sum |

*Upload.* The server handles writes after the attempt that sent them gave up, beside those
of the next one. `UploadInv` is `PartKept` for as long as nothing disturbs the upload: the
`.part` is a prefix, and in either row of writes each cell comes behind all the cells below
it that are not there yet (`InOrder`), so whichever head is handled next the `.part` stays a
prefix. What an attempt has sent is there or on its way; at the flush everything was sent,
hence after it the `.part` is whole, and only then is the destination removed and the
`.part` renamed. That the row of an earlier attempt cannot spoil the later one is
`InOrder` of `late`, and the reason for `disturbed` is that a truncated `.part` breaks it.

*Output.* An item passes five stages: the wire, the pump's channel, the coalescing buffer,
the UI's channel, the terminal. `ShellInv` says that each stage is sorted, that all numbers
of a stage are below those of the stage behind it (`Flows`), and that the stages together
hold `1 .. written` unless a message was dropped (`Complete`). `Told` is the end: Closed is
the last thing in its channel and sent only by a worker that is done; the exit status is
told when the buffer is empty, which is where the code flushes before it reports.

*The sum.* `WhoSteps` says that a step of the run is a step of one machine and leaves the
variables of the others alone, so that the conjunction of the machines' invariants
(`WorkersInv`) is inductive. The invariants of control and tab are those of
`TransferControlProofs` and `SessionWorkerProofs`, whose lemmas are used through `INSTANCE`
under the run's substitutions.

### Dials, budget, forwards, client

`SshProofs`, for any number of tabs, processes, key changes, requests, permits and streams
(`ConnectAssumption`: the number of rotations is a natural and `None` is no challenge;
`BudgetAssumption`: fewer bulk permits than channel permits, finite sets of requests, a
request is of one kind; `ForwardAssumption`: the accept loop is no stream). The event
channel of a forward (1) and the number of stored hosts (2) are those of `MCSsh`.

| Theorem | States |
|---|---|
| `ConnectTypeCorrect`, `BudgetTypeCorrect`, `SshTypesCorrect` | the type invariants |
| `KnownHostsSoundCorrect` | under Strict and ConfirmNew the file vouches for every key a dial went on with; while no server has changed its key, nobody is locked out |
| `NeverAskedAgainCorrect` | a key that was accepted is not asked for again |
| `SuccessIsWholeCorrect` | a one-shot command that failed does not end in success |
| `BudgetSoundCorrect` | the permits of both semaphores are conserved, the queues are exactly the waiters, nobody waits while one is free, and transfers leave room for a listing |
| `StepsSoundCorrect` | the two before it, a stopped forward opens nothing, a download of the client that leaves the local file torn says so, and it uses one credential |

*Dials.* `HopOK` ties the place of a dial to how many keys it has seen; `Trusted` says that
each of them was in the file when the policy checks it, and needs that the file only grows;
`Current`, while no server has changed its key, that they are the servers'. The rest is
about the file: whatever was accepted is in it (`FileOK`), and a challenge shows the key of
the host it names and exists only where a dial waits for it (`ChallengeOK`).

*Budget.* A semaphore is proved once (`Sem`): free permits and holders add up to `N`, the
queue is free of duplicates and consists exactly of those who wait, and nobody queues while
a permit is free. The last clause carries the hand-over: a release gives the permit to the
head of the queue or, with an empty queue, back. Both semaphores are instances of it, over
the transfers and over all requests.

*Forward and client.* The session mutex is a FIFO queue whose members are exactly its
waiters, the accept loop included (`LockWaiters`); the session is down once the loop has
carried out the stop, and a stream opens its channel only as the head of that queue, so none
is opened after. For the client, `ClientInv` says that a process that dials has the
credential it was given and that the stored ids are `1 .. n`, which is why `Resolve` finds
one host for a name or a number.

### The vault

`VaultProofs`, for every set of passwords, hosts, secrets and blocking tasks, and every
number of faults (`VaultAssumption`: the default key, the blank field, `None` and the
passwords are different things, and the timer has at least one tick).

| Theorem | States |
|---|---|
| `TypeCorrect` | `Spec => []TypeOK` |
| `CoherentCorrect` | disk and memory agree, and every stored secret opens with the key of the moment |
| `NeverHalfConvertedCorrect` | the secrets are all under one key |
| `AuthResolvesCorrect` | no saved host refers to a secret that is not stored |

`AuthResolves` needs no excuse: a save writes the secret before the host that refers to it.
The other two hold until one of the faults the code does not protect from (`faults`). They
speak of moments between two migrations; `Undisturbed` carries them across: there is at most
one migration, and for each kind and each place of it the key of the secrets, the canary and
`enabled` are known (`Preparing` before the conversion of a new vault, `Converting` on either
way, with the batch of ids that were read still being all of them at the commit). `TasksOK`
gives the places a task of each kind can be in.

### The user interface

`DeskProofs` and `DeskTypeProofs`, for every value of the bounds of the run, which are the constants of `MCDesk`
(`DeskAssumption`: they are naturals; pages, grids, tab bar and wheel are not empty; a page
and a small file fit the viewer's limit and a large one does not; tabs, directories, local
names and the slots of the rail are finite sets, and the folder that the local pane lists is
one of the directories). What stays as in the run is the data: which lines
can be typed and what completes them, the two programs the mouse meets, the wheel's turns,
the kinds of boot of the sampled host.

| Theorem | States |
|---|---|
| `SessionAmongMachines` | `MCSpec => Spec`: the tab and its worker of the run are those of `SessionWorker`, whose theorems hold here |
| `GridSoundCorrect` | the terminal has the size last worked out for the area the app knows; once an attempt is up and its commands are carried out, the PTY has the terminal's size, unless a resize was refused |
| `InputSoundCorrect` | until something the editor does not follow reaches the shell, the app's copy of the line is the shell's; queries are bounded; what was selected is shown and copied, but for Select All; what the remote program was told of a button is true, unless a release went astray; the wheel loses no fraction |
| `DiskFollowsPanelCorrect` | once the tasks are done, and unless a clear overtook one, the table is the newest part of the panel row by row if they ran in order, and otherwise has as many rows and no command more often |
| `PaneSoundCorrect` | remote rows are those of the path; a local delete reaches only what its dialog names, a remote one with its own tab in front and the pane at rest; the rail's chart loses no traffic and its table is that of the panel; with the exceptions of section 4 |
| `ViewerSoundCorrect` | what is shown, edited and saved is a text of the viewer's file, the last page is the file's end, no page is saved as the whole; a file that was empty when read, or not read, is exempt |
| `DeskTypesCorrect` | the type invariants of all machines |
| `DeskStepsCorrect` | three action properties: a disconnect by the user wins, a background tab that goes leaves the focus, a frame is current |

Each machine has an inductive invariant of its own, and `DeskInv` is their conjunction:
`OneMachine` says that a step of the run is a step of one of them and a stutter of the rest.
The action properties follow from a state and the step: `DeskSteps` uses `BarInv`,
`CanvasInv` and `UserDisconnectWins` of `SessionWorkerProofs`.

- *Grid* (`GridInv`). The size travels from the terminal to the PTY as orders in the
  channel. `SizeArrives` says that the last of them that carries a size has the terminal's,
  or the PTY has it if there is none; `GridProtocol` gives, for each phase of the tab, where
  the worker and the news can be, which is why no order of an earlier attempt is carried out
  behind a Connect.
- *Viewer* (`ViewInv`). The invariant is about the answers on their way too: a read asks
  for all of a small file or for a piece of a large one, a write carries the whole of its
  file, and what is open holds texts of its own path whatever path was open at the request.
- *History* (`StoreInv`). The panel is ahead of the table by the appends under way.
  `TablesMatch` counts: as many rows as the panel less those appends, up to the cap, and no
  command more often; it holds until a clear overtakes a task (`behind`), with the counting
  lemmas on `Count` and `Appends`, whose cardinalities change by one. `InOrder` holds until
  tasks change places (`shuffled`): the `k` newest rows of the panel are those the `k`
  appends under way will write, an output under way is that of the row before the commit it
  was started with, and the rows below are the table's, but for a newest output still under
  way. A commit extends it (`OrderCommit`); the task that is first in the order is the append
  of the oldest of the `k` rows or the output before it (`OrderNext`, `OrderAppend`,
  `OrderFill`); with no task left `k` is 0 and the table is the panel's newest part
  (`OrderRests`).
- *Line* (`LineInv`). `CopyOK` is inductive by itself; the bound on queries needs, for each
  tag, that a mark that was taken back leaves only late answers in flight.
- *Mouse* (`PressInv`, `SelectInv`). `Committed`: once a drag is over, its ends are the
  selection. The tint is that of the ends, the copy that of the selection, so the two agree;
  the wheel's remainder is an equation over the integers.
- *Panes* (`PanesInv`, `PaneInv`, `LocalInv`). A remote dialog's names contain the selection
  of its own tab as long as it is open: what selects needs that no dialog is, and a listing
  empties the selection. What is reached is the selection's names under the path of now,
  which is the selection itself when the rows are those of the path.
  For the local pane, whose selection is a set of indices, rows are numbered from one and
  what is selected is what the user picked in these rows.
- *Rail, tab bar, canvas* (`RailInv`, `BarInv`, `CanvasInv`). A task's answer holds counters
  of its host and there is none without a connection; the tab in front is one of the bar;
  a cache with the key of the moment holds the rows of the moment.

*The types.* Few of these type invariants are inductive by themselves. `DeskTypeProofs` has
for each machine `<machine>Types`, which a step keeps given the invariant above, and
`<machine>TypesMean`, by which the two imply the type of the module. What they rest on:

- *Line*: a ghost is the end of a word of the listing, of the flags or of a line that was
  typed, and it becomes part of the line when it is accepted; so ends of ends are ends
  (`EndOfEnd`), and the command, the token and the expanded snippet are pieces of lines
  (`SplitFacts`, `ExpandedFacts`).
- *Remote pane*: the guard of a listing bounds the sum of all listings under way, the type each
  of them. `SumBounds` proves the one from the other, for the library's fold, by the
  cardinality of the set it runs over.
- *Local pane*: sorting keeps every entry, once, because its order is total on names that
  differ: each entry has a place of its own (`PlaceFacts`, `SortedTypes`).
- *Viewer*: a page that is appended begins where the text ends, so the text stays one stretch
  of the file (`ViewInv`, `StretchFacts`).
- *Rail*: the percentage is one for any two samples, those of counters that went backwards
  included, because the code's subtractions saturate (`ComputeFacts`).
- *Mouse*: every cell the canvas remembers is one of the largest grid's, through drags and
  through double and triple clicks, and a drag has two ends (`CanvasFields`, `ClickTypes`).
- *Tab bar*: numbers are given out once, so the tabs are no more than were opened.

The proof of the panes failed at first, and rightly: the guard of `OpenPrompt` in `SftpPanel`
was an implication by precedence and let a prompt open over a dialog, which `update.rs` does
not. It is a conjunction now.

### What is only model-checked

- All liveness: `EveryAcquireEnds` and the other properties of `PoolLive`, `TransfersEnd`,
  `CancelWorks`, `PauseConfirmed`, `SessionSettles`, `ShellsEnd`, `SshProgress`, and the
  vault's. Reasoning under fairness and `ENABLED` are out of the prover's reach.
- The six runs that find a violation.

Every safety property of the passing runs, invariant or action property, is stated by a theorem.

## 6. Not modelled

- Views, theme and animation are functions of a state; what they let the user press is
  in the guards of the user's actions. Configuration and the core types are values and
  their (de)serialisation; what settings decide is a constant or an input.
- Terminal emulation is `alacritty_terminal`'s, the SSH protocol `russh`'s, painting
  iced's, storage `redb`'s: they appear as the outcomes the code distinguishes.
- Tables of data (flags, strategies, colours, key encodings) are constants or left out.
- Of the modelled parts: drags of files between the panes, the walk of a directory as
  more than one file in flight at a time, progress numbers, the palette and its fuzzy
  order, highlighting of lines.
- The `legacy_reference` text is not part of the build.
