# agent-observer in TLA+

agent-observer is a terminal board of coding agents. It tails the transcripts and task files that
agents write, watches them with fsnotify and a polling safety net, merges what it reads into one world
snapshot, and shows that world in a terminal program that can also run agents in managed panes. This
directory models the parts of it that keep state and meet other actors, checks them with TLC on small
instances, and proves most of their safety properties for every instance.

## The system

| Component | State | Operations | Talks to |
| --- | --- | --- | --- |
| Tailer (`core/tail`) | offset, size, mtime, inode, "skipping" per path | `Lines`, `TailFrom`, `Prune` | the file system; called by the adapters |
| Watcher (`core/watch`) | hot files, pending providers, debounce timer | `Start`, `MarkHot`, goroutine `run` | fsnotify; a channel of Dirty messages to the engine, which calls `MarkHot` back |
| Engine (`internal/engine`) | last snapshot per provider, refresh channel | `Run` (select), `scan`, `RequestRefresh`, `markHot` | adapters, watcher, store; the UI asks for refreshes |
| Store (`core/store`), aggregation (`core/aggregate`) | the world | `Replace`, `Snapshot`; `Merge` | engine writes, UI reads |
| Claude adapter | tailer, folded transcript per path | `Snapshot`: task scan, session files of processes, transcripts, `mergeSessions` | tailer, task scanner, process table |
| Codex, Cursor adapters | tailer, folded transcript per path | `Snapshot`, status from the last event or the mtime | tailer |
| Manifest adapters, registry | what a manifest says; tailer, folded file per path | `Snapshot` over several globs, argv of its commands | engine |
| Task scanner (`internal/claude`) | cache of records by path, size and mtime | `ScanContext` | the task directories; called by the claude adapter |
| Managed panes (`internal/tui`: shell, sessions, launcher) | up to four PTY panes, which is active, the question before a stop | start, read, stop, evict, cycle, quit | processes, terminals, timers, as messages to `Update` |
| Screen (`internal/tui/screen.go`) | cells, cursor, escape sequence | `write`, `resize` | fed by the panes |
| Dashboard (`internal/tui/model.go`) | focus, selections, scrolls, filter | `Update` on keys, mouse, sizes, snapshots; `View` | snapshots of the engine |
| Event loop (`model.go`, `run.go`) | focus, filter line, launcher, question; who gets a key | `Update` on keys and clicks; `Run` | panes, engine (`Send`, `RequestRefresh`) |
| Application, schema, command | options from flags, environment, file | `Run`, reports, redaction | wires the rest |

What is hard in it, and the property each component owes:

* **Concurrency.** Agents write while a tailer, a scanner or an adapter reads; the watcher's and the
  engine's goroutines share a channel, a context and the hot set; panes are started, read and killed
  beside `Update`. No change may be lost, no read doubled, nobody may wait for ever.
* **Incremental reading.** A tailer sees a file in pieces: partial lines, lines too long to keep, a file
  renamed over or made anew. It must hand out each line whole, once, in order; the adapters must fold each
  line once and forget when the tailer forgets.
* **Caches.** Records by size and mtime, snapshots by provider: neither may hold what the disk did not.
* **Budgets.** Hot watches and panes are limited; making room must take what is stale, never what is used.
* **Statuses.** What the board says of a session is derived from files that outlive their process, and from how long
  ago a file was written, of which no event tells. It must come true in the end, whatever was read too early.
* **Modes.** Launcher, question, filter line and pane take the keys in turn, and a pane that starts takes the focus: the
  user must be able to leave; nothing may start that the options forbid.
* **Derived state.** Selections and scrolls are indices into lists that every snapshot sorts anew; the
  cursor is an index into rows that every resize replaces.

## The modules

| Module | Models | Correspondence |
| --- | --- | --- |
| `TailFile` | `tail.go`, the computations | `Rotated`, `Same`, `Cold`, `Consume` are the branches of `Lines`, `TailFrom` and `consume`. A file is its inode, size, mtime and the positions of its newlines. |
| `Tailer` | `tail.go`, one path and its writer | A call is two steps, the Stat and the open-and-read, since another process runs between them. `Faults` says what else happens to the path, `Racing` whether a file may be put there inside a call; it may be removed there in any case. |
| `LineFeed` | what a tailer promises | The lines of the present file, each fed when the mark passes its end, or exempt. `Tailer` implements it (`IsLineFeed`). |
| `Watcher` | `watcher.go` | A step is a critical section under `w.mu` or a turn of the select. `hot` lists `w.hot` stalest first. fsnotify is a queue that may be bounded and may drop. |
| `Engine` | `engine.go`, `Merge`, the store | A scan is a step per file read: agents write between them. A snapshot is a version per file, and may miss files whose listing, stat or read fails or that a cancel cuts off: `scan` publishes it all the same. `missed` and `best` are history. |
| `Observer` | both together | Shares the channel, the context and `MarkHot`; carries `notified`, the version last reported for each file. |
| `Mirror` | what the observer promises | For each file a version it has had, never older than it was ever shown, and a newer one in the end; nothing of a file only if the last snapshot missed it. `Observer` implements it (`IsMirror`), and the poll gives it its fairness (`PollCatchesUp`). |
| `Transcripts` | claude `transcripts.go` and the `Snapshot` of codex, cursor and manifest | A scan is two steps per transcript, the look at its time and the read, over `TailFile`; one byte is one line. `KindOf` says whose a path is: what a line counts for, when it is too old, how its status is derived. A path that two globs match occurs twice in `Paths`. |
| `Sessions` | claude `sessions.go`, `adapter.go` over `Transcripts` | Processes start, turn, exit and crash; a step per session file read; `Merged` is `mergeSessions`. `board` is what was published last. |
| `TaskScanner` | `scan.go` | Listing a batch, the first Lstat, the read, the second Lstat, pruning and publishing are steps. A stamp stands for size and mtime; `Rewrite` leaves it as it is, and `blurred` (history) remembers which. |
| `Panes` | `shell.go`, `sessions.go`, `launcher.go`, parts of `model.go` | One record per pane: its start command, process, terminal, read and kill timer. Keys and messages are actions of `Update`, taken while it returns: writing text to the screen may not (`Hung`). |
| `Screen` | `screen.go` | A character is a step; a tab is a step per blank printed, as in its loop. |
| `Dashboard` | `model.go` | `m` is the Model, `Clamped` is `clamp`, the lists are sorted and filtered as in the code; one action per kind of message. Batches that tie are a set of orders, of which each call gets one, as from a map and an unstable sort. `handed` is history: the shell gave up the focus and nothing was clamped since. |
| `Options` | `config.go`, `run.go` | The four switches for each of shell and actions and the file; `Consented` is the reference, read level by level. |
| `Program` | `run.go`, `Update` in `model.go`, `launcher.go` | Over the panes of `Panes`: who gets a key, the overlays, and the engine beside the loop as scan, send, select. |
| `Bounds` | `clamp` and `max` in `model.go` | Shared by `Screen` and `Dashboard`. |
| `TailerProofs`, `WatcherProofs`, `ObserverProofs`, `TranscriptsProofs`, `TaskScannerProofs`, `PanesProofs`, `ProgramProofs`, `TuiProofs` | | Theorems; `TranscriptsProofs` is about `Sessions` too, `TuiProofs` about `Screen` and `Dashboard`. |
| `MC*` | | small instances for TLC |

`Transcripts` and `Tailer` use `TailFile`, `Sessions` extends `Transcripts`; `Observer` instantiates `Watcher` and `Engine`, which
also stand alone (`Watcher` with any caller), and `Mirror`; `Program` instantiates `Panes`, which alone leaves out who gets a key,
and has an engine of four states, whose scans `Engine` has in full. Operators introduced by "Mutant:" are faulty variants of a definition that
the specifications do not use: each property is known to fail when the definition is replaced by its variant.

## What is checked

| Run | Question | Bounds, and why they do |
| --- | --- | --- |
| `MCTailer_lines` | Are lines whole, in order, complete, and delivered in the end, over appends and replacements? | Files of four bytes with any newlines, lines of up to one byte kept, a window of two, one replacement or truncation, two inodes, two clock values. A file holds a long line, its end and a short one; a window falls in and between lines. |
| `MCWatcher_hot` | Do the hot set, fsnotify, the pending set and the timer agree? | Three files for two places, so that eviction happens; a channel of one, so that a flush blocks; up to three queued events. |
| `MCObserver_providers` | Is a reported change ever lost? Is the store right after partial scans? | A file of each of two providers, changed once each, any snapshot may miss any file, one hot place: a scan of one provider beside the cache of the other. With one change a file is older than it was when it is shown as nothing; that an older version never comes back among several is what `ObserverMirrors` proves. |
| `MCObserver_signals` | Do changes, refreshes and the poll reach the store in the end; do both goroutines stop? | One file changed twice, a queue of one event that overflows: a change during a scan, one that is never reported, and one that a snapshot misses. |
| `MCSessions_board` | Is every line folded once, whatever ages, fails or is matched twice? Does the board tell in the end which sessions run, what their status is and what was written? | A claude transcript with two processes, a rollout, and a manifest file that two globs match, of three lines each, cold window two; `MaxChanges` = 3 changes of agents, processes and faults at any moments: a crash, a restart and a turn, or a write between look and read, a failed listing and another write. |
| `MCTranscripts_unreadable` | The same when reads fail: **violated**, see below. | One transcript of up to three lines. |
| `MCPanes_all` | Is every pane read once, evicted only when dead, never orphaned? | Three panes asked for, two allowed, one that leaves a child behind. |
| `MCProgram_out` | Can the user always leave; is a refresh shown; does a stop end a pane; does nothing start without consent? | All combinations of options; one pane, which a key or a click may start in any mode and which takes the focus when it has started, at any later moment; a child that holds the terminal; output that `Update` never gets done with. |
| `MCScreen_cursor` | Is the cursor on the screen; do tabs end at stops? | Widths and heights from the least up to seven, stops every four columns, numbers up to nine: each coordinate can be below, at and past each edge. |
| `MCScreen_tab` | Does a tab end? **Violated**, see below. | The same. |
| `MCTaskScanner_scan` | Is the cache true and pruned, are records of this scan, does the world catch up? | A file in each of two batches, two changes of files or modes: one before and one during a read, or both in one, under a new stamp or the old. |
| `MCDashboard_select` | Are the selections rows there are, does View show what Update sees, does a click select what it is on? | Three snapshots that shrink, grow and reorder, two filters, a terminal where lists scroll and one where they do not, both layouts; two batches that tie, of different tasks. |

Fairness. `Tailer`: the engine's poll calls again and again and a call returns (weak fairness of the call). 
`Observer`: both goroutines run on when they can, and Go's select picks a ready case at random, so that a case that
is ready again and again is taken in the end (strong fairness of the cases of the engine's select); ticks are only
promised where the property is about the poll, and then also that a file that is read again and again is not missed for ever
(`ReadsSucceed`). `TaskScanner`: scans follow each other and end. `Sessions`: scans go on for ever, agents
and faults owe nothing and are bounded, so that what is said of the end is said of the time after them. `Panes`, `Program`: messages
arrive as long as `Update` returns, reads that can return do, timers fire; processes need not exit; scans end, the select as in `Observer`; the user owes nothing
until he wants to leave, and then presses ctrl+o, esc and q in turn. That `Update` returns is not assumed: `AlwaysAWayOut`, `RefreshShown`
and `StopClosesPane` except a run in which it hangs, which `MCScreen_tab` shows to be possible. `Screen`: `write` goes on with the character it began.

Deadlock checking is off where a program ends or its bounds are used up: panes after a quit, the watcher after its exit.

### Disagreements with the documents

* `MCTranscripts_unreadable`: after a failed open or read the tailer has forgotten the path and the adapter has not.
  The next call returns the whole file and it is folded onto what was folded before: a session shows turns and tokens
  its transcript does not hold (`transcripts.go:114`; README.md:294 "Message history and token usage are not invented").
* `MCScreen_tab`: `put` prints blanks until the next multiple of eight, `print` stops at the last column: near the right
  edge of most widths a tab never returns (`screen.go:70`; README.md:142 lists tabs). `Update` writes to the screen
  itself (`model.go:271`): then q, esc and ctrl+o are not handled either, and the engine waits in `Send`.

Seen while modelling and outside of what the runs check:

* a file renamed over between the Stat and the open of one call is read at the old offset, and one that was
  truncated and has grown again passes for an append, or for no change if it has its old size and the clock has not
  ticked (`tail.go:89`, `tail.go:50`);
* steady writes put the debounced reaction off without bound (`watcher.go:193`; README.md:3 says under 100 ms);
* a second shell starts if it is asked for while the first is starting (`model.go:1347`, `sessions.go:108`), and `y`
  stops the pane that is active by then (`model.go:284`);
* `--act` under `AGENT_OBSERVER_NO_ACT=1` stays off, and `shell = true` in the file under `AGENT_OBSERVER_NO_SHELL=1` is an error that
  speaks of two variables (`config.go:193`, `config.go:116`), although flags are said to come before the environment and it
  before the file (fileconfig.go:12; README.md:152); `Options` computes both;
* a session file whose process crashed hides a live one of the same session that is listed before it, and keeps its session alive
  once the number is in use again (`sessions.go:70`); a rollout whose date is past the cutoff is not listed though it is
  written to (`codex/adapter.go:214`);
* `updateShellKey` gives the focus to the tasks without a clamp (`model.go:1404`). View clamps its copy and scrolls the tasks to their
  selection, the next click is computed from the unscrolled model (`model.go:454`) and selects another task than the one drawn, although
  README.md:116 says "Click a run, task, or warning row to select it". `ClickSelectsShown` and `ViewIsModel` except this state (`handed`);
  without the exception TLC refutes the first in six steps: a filter typed or a smaller window while the shell has the focus, ctrl+o, a click;
* batches that agree in priority and time are sorted by an unstable sort from a map (`model.go:1530`), anew by whoever asks: a click on one
  may select the other. `ClickSelectsShown` excepts the tasks of such a batch (`Tied`), and asks of the batches themselves that those that
  may be drawn on a line are those that may be selected by a click on it;
* a click on the border under a list selects a hidden row (`model.go:438`), and the wheel does not scroll the
  focused list past its selection (`model.go:1246`);
* a task file that has become unreadable is served from the cache (`scan.go:214`; README.md:225), and so is one that was
  rewritten in its size within one tick of its mtime;
* a snapshot that failed or was cut off by the end of the context is published like any other, without the sessions it missed
  (`engine.go:118`, `transcripts.go:87`, `codex/adapter.go:112`).

## What is proved

TLAPS checks the following for every value of the constants.

* `TailerProofs`. `TypeCorrect` needs no assumption. `WholeLines`, `NothingLost`, `ResumesAtLineStart`,
  `HandedOutInOrder` and `ImplementsLineFeed` assume `RaceFree`: the path is renamed over, truncated and made anew between
  calls only, and a file cut short is looked at before it has grown past its old offset. The properties are not inductive: `OnlyWholeLines` says nothing of the
  state from which the next line is cut. `IInv` adds `Follows` (inode numbers, or a size below the offset, tell the lifetimes of a file apart, and the
  offset lies between where tailing began and the size), `Handed` (all that was returned lies before the offset),
  `Skips` (a tailer that skips is inside a line longer than the limit or the one the window cut) and `Complete` (the lines
  behind the offset were returned or are exempt). Each step of `Next` preserves it; the heart is `ConsumeKeeps`, that one read from a line
  start ends at a line start. The refinement maps the offset to the mark of the feed.
* `WatcherProofs`. `TypeCorrect`, `BudgetKept` and `PendingTimed` for any files, providers, budget and caller; their conjunction is
  inductive, by lemmas on what the list operations of the hot set return. `HotWatched` assumes `Lossless`, that fsnotify drops no event,
  without which it is false.
* `ObserverProofs`, for any files, providers, order of the adapters, budget and caller, under `ObserverAssumption`. `StoreIsCache`:
  `ScanInv` says what the cache, the due providers and the store owe each other at each step of a scan.
  `ObserverMirrors`: watcher and engine implement `Mirror`, step by step; most steps stutter, a write writes, and `Replace` shows, for
  which every version read must be one the file has had, and not older than any shown before, over snapshots that miss the
  file and are cached: `lastSnaps` is then nothing, or what was folded before.
  `SignalsKept`: of a reported change that no snapshot has read, the invariant says which of them holds it, unless a snapshot has missed the file since: the event queue, the pending set
  (with its timer), the flush that waits for the channel, the channel, or a scan that has still to read the file.
* `TranscriptsProofs`, for any paths, kinds, windows and ages. `FoldsOnce` and `ExactTotals` are about `Sessions` and rest on
  `SessionsAreTranscripts`, that sessions and processes disturb no scan; `InventsNothing` is about `Transcripts`. All three assume `Readable`, that no
  read fails: `MCTranscripts_unreadable` shows that they fail without it. `TranscriptsAssumption` has the windows positive, as the
  constants of the code are. `IInv` says of each path that it is `Untouched` or `Followed`: what was folded are the lines from its start
  to the tailer's offset, which is the end of a line, and the tokens are those of its kind; the heart is `FoldKeeps`, over `ConsumeTranscript`, and
  counts lines by a bijection (`LineCount`).
* `TaskScannerProofs`. `CacheTrue` and `RecordsOfThisScan`, for any files and batches. Files rewritten under the stamp they have are excepted (`Blurred`), as
  `readRecord` cannot tell. `IInv` adds that other stamps are given once, that what the first `Lstat` saw was
  true of some moment of this scan, and that what is cached was the payload of its stamp then; the second `Lstat` is what makes the
  read fall between two equal looks.
* `PanesProofs`, for any number of panes, any budget and any processes that leave children behind. `TypeCorrect` (the budget), `ReadOnce`, `NobodyOrphaned`,
  `OnlyExitedEvicted`. `IInv` adds the life of a pane (`PaneOK`: only a pane whose start was handled is shown or closed,
  one that was closed is waited for, one that is shown and open is read) and that ids are fresh.
* `TuiProofs`. `CursorOnScreen` for every size and sequence; `TabsEndAtStops` with `OnItsWay`, that a tab on
  its way has not passed its stop. For the dashboard `SelectionsInRange`, `ViewAgrees` and `ClicksSelect`, for any snapshots of finitely many rows:
  `ClampedSettles` shows that what `clamp` leaves it leaves again, and `IInv` that every step but two ends with it; those two
  move the focus to the shell or back, after which the tasks alone may have to be scrolled. `ViewAgrees` and `ClicksSelect` except the
  tasks in that state (`handed`) and the tasks of a tied batch, of which the code does not keep the promise. Of tied
  rows `ClicksSelect` says that what may be drawn and what may be selected are the same rows.
* `ProgramProofs`. `Consent`: of any number of panes, none is ever started that the options do not allow, under `ProgramAssumption`
  only. `Inv` adds to it that what is allowed was consented to, that every started pane is of an allowed kind, and that the launcher
  is open only where actions are allowed: `LauncherKey` starts a run without looking at the options again. `AllowedIsWished` is the part
  about the options, for all that `validateOptions` lets pass; the rest shows that each step either starts nothing
  (`ChangeKeeps`) or starts one pane behind a test of `allowed`. `ProgramRunsPanes`: overlays, focus and engine add nothing to the panes, so that
  what `PanesProofs` says of `Panes` holds of the program.

Only model-checked: all liveness (`EveryLineArrives`, `SignalServed`, `RefreshServed`, `CancelStops`, `PollCatchesUp`, `TurnsArrive`, `GoneIsDone`,
`LiveIsShown`, `StatusDecays`, `CatchesUp`, `StopClosesPane`, `AlwaysAWayOut`, `RefreshShown`), which the
prover does not reach. Not proved either are what a recursion computes over all data, of which the models have none left, and that the rows of
`Dashboard` are sorted, which no property is about.

## What is not modelled

Rendering, key encoding, the other options, reports, redaction and telemetry are sequential code over text.
What a record says (statuses and roles inferred from a payload, titles, working directories) is left out of every
module. So are the ids that a line of a rollout or a field of a manifest gives a session, several cursor transcripts in one
directory (the last is shown), and manifests that share a name. What `Update` still handles between the key that quits and the
end of the loop is left out of `Panes` and `Program`, and so is what becomes of the processes after it. In `Program` the right
panel can be clicked as soon as shell or actions are allowed, shown or not: more than the code allows, and harmless to what is checked.
The store's deep copies are taken to leave nothing shared.
Stopping, draining and resetting the debounce timer is one assignment in `Watcher`, so that an expiry left undrained would not be seen.
`MissFile` does not say why a file was missed: a failing read is followed to the folded lines in `Transcripts` only.

## Plan

Done: `TailFile`, `Tailer`, `LineFeed`, `Watcher`, `Engine`, `Observer`, `Mirror`, `Transcripts`, `Sessions`, `Panes`, `Options`, `Program`,
`Screen`, `TaskScanner`, `Dashboard`; of every invariant and safety property that a passing run checks, a proof.

1. Prove what the liveness properties rest on and TLC only sees on small instances: that what is published is what was read last, that a
   quit is seen by every waiting goroutine, that a poll makes every provider due.
2. Extend the model: the titles of codex sessions, tailed from a file that is never forgotten; several files of one cursor
   session; two manifests of one name in the engine's cache and the watcher's targets.
