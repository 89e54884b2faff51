# whenfs: a TLA+ model

whenfs records who changed which file and why. A daemon, `whodidd`, listens to
the kernel on three queues, keeps a table of processes in memory, writes an
append-only log and an SQLite graph; command-line tools read the graph and undo
what a command did; scripts take the snapshots the undo restores from; a FUSE
file system shows them as directories named by time.

This directory holds the specifications of that program, the TLC instances that
check them, and theorems with machine-checked proofs. File and line references
are to the repository root's files (`src/` in PROJECT.json stands for the root).

## 1. Inventory

| Component | State | Operations | Interacts with |
|---|---|---|---|
| Process table, `proctree.rs` | `HashMap<i32, ProcNode>`: parent pid, start, image, exit, persisted mark | `seed`, `on_fork`, `on_exec`, `on_exit`, `unpersisted_chain`, `mark_persisted`, `evict_stale`, `info` | all four daemon threads, one mutex |
| Causal graph, `graph.rs` | SQLite tables `processes` (key pid, start) and `events` | `record_existing`, `record_exit_at`, `record_event_full`; `log_file`, `blame`, `ancestry`, `descendants`, `events_by_tree`; `prune` | written by the daemon (one mutex per statement), read and pruned by `chronicle` from another process |
| Daemon, `whodidd.rs` | the threads' positions, the copies they hold | bootstrap from /proc, two fanotify loops, the proc-connector loop, the eviction loop | kernel queues; table; graph; log |
| Kernel interfaces | processes, pids, clock, queues | fork, exec, exit, write, /proc | external to the repository |
| Undo, `revert.rs` and `chronicle revert` | none of its own: the live tree, the snapshots, the manifest | `plan`, then one step after another | the graph, the snapshots, the live tree, whatever else writes to it |
| Retention, `chronicle prune` | none of its own | two DELETE statements | the daemon, concurrently |
| Snapshot taker, `snapshot.sh`, `snapshot-loop.sh` | the directory of snapshots | choose a name, wait, copy in one of three modes | the live tree; undo, whenfs, whodid |
| Time expressions, `time_expr.rs` | none | `resolve_target`, `find_nearest`, `resolve` | whenfs, chronicle prune |
| File system, `main.rs` | inode and handle tables | `lookup`, `getattr`, `readdir`, `open`, `read`, ... | snapshots, the kernel's cache |
| Audit query, `whodid.rs` | none | `list`, `diff` (brackets an event between two snapshots) | the log, the snapshots |

What is hard about it, and what makes each part correct:

* **Process table.** A pid is a name that is reused, and every field that names
  a process is a bare pid. An exit must mark and not remove, because the writes
  of the dead are still in another queue; an eviction must wait for them; the
  persisted mark must mean that the row is there, since both the exit
  write-through and the climb decide by it.
* **Graph.** Each statement is atomic and no sequence of them is. Times have a
  resolution of one second, windows are closed at both ends, and rows of several
  lives of a pid coexist. A write must be bound to its own writer or to nobody;
  ancestry must show real parents; a manifest must be exactly what the tree wrote.
* **Daemon.** Three queues without any order among them, four threads, locks that
  are given back between deciding and doing, errors that are printed and
  forgotten, threads that end for good on an error, a process that may be killed
  between the two sinks, and a feedback loop through its own files. Every
  reported write must reach the log, once, in its watcher's order.
* **Undo.** Deletes and overwrites; must touch only what the command touched,
  must be safe to repeat, and must not depend on a pre-image it cannot reach.
* **Retention.** A retained event must keep the row that explains it, though the
  daemon inserts between the two statements of another process.
* **Snapshots.** The check for a free name and the copy are two steps; a copy
  that dies half way is a snapshot like any other; hard links share the inode.
* **File system and time expressions.** A name that depends on the clock is
  answered through a cache that does not, a listing is made anew at each readdir,
  snapshots arrive meanwhile, and local times repeat and skip hours. An inode must
  name one path for ever; an expression must show the newest snapshot not after
  what it stands for; what is past must not change.

PROJECT.json lists the components with their status, and under "hazards" every
place where the code is exposed to something a test would hardly reach.

## 2. Modules

```
ProcTree      proctree.rs: the table and its methods, as operators
  Graph       graph.rs: the statements the daemon runs, the queries
    Kernel    external: processes, pids, clock, the queues, /proc
      Whodidd     whodidd.rs: the daemon; one action per lock or system call
        Attribution   what it promises       AuditTrail   the log, abstractly
          WhodiddInv    the inductive invariant
          Claims        what comments and README promise and the code breaks
          MCWhodidd     TLC instance: symmetry
          Chronicle     chronicle prune and trace beside the running daemon
            MCChronicle   TLC instance: symmetry
    TypeProofs          theorems: what the operators of table and graph return
                        and keep; types
      WhodiddProofs     marks
        ExitProofs      exits, eviction
          WriterProofs     attribution, edges, ancestors
          ChronicleProofs  prune, trace, manifests
      AuditProofs       the log
FileTree      external: directories, files, shared inodes
  Revert      revert.rs: plan()
    Undo      chronicle revert --apply, snapshot.sh, the command, bystanders
      UndoProps   what an undo promises
        MCUndo      TLC instance: a tree of three paths
        UndoProofs  theorems
TimeExpr      time_expr.rs, and whodid's bracket, as operators
  SnapRoot    snapshot.sh and snapshot-loop.sh: runs that fill SNAP_ROOT
    WhenFs      main.rs: the file system, the kernel's cache, an ls
      WhenProps   what /when promises
        MCWhen      TLC instance: a small calendar with a repeated hour
        WhenProofs  theorems
```

Chronicle composes the tools with the daemon: its next-state relation is a step of
Whodidd with the tools waiting, or a statement of a tool. WhenFs composes the file
system with SnapRoot the same way. Undo has snapshots of its own, with contents
and shared inodes, which SnapRoot leaves out in favour of names and times.

**State of Whodidd and the code.** `tree` is the `ProcTree` behind its mutex: a
function from pids to a node or None, with `ppid`, `start`, `info` (the image, one
value for exe, comm, cmdline and uid), `exited` and `persisted`. `rows` and
`events` are the SQLite tables, `log` the JSONL file. For each watcher, `pc` is
where its thread stands, `cur` the event it handles, `chain` what `persist_chain`
has still to write of the copy it made, `stamp` the time it read. `connector` and
`closing` are the proc-connector thread and the exit it is about to write. The
kernel's state is external: `procs` lists every process ever made (a row, node,
message or event carries the number `inc` of the process it is *about*: history
the code never reads), `holder` says which one is alive under a pid, `netlink`
and `fanotify` are the queues.

**Actions and the code.** An action is what a thread does between taking a lock
and giving it back, or one system call:

| Action | Code |
|---|---|
| `Boot`, `Listen`, `Watch` | `main`: graph opened or given up, table seeded from /proc, threads started in any order |
| `TakeEvent` | read an event; under the table's lock copy `unpersisted_chain` |
| `InsertRow`, `WriteExit`, `Mark` | the body of `persist_chain`'s loop: `record_existing`, `record_exit_at` if the copy had exited, `mark_persisted` by bare pid |
| `Stamp`, `RecordEvent` | `record_event_full`: the time before the lock, resolution and insert under it |
| `AppendLog` | the line of the log, identity from the table or /proc |
| `IgnoreOwn`, `DropEvent`, `ReadError` | `is_self`; a name that cannot be resolved; an error of read() that ends the thread |
| `RecvFork`, `RecvExec`, `RecvExit`, `CloseRow`, `RecvOverrun` | the connector's loop; the exit write-through outside the table's lock; ENOBUFS |
| `Evict` | the eviction thread, at any time |
| `Crash` | the process is killed; the database, the log and the kernel stay |

`Fails` in an action is a call whose error the code swallows or reports and goes
on from: SQLite, the log, the sockets.

**State and actions of Undo.** `live` is the tree, `snaps` the directory of
snapshots (their names are seconds), `taker` a run of snapshot.sh and what `cp` has
still to copy. `pending` and `manifest` are the command's events before and after
the daemon recorded them: the time of an event is when it is recorded, and its
path is what it has become by then. `steps` is what is left of the plan, `failed`
and `kept` what chronicle will report. `TakeSnapshot`, `CopyEntry` and
`SnapshotEnds` are snapshot.sh; `PlanUndo` is the query, the listing and `plan()`;
`OpenRestored` and `CopyData` are the two halves of `std::fs::copy`, with
`create_dir_all` before; `RestoreFails`, `RemoveCreated`, `Skip` and `Finish` the
rest of the loop; `Killed` an interruption. The command and bystanders write,
create, unlink, rename and remove. A link of an inode into a snapshot is kept with
the live file, so that writing in place reaches the snapshots.

**State and actions of Chronicle.** `cutoff` is that of a prune between its two
DELETEs (`PruneProcesses`, `PruneEvents`), `PruneStopsHalfWay` its end between them.
`tracer` is where cmd_trace stands: `Spawn`, `Poll` (the loop of 40 looks at
`latest_start_ts`, which ends with a row or without), `Wait`, `LookAgain` after the
settle of 600 ms, `Report`. A child's pid is free only when it has been waited for.

**State and actions of SnapRoot and WhenFs.** `dirs` are the directories of SNAP_ROOT,
each with its name, the files copied so far, and two instants of history: when its name
was read off the clock and when it was made, with the names there were for a run that
copied into it later (`nested`). `taker` says where each run of snapshot.sh stands:
`Begin` (TS=...), `Check` (the test of the while loop), `Wake` (sleep 1, the next name),
`MakeTarget` (cp makes its target, or copies into one that is there after all),
`CopyFile`, `Ends`. `path_of`, `ino_of` and `next_ino` are the tables of main.rs and
`Assign` is ino_for_path for what a request hands out. `Lookup` is lookup in the root,
with the whole of time_expr::resolve; `LookupFile` and `ReadDir` are lookup and readdir
below it. An ls of the root is `ListBegin` (opendir) and, for each readdir, one
`ListResolve` per shortcut, each with a clock and a SNAP_ROOT of its own, and a
`ListReply` with as many entries as the reply has room for; which shortcuts led
somewhere at the opendir (`due`) and which were ever pushed (`met`) is history. main.rs
answers one request at a time, so at a readdir it does nothing else (`Busy`); the clock
and snapshot.sh go on. `cached` is one entry the kernel keeps, up to TTL; `Forget` drops
it before. A panic ends the process (`mounted`).

In TimeExpr an instant is a number of seconds that grows, and `Label` what a name
or a timestamp shows of it: the local time, which jumps back by FoldBy at FoldAt.
An expression is what the code makes of a word: a name, a date, a span back, the
end of a day some days back, months back, a weekday, or something else. whodid compares
names as text: a timestamp stands by its label, and any other name between two labels,
before all or after all (`TextOf`), as 0-golden, 2026-08-20-pre-upgrade and golden do.

**Abstract specification.** `AuditTrail` says what a log of record is: what a
watcher reports enters once, the oldest it still owes first, nothing else enters; a
refused line is lost in its turn, a death loses what was pending. What a watcher
owes is a set, since numbers grow and the oldest is the least. `LogIsAuditTrail`
maps the daemon onto it: owed are the events of others in the watcher's queue and
the one its thread is handling.

## 3. Checks

| Run | Properties | Instance |
|---|---|---|
| `lives` | TypeOK, IInv, PersistedMeansStored, KnownWriterAttributed, AncestorsStored, PendingWriterKept | 2 pids, 3 processes, 1 exec, 2 watchers, 2 writes |
| `lineage` | AncestorsStored, EdgesAreReal, TreeManifestTrue | 3 pids, 4 processes, 1 watcher, 2 writes |
| `prune` | ClosedMeansGone, PruneSparesTheLiving, RetainedStayAttributed | 2 pids, 3 processes, 2 watchers, 1 prune with any cutoff, a pid may come back while the daemon remembers it |
| `trace` | TraceReportsItsOwn | 3 pids, 1 watcher, 2 writes, 1 trace |
| `trail` | PersistedMeansStored, IndexCoversLog, LogIsAuditTrail, EveryWriteLogged | 2 watchers, one seeing the daemon's own writes, 1 failure, 1 crash, a receive buffer that overflows at once; fairness |
| `undo` | TypeOK, ReapplyIsSafe, OnlyTouchedChanges | 1 operation, 2 runs of chronicle, 1 mishap, a refused path |
| `undo_steps` | UndoneUnlessReported | 2 operations, 2 seconds, 2 snapshots |
| `whenfs` | TypeOK, InodesKeepTheirPath, CachedNameIsRecent, PastStaysPut, EverySnapshotFound, ListingWhole, BracketTight, CollisionWaitedOut | 7 setups of up to 2 snapshots and 2 runs of snapshot.sh, 7 expressions, 2 inodes |

What they show, in words: a persisted mark never lies, whatever fails; an exit never
closes the row of a living process; a child's row is never in the database without its
parent's while the parent is tracked; a writer the table knew is the one its event is
bound to; ancestry shows real parents; while no pid comes back, a manifest holds nothing
others wrote and lacks only what was recorded in an earlier second than its writer's
fork was read in; the log is a log of record, and nothing the threads do can keep a
reported write out of it. An undo that reports no failure has undone; doing it again
changes nothing, also after one that was cut off; and nobody else's files are touched. A
prune never changes the writer of an event it keeps, nor takes the row of a process that
runs, and a trace reports nothing another process wrote. An inode number never moves to
another path; a cached name showed, when it was answered, the newest snapshot not after
what it means; an expression of one instant in the past shows the same for ever; ls
leaves out no shortcut that led somewhere when it began, and shows one twice only if an
earlier one has turned up since; the timestamps whodid puts around an event are next to
it; two runs of snapshot.sh mix only if both looked before either copied.

**Disagreements found.** Four runs end in a behaviour that breaks what a comment
or the README says; PROJECT.json "findings" quotes it.

* `exit_lost`: an exit received between persist_chain's copy and its mark is
  written by neither thread: the row stays open for ever.
* `stranger`: the write of a process whose fork is still queued is bound to the dead
  process that had its pid.
* `half_snapshot`: a file not yet copied by a snapshot under way (or by one that
  failed) counts as created by the command: the plan deletes it.
* `hardlink`: in the default mode a restore truncates the inode that the live file
  shares with its pre-image. Both end up empty and the step counts as applied.

Two more are seen in the models without a run of their own:

* A write recorded in an earlier second than the one in which its writer's fork was read
  is never attributed: the row that comes later starts later, and blame and tree ask for
  `start_ts <= ts`. graph.rs:362-373 and README.md:234-240 have the query made late
  so that both streams have settled; settling does not help here. It is all that
  `TreeManifestTrue` lets a manifest lack (`TooEarly`).
* A directory of SNAP_ROOT with a name of its own is compared as text with timestamps
  (whodid.rs:122, revert.rs:84), so 0-golden counts as taken before any event.
  `BracketTight` speaks of timestamps only.

Some properties carve out a known weakness instead of failing on it, and say so:
`EdgesAreReal` and `KnownWriterAttributed` except a row left open (which `exit_lost`
explains), `TreeManifestTrue` holds while no pid is reused (by design `descendants`
joins children by bare pid, so children of an earlier life are in the tree),
`AncestorsStored` while no call fails (persist_chain goes on after a failed link) and no
fork was missed between the scan and the subscription, and it excepts a parent that a
watcher is about to write, with the child after it (`ParentUnderWay`): the child's row
may be there first, by the other watcher or because the chain goes round. After a
restart the table is seeded with new start times, so chains do not join the rows of the
earlier run; the README of the repository says so.

Known behaviour that no property forbids, because the code does it:

* A process whose only write is handled before its fork is read is never stored:
  its event is inserted unbound, and a tree of which no row is stored has no manifest.
* A table of bare pids can go round: q forks c, exits and is forgotten, and c forks a
  child that is given q's pid, which c still names as its parent. The climb then ends
  only at MAX_CHAIN, and which of the two rows is written first depends on where the
  cut falls, though whodidd.rs:263 says "parent rows exist before the children
  referencing them". `lineage` has such chains; the other row comes with a later link.
* An event stamped but not inserted while a prune deletes the row of its writer,
  which has exited, is inserted unbound.
* With an exec of a process the table never saw, a row without a parent is stored.
  Such a row hangs below no other, in the query and in `TreeManifestTrue`; what its
  process wrote is missing from the manifests of its real ancestors.
* trace may pick the row of an earlier life of its child's pid, and its manifest
  lacks what the daemon records after the settle.
* While labels repeat, find_nearest skips the names that mean two instants, and
  the comparisons of names as text in whodid and revert may take a snapshot made
  after the event. `BracketTight` and `CachedNameIsRecent` say which instants they mean.
* whenfs ends with a panic on a span that reaches before what chrono can tell, or is
  longer than its durations (`Earliest`), and on a day whose last second does not exist or
  comes twice. readdir of the root resolves "yesterday" and "last-week", so that an ls is
  enough for it.
* When the first snapshot is made between the turns of two shortcuts in one readdir, the
  next readdir finds one entry more before its offset and shows an entry again.
* One name in SNAP_ROOT that is not UTF-8 hides all snapshots from time expressions.
* A snapshot is visible while it is being copied.

**Bounds.** Every hazard here needs at most two lives of one pid, one event with
another thread in the middle of its own, one failure or one death; the runs have that
much, the last two apart from the first, and, in `lineage`, a line of three. `Grace =
0` keeps the shape of the race (an eviction can come in the first second after the
exit's second) and `MaxTime = 1` gives two seconds, which is what a one-second
resolution needs to tell "same second" from "later". `NetlinkCap` is 3, enough for a
fork, an exec and an exit to wait together, or 0 in `trail`, for a connector that is
lost at the first message. A failing call and a death are in `trail`, without recycled
pids; the theorems have them together. In Undo two seconds give an event a snapshot
before it, in its own second and after it; three paths are a directory, what is in it
and a file beside it, which is what ordering, renames and directories in use need.

Chronicle has one prune, at any moment and with every cutoff up to one second from now;
two at once would be two such statements more. A trace needs three processes,
chronicle's parent, the command and one more that is its child or a stranger, and two
writes. In WhenFs a day has two seconds, a week two days and a month two or three days;
the last two seconds of the behaviours lie across the end of summer time, where label 9
comes twice and ends a day. Each of the seven setups is a start with something to go
wrong: no snapshot but named ones, before all timestamps as text and among them; a name
that is not UTF-8; one run of snapshot.sh, or two in one second. At most two inodes are
handed out, which is a directory and a file in it, or two directories; and a name is
looked up or the root is listed, not both at once, since they share only the inode
tables. MonthWrap (2^32), Earliest and TTL are small numbers, so that what happens
beyond them does happen.

**Symmetry.** Pids other than init, and watchers, are interchangeable in every
definition, so the safety runs of Whodidd use it; `trail` does not (fairness, and
its watchers differ), nor do the runs of Undo. In WhenFs the runs of snapshot.sh
are interchangeable.

**Fairness.** Weak fairness of `Boot` (a supervisor restarts the daemon), of
`ConnectorStep` and of each `WatcherStep(w)`: they are threads of the operating
system, and each waits in a system call only while its queue is empty. Nothing is
assumed of the environment, of eviction, of `ReadError` or of `DropEvent`.

**Deadlock.** The environment is bounded, so a run may end with everything drained
and no bound left: the configurations switch the check off. That the daemon gets
on with its work is `EveryWriteLogged`.

## 4. Proofs

| Module | Theorem | States |
|---|---|---|
| `TypeProofs` | `TypeCorrect` | `Spec => []TypeOK` |
| `WhodiddProofs` | `LivesKept`, `MarksAreTrue` | `IInv` and, from it, `PersistedMeansStored`, if `QuickReuse = FALSE` |
| `ExitProofs` | `ExitsCloseTheirOwn`, `WritersOutliveGrace` | `ClosedMeansGone`, `PendingWriterKept` |
| `WriterProofs` | `KnownWritersBound`, `EdgesTrue`, `AncestryStored` | `KnownWriterAttributed`, `EdgesAreReal` and, if also `[]ClimbsWhole`, `AncestorsStored`, if `QuickReuse = FALSE` |
| `AuditProofs` | `DaemonKeepsTrail`, `LoggedOnce`, `LogIsIndexed` | `LogIsAuditTrail`: the daemon implements the audit trail; no event has two lines; `IndexCoversLog` |
| `ChronicleProofs` | `PruneKeepsWriters`, `ClosedBesideChronicle`, `PruneSparesRunning`, `TracesReportTheirOwn` | `RetainedStayAttributed`, `ClosedMeansGone`, `PruneSparesTheLiving`, `TraceReportsItsOwn` beside chronicle |
| | `TreeManifestsTrue` | `TreeManifestTrue` of the daemon |
| `UndoProofs` | `UndoInvariant`, `UndoTypeCorrect`, `UndoTouchesNothingElse` | `UndoInv`, and from it `TypeOK` and `OnlyTouchedChanges` |
| | `UndoUndoes`, `UndoReapplies` | `UndoneUnlessReported` and `ReapplyIsSafe`, if `Mode # "hardlink"` |
| `WhenProofs` | `TypeCorrect`, `InodesStay`, `SnapshotsFound`, `CollisionsWaitedOut`, `BracketsTight`, `CachedNamesRecent`, `PastStays` | `TypeOK`, `InodesKeepTheirPath`, `EverySnapshotFound`, `CollisionWaitedOut`, `BracketTight`, `CachedNameIsRecent`, `PastStaysPut` |
| | `ListingsWhole` | `ListingWhole`, if `PlainCalendar` |

They hold for any pids, watchers, images, paths, content, bounds, failures and
deaths. The assumptions are the named ASSUMEs on the constants (None is no pid, image,
path, node or time; init is a pid; the daemon's pid is not among the others; bounds
are natural numbers; the calendar's months begin on later and later days; what there
is to copy is a finite set; a week day asked for is one of the week; a snapshot there
at the start was named by the clock and made after that; there are finitely many paths,
and no directory lies in itself; the trees an undo starts from are trees and share no
inode with a snapshot, since there is none yet) and these hypotheses:

* `QuickReuse = FALSE`, for the five theorems of WhodiddProofs and WriterProofs: a pid
  comes round only when the daemon has nothing left that names its last life. With the
  default range of pids that takes longer than the grace, but nothing in the code
  enforces it.
* `[]ClimbsWhole`, for `AncestryStored`: a climb goes on to a root or has come round
  when it ends, so MAX_CHAIN cuts no line of different processes. Without it the
  property is false: a process more than 64 deep, of which nothing is stored yet, is
  written from the 64th ancestor down. TLC finds that every reachable state of `lives`
  and of `lineage` satisfies it.
* `PlainCalendar`, for `ListingsWhole`: no change of the clock goes back across midnight,
  a month is no shorter than a week, the calendar begins before the clock does, and
  MonthWrap is more than one. The instance of `whenfs` satisfies it. When a day does come
  back, what led somewhere at the opendir may lead nowhere at a later readdir.
* `Mode # "hardlink"`, for `UndoUndoes` and `UndoReapplies`: in that mode a restore
  empties what it reads from, as the run `hardlink` shows.

`PruneSparesTheLiving`, `TraceReportsItsOwn` and `TreeManifestTrue` say themselves that no
pid has come round. The inductive invariants, or their parts, were checked by TLC
before they were proved.

**Marks.** `PersistedMeansStored` needs more than itself: `mark_persisted` takes a bare
pid, after two writes without the lock, so its row must be the row of whatever
node is there *now*. `CopiesAgree` says that it is the node copied: while a link
waits, its node may be evicted but not replaced, because a node goes only after
its exit, the last message of its life. That needs the order of the queue
(`QueueOrdered`) and that everything that names a pid names its latest life
(`LatestLives`). `HeadStored` says the insert of this link was done, and `KeysDiffer`
that `INSERT OR IGNORE` on (pid, start) did not meet the row of another process.
Each lemma treats one action, and in it the parts that action can disturb.

**Exits.** `ClosedMeansGone` holds though a pid may come back while the daemon still
remembers it, in a later second and once its messages are read. In `ExitInv` what
matters is time: an exit that is still to be written, be it of a node, of a link
or the connector's, has a key of an earlier second or is of a pid nothing more will
be heard of (`ExitsAged`), and whatever names a *living* process has a later key
(`LivingLater`). Hence the UPDATE by (pid, start) meets no row of the living.

**Writers.** `KnownWriterAttributed` follows a writer from link to row to event
(`WriterInv`). While its link waits, the chain will insert it; from then on the row
is there with the start of its node; rows of earlier lives of the pid started
earlier and are closed, or left open, which the property excepts; only the row of
the latest life is ever closed, and not before the time that the event is stamped
with. So the window, or else the last start by then, selects that row.

**Edges.** `EdgesAreReal` is about the bare pid of the parent in a row. `EdgeInv` says it
of every *entry*, that is the row, link or node of a child: every later life of its
ppid starts after it, every earlier life that was closed ended before it
(`LaterLivesStart`, `EarlierLivesEnd`). A new entry is of this second, and its parent
still has its pid (`ForksLatest` for the messages not read yet, the kernel's own for
/proc). When that pid is given away, what names it as parent is of an earlier second
(`LinksPast`), and the exit of its last life is past (`ExitsPast`), so the next life
starts later. Both hold while the daemon has not died, as the property does: after a
death in the same second, the row of an earlier life may end when a new child starts.

**Ancestors.** `LineInv` says that each row, and each link that waits in a chain, whose
parent's pid is tracked with a start not after its own, has that parent's row, or the
parent is earlier in a chain being written (`LineStored`, `Coming`). What could break
it is a node that becomes the parent of an older record by taking the pid the record
names. A fork is read by the connector before its child can be parent to anything the
table learns later (`ForksLater`: what waits to be read of a fork is younger than all
the table knows), and an exec or a writer makes no new node, since the table knows who
runs, or a fork waiting in the queue is theirs (`HoldersHeard`, `ExecsHeard`). A link
leaves its chain only after its insert (`HeadStored`). When a chain is copied, each link
is above the next; the parent of the uppermost is marked, and stored by
`PersistedMeansStored`, or has come round and is in the chain itself, or MAX_CHAIN cut
the climb, which the hypothesis excludes.

**The log.** `DaemonKeepsTrail` maps every step of the daemon to a step of AuditTrail
or a stutter: a write to a report, `AppendLog` to an entry or a loss, `DropEvent` to a
loss, `Crash` to a death, and the rest to nothing, echoes of the daemon's own writes
included. The invariant is that the events a watcher owes are numbered upwards from
its thread to the end of its queue, and no number is in two places. `IndexCoversLog`
needs that a thread at "log" has its event in the graph unless a call failed.

**Prune.** `PruneKeepsWriters` rests on types alone: times are natural numbers, so the
pid of an event after the cutoff pins every row of that pid, and the writer of an
event depends on the rows of its pid (`WriterOfPid`). `PruneSparesRunning` has an
invariant of its own, `SparesInv`: an exit, wherever it is kept, is of a process all is
over with (`Finished`: gone, nothing more to be heard of it, and no live node), and a
link past its insert, or a node marked, has its row until then. prune takes only rows
with an exit, so only what is finished; and what is finished stays so.

**Trace.** In `TraceInv` every record names the true parent of its process, the one that
adopts orphans or none (`ParentsTrue`), and every event is by the process that had
its pid (`EventsTrue`). `Forebears` and the recursive query are functions defined
level by level, so the argument is one of closed sets: the levels exist
(`LevelsExist`, by the natural numbers' being well-founded); the tree of rows is
within every set of rows that holds its root and, with a row, its children
(`DescendantsWithin`); and the rows of processes in the line of the command are such
a set. A row under init's pid would be one, too, if the command were init, which it
is not. That the manifest stays true when processes are added is `InLineStays`.

**Manifests.** `TreeManifestTrue` compares a query that joins rows by bare pid with the tree
of processes there really was. While no pid comes round and the daemon has not died, all
that is kept of a pid, be it a node, a link or a row, has one start, so that a pid has
one row (`ManifestInv`, from `ExitInv`), and an event that names a pid names that row.
Then the children the query finds by pid are the real ones (`ChildrenReal`). The query
goes down and `StoredLine` goes up; that n steps along a relation are n steps along
its converse (`TurnedRound`) is an argument about the levels both are defined by. So what
the query finds was written below, and what was written below and is not found is
unbound and of an earlier second than its writer's row, since nothing else keeps an event
of a stored row out of the query.

**Undo.** `UndoInv` holds in every mode: the steps left that change anything are of
paths the command touched and may be undone, each restore finds its path in its
snapshot, what is half copied is a file of the live tree, and a snapshot being made
lacks what is still to be copied and all below it. `OnlyTouchedChanges` is read off
it. For the rest, no inode is shared: `ApartInv` says that the snapshots the plan was
made from keep what they hold, and that the manifest is in the order of time, so that
a path's first event in it is its earliest. `CalmInv` follows the steps while nobody
else writes: each step left is the one that its path's first event and the snapshot
before it call for, and comes in its turn (`AimInv`), and each path whose step is done
is as it was then, or chronicle will report a step (`DoneInv`). No step undoes
another, because a restore only adds files and the directories above them, a removal
takes nothing that was there then, and what is deepest is removed first: `plan()` sorts
so, and the model ranks the steps (`Turn`). The directories above a path are the least
set closed under going up, and no path is in its own. `SettledInv` is the same for a
plan applied again over what a first one restored: each of its steps finds its aim
reached, and restores what is there.

**The file system.** `InodesStay` and `TypeCorrect` of WhenFs have one inductive core,
that the tables are inverses and that numbers up to next_ino are all in use: `Assign`
extends both with a bijection from new numbers to new paths, and a path of a directory
stays a path because directories are never removed. `SnapshotsFound` follows from the
types: what find_nearest returns for the instant a name means has a name of that same
instant, so the same label (`NearestToItself`), and a label of two instants or none is
no time expression and is found literally. `CollisionsWaitedOut` is inductive with the
fact that a run that found its name free did not have it among the names there were when
it looked (`LookedFree`); those are what a directory it copies into is left with.

**Names and instants.** Labels jump back at the fold, but a label that names one
instant parts the instants as it parts the labels (`SingleParts`): everything with a
label up to it is up to its instant. With `NameInv`, that a snapshot and a run about to
make one bear the label of the instant they were named at, `BracketTight` follows, since
as text timestamps are in the order of their labels, and any other name stands between two
of them. `EndMeant` and `TargetMeant` say that what resolve_target
computes is the instant meant, of a day its last one, for any calendar and fold; the
newest snapshot up to it exists because a bounded set of integers has a greatest
element (`GreatestExists`). So an answer is right when it is given (`ResolvesRight`),
and stays so for the kernel (`LeadsTo`), because what is made later is made no earlier
than the answer was given. `PastStaysPut` needs that the name of a new directory stands
for an instant after the one asked for, or for two and is found literally.

**Listings.** readdir of the root makes its list anew at each call, shortcut by shortcut,
and skips by offset, so `ListingWhole` needs that the entries before the offset stay what
they were. What has led somewhere once still does (`LeadsStill`), because the instants only
move on (`AimsRise`, `MonthBackRises`) and no directory goes or gets a name that cannot be
read (`ReachesOn`); so what was due at the opendir or met by a readdir is found by every
readdir after it, whatever is found besides. The place of a shortcut in a list is the
number of those found up to it (`Below`, `Placing`, which `InOrder` is shown to be). Hence
`ListInv`: each entry read stands no further on than all the shortcuts met so far would put
it and no nearer than those due alone (`Placed`), and one that is due is read or still to
come (`Kept`). An entry shown again therefore stood behind something met and not due.

**Only model-checked:** `EveryWriteLogged`, since liveness and ENABLED are beyond the
prover. Every other property that a passing run checks is a theorem.

## 5. Abstractions

* A time read next to a lock, an image or a parent read from /proc before one, and
  the eviction's cutoff are one step with what is done under the lock. `Stamp` is
  apart because a row may be written between.
* The /proc scan at startup is one instant, or fails and seeds nothing; what is forked
  before the connector listens is missed, as in the code. A mark that fails ends its
  watcher. The exit() when fanotify_init fails is a `Crash`.
* A pid is given away again never in the second of its last life, nor before the connector
  has read all about that life, also with `QuickReuse` (`Settled`). With the default range
  of pids that takes far longer; nothing in the code enforces it.
* A resolve of time_expr, that is one reading of the clock and one read_dir, is one
  instant. The five of a readdir are apart.
* Processes have one thread. Fanotify queues are unbounded. A line of the log is written
  or refused as a whole. A crash is the death of the process, not of the machine. The
  clock does not go back, except for the local labels of TimeExpr. Mutexes are not
  poisoned; blocked paths, the formatting of lines and the parsing of records are left
  out.
* `record_fork`, `record_exec`, `record_exit` and `record_event` have no caller in
  the daemon and are not modelled.
* In Undo an operation is one event; the command has ended when chronicle first
  runs, though its events may still be under way; replacing a file is writing
  another and renaming it. Directories are not renamed, and there are no symbolic
  links, other names of a file or permissions. `Refused` and `Outside` are given
  sets: that `refused()` compares strings, so that "/run" also refuses
  "/running", is not modelled. All its snapshots are timestamps: revert.rs:84
  compares the name of any directory as text.
* A directory of SNAP_ROOT whose name is a date, a shortcut or a weekday is left out
  (`SnapName`). time_expr takes such a name for the expression, so that the directory is
  never found by it, and `EverySnapshotFound` would be false of it.

## 6. Not modelled, and why

* **Handles, attributes and refusals of whenfs** (`open`, `read`, `release`,
  `getattr`, and the operations that answer EROFS): handle numbers only grow and
  nothing else reads that table; the rest changes no state.
* **Overflow of a fanotify queue**: the lost events were never queued, the loops pass over
  the record that says so, and no property could hold of what is lost.
* **Threads**: the connector's thread ids would double every process; the hazard is
  listed, and processes have one thread.
* **Symbolic links, permissions, renames of directories** in the undo.
* **Chains longer than MAX_CHAIN** and the depth limits of the queries: the runs
  have at most four processes and limits of three.
* **live_start_ts**: tree prefers it to `latest_start_ts`; both name a row of the pid
  and what follows is the same query.
* **How words are split** (number and unit, names of weekdays, spellings), the
  formatting of output, `whodid list`, counting and vacuum.
* **Demo scripts and service wrappers**: they start the programs.
