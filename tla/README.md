# PgKronika: TLA+ models, checks and proofs

PgKronika is a PostgreSQL monitoring system in Rust. A collector samples
PostgreSQL and operating-system state at intervals, encodes each sample as one
*window*, journals the windows, and seals them into immutable columnar segments
(PGM files). Readers (a web server, a dump tool) discover segments and the
active journal, build overview sidecars (OVF) and answer queries.

This directory models the parts whose correctness depends on order, failure or
time. Paths are relative to `src/`; `PROJECT.json` maps the definitions that carry
the behaviour to the lines they model (small helpers and field names are read with
the definition that uses them).

## 1. Inventory

| Component | Source | State it keeps | Operations | Interacts with |
|---|---|---|---|---|
| Active journal | `crates/kronika-writer/src/journal.rs`, `crates/kronika-format/src/parts.rs` | file `active.parts` (36-byte header, frames, reset marker); handle: `end`, `parts`, `generation`, `segment_id`, `poisoned` | `open`, `append`, `reset`, `read_part`, drop | layout owner, segment writer, collector |
| Journal recovery | `crates/kronika-writer/src/recovery.rs` | verified frames of a damaged file | `inspect`, `replay_into` | journal, layout |
| Segment writer | `crates/kronika-writer/src/segment.rs` | a temporary | `seal`: encode, validate, publish, accept an identical segment | journal, layout |
| Data root layout | `crates/kronika-layout/src/root.rs` | names in the root and the day directories | PGM publication, journal rotation, scan, quarantine, removal, OVF publication | everyone who writes |
| Collector storage path | `bins/pg_kronika-collector/src/{segments,main}.rs` | `SegmentState` (first id, opened at, admission, published-pending-reset) | startup recovery, append, early, age and forced seals, stop when unhealthy | all of the above, log position |
| Scheduler, budget, main loop | `bins/pg_kronika-collector/src/{scheduler,budget,main}.rs` | last read and override per source, starved flags | plan, defer, accelerate, sleep, re-read after a seal | storage path, sources |
| Retention | `bins/pg_kronika-collector/src/rotation.rs` | size counter, pending reclaim | `enforce`, victim planning | layout |
| PostgreSQL log source | `crates/kronika-source-log`, `bins/pg_kronika-collector/src/pg_log_source.rs` | position file, position in memory | tail, rotate, parse, commit | storage path |
| PostgreSQL and OS sources | `crates/kronika-source-pg`, `crates/kronika-source-os` | connections, caches | queries, procfs reads | main loop |
| Plan and statement caches | `bins/pg_kronika-collector/src/{plans_source,statements_source}.rs` | cached plans and their deadline | select, refresh | main loop |
| Producer status, coverage | `bins/pg_kronika-collector/src/{producer_status,coverage}.rs` | status file, counters | publish | none depends on them |
| Format, registry, derive | `crates/kronika-{format,registry,derive}` | none | codecs, section contracts | all |
| Interner and buffers | `crates/kronika-writer/src/{interner,dict,buffer}.rs` | dictionaries | intern, flush | segment path |
| Store | `crates/kronika-store` | read-only view of the root | list, open | reader |
| Reader, live overview | `crates/kronika-reader/src` | snapshots, folded live parts | refresh, fold, reconcile a seal | store |
| Overview sidecars | `crates/kronika-reader/src/overview/{publish,gc,persist_mode,fallback}.rs` | OVF files, marks, grace generations, one write reservation with back-off, facts kept in memory | load or build, publish, probe, collect | reader, layout, web overview service |
| Web overview service | `bins/pg_kronika-web/src/overview` | admission queue, flights, caches, cursors | admit, join, pin, evict | reader |
| Analytics, incidents | `crates/kronika-analytics`, `bins/pg_kronika-web/src/{anomaly,incident}` | none | detectors | web |
| UI, dump, archiver, demo, bdd, xtask | `web/`, other `bins/`, `xtask/` | none of ours | presentation, tools | |

What is hard here:

* **Crashes between system calls.** The journal overwrites its header in place,
  commits a reset with a marker, and survives kills and power losses at every
  point. Above it a crash can fall between link, directory sync, reset and log
  position, or between the frames of a replay.
* **Errors half way.** Any call may fail after it has had its effect, and so may
  the undo. The code answers with poisoned handles, stops, rotation, quarantine.
* **Two records of one fact.** Journal handle and file, `SegmentState` and journal,
  position in memory and on disk, marks of the scheduler and what was really read.
* **Time.** Deadlines of sources, accelerated sources, segment age and budget
  compete for one sleep and one tick; deferral must not become starvation.
* **Concurrency** is in the web service only (admission, single flight, fact store,
  caches, cursors) and between processes: collector and web process change one tree,
  readers hold files that were unlinked, PostgreSQL and logrotate change the log under
  the tailer. The collector's storage path is one task.
* **Estimates.** Retention deletes against a counter and a disk usage that lag behind
  the tree; the sweep of sidecars uses a mark older than the view.

The properties that make each modelled component correct are in section 4. The
`hazards` of `PROJECT.json` list what a test would hardly reach, each at its line.

## 2. Plan

| Order | Module | Composes or implements | Status |
|---|---|---|---|
| 1 | `Journal`, with `AtomicLog` as its promise | refines `AtomicLog` | checked, safety and refinement proved |
| 2 | `Collector`, with `Archive` as its promise | refines `Archive`; uses the promise of `Journal` per call | checked, safety and refinement proved |
| 3 | `Scheduler` | uses seals of `Collector` as success or failure | checked, proved |
| 4 | `FactLoader` | composes `Admission` and `Singleflight`, refines `AdmissionSpec` | checked, safety and refinement proved |
| 5 | `FactStore` | what `FactLoader` calls a build; removals by `Retention` are steps of its environment | checked, safety proved |
| 6 | `Retention` | seals of `Collector` and sidecars of `FactStore` are its inputs | checked, safety proved |
| 7 | `LogTailer` | its commit is the position of `Collector` | checked, safety proved |
| 8 | `LiveView` (`kronika-reader/src/overview/live.rs` 311-914): refresh protocol against an abstract set of folded parts | journal and segments as its inputs | not begun |
| 9 | cursor eviction (`web/src/overview/cursor.rs`) against a reference | | not begun |

The safety properties of the passing runs are theorems. Worth stating next: that a call
of `Collector` is a behaviour of `AtomicLog` for its journal file, so that the outcomes
`Collector` takes from `Journal` follow from `RefinesAtomicLog`; and the theorems of
`LiveView` and of the cursors.

## 3. Modules and the code

### Journal (`Journal.tla`, `JournalInvariant.tla`, `JournalProofs.tla`, `JournalDurability.tla`, `MCJournal.tla`)

State. `hdr` and `body` are the content any process reads; `hdrs` and `bodies` the
headers and bodies a power loss may leave, collected since the last successful
`sync_data` (header and body independently). `linked` is the directory entry.
`end, parts, gen, seg, poisoned` are the fields of `struct Journal`, `nextGen` the
static generation counter, `max` the configured `max_journal_len`. `acked`,
`pending` and `issued` record what callers were told.

Actions. Each system call of `open`, `append`, `rollback`, `reset` and
`finish_committed_reset` is one action with a success and a failure branch, in the
code's order: the first append writes the header before its frame, later ones after
it; the reset marker is synced before the header is emptied, the header before the
truncate. `Kill` keeps the page cache, `PowerLoss` picks any header and any body.
`Rotate` is what the collector does with a file `open` refuses. `AppendCall` needs
`~adopted`: the collector seals and resets inherited windows before it appends.

Data. A part is a model value with a length. Headers are told apart as far as the
checks of `open` tell them apart: absent, short, torn, mixed (an empty header partly
over an active one, `classify_header_transition`), empty, active. Lengths are small
numbers that keep the arithmetic of the cap and the marker. Checksums are exact.
Damage inside the body, and the resynchronization `inspect` does there, are left
out: none of the modelled faults causes it.

`DirtyReopen` says whether a killed process may be followed by an `open` before
the kernel wrote the file back: `open` does not sync data it adopts
(`journal.rs:596`). `TornHeaders` says whether 36 bytes can be written in part.

### AtomicLog (`AtomicLog.tla`)

What the journal promises: one log under one identity; a call asks for a content;
until it settles, a crash or failure may leave the settled content or one asked for,
and nothing else. The refinement mapping takes `log` as what a restart would recover.

### Collector (`Collector.tla`, `CollectorInvariant.tla`, `CollectorProofs.tla`, `MCCollector.tla`)

State. Journal files with a content and a place (`active.parts`, a generation or
evidence name in the root, quarantine); published segments and the ones whose link a
power loss may undo; the log position on disk and in memory; the process: `pc`,
the task a seal serves, the open journal, the recovery scan, `SegmentState`.

Actions. `open_collector_journal` (open, seal what is inherited, rotate what is
damaged, replay evidence, quarantine, scan pending entries), `seal` (temporary,
link, directory sync, reset), `append_window_and_maybe_seal` with early seals,
`commit_log_collection`, `stop_if_persistence_unhealthy`, stop signals, kills, power
losses. `Fault(kind)` is an I/O error of that operation; `FaultKinds` chooses which
a run has.

Data. A journal call is one step with the outcomes module `Journal` allows: done,
rolled back, or poisoned, and a crash in front of it leaves any content `Journal`
allows for that call; reopened files are taken as written back. Window `n` carries
the log batch that ends at position `e`; its identity is its number, so the wall
clock does not repeat (a hazard with a note). `Cap` stands for `max_journal_len`,
`max_parts` and the admission limits. Temporaries, the durability of renames in the
root, quarantine of corrupt PGM files and a cap lowered between starts are not in
this module.

### Archive (`Archive.tla`)

What the storage path promises, without files, calls and failures: a set of kept windows
that only grows, in the order of their numbers; a position that goes forward one batch at
a time, over accepted windows; and segments that are filed once, in order, under the
number of their first window, no window in two of them. The refinement mapping
(`Promise`) takes as kept what is in a journal file or a synchronized segment, and as
filed the synchronized segments: a link that a power loss may undo is filed by the sync
of its directory, or by the power loss that spares it. `Store` may keep a window and file
a segment in one step, since a power loss in front of an append can do both.

### Scheduler (`Scheduler.tla`, `SchedulerProofs.tla`, `MCScheduler.tla`)

State. `age` is the time since `last_read` (`Never` for `None`), `fast` the
overrides, `starved` the budget's flags, `seg` the open segment with its age and the
service sources it holds; `due, forced, deferred, sealed, win` belong to the tick.

Actions. `Sleep` (`timer_sleep_delay`), `Plan` (`Scheduler::plan`, forced for
SIGUSR2), the age valve (`main.rs:255`), `run_collection_cycle` with a database
outage, an error before or after the sized sources, an early seal, an append that
fails, a seal after the append, and `Report` (overrides, deferrals, re-reads).

Data. Seconds; one cycle lasts `0..MaxCycle`. Ages saturate at `Horizon`, above
every threshold, which the assumption `TimesAssumption` states. The budget is the
number of sized sources asked before the limit is spent. Rotation's and the plan
cache's own deadlines may end a sleep early. A seal by size is a free choice. A zero
tick (collection by signal only) is left out.

### FactLoader (`Admission.tla`, `Singleflight.tla`, `FactLoader.tla`, `FactLoaderProofs.tla`, `MCFactLoader.tla`)

State. `Admission`: the configuration, used weight, FIFO queue, and for each client
its phase, weight and whether its charge was granted. `Singleflight`: flights that
are registered and their state, and for each caller what it does about which flight.
`FactLoader`: the decoded cache (least recently used first), the requests with their
entries, and the coordinator and worker of each flight.

Actions. `acquire` with its three answers, the claim of a grant, the timeout and
cancellation (`QueuedAdmission::drop`), the drop of a permit, and `schedule` under the
same lock; `FactSingleflight::run` as follow, lead, refuse, arm, look, and the
coordinator's settle, notify and unregister, each under its own lock; `load_one` and
`load_selected` around them: lookup, join, recheck, build, panic, insert, the abort of
the siblings of a failed entry, and standby, which clears the cache. `Opens` and
`Return` are the two loops of `load_selected`: entries enter the `JoinSet` up to the
parallelism of the configuration, each that returns lets one more in, and the request
is answered when the set is empty; that no entry is then without facts or gap is
`NoSilentHole`, which no guard says. Which entry is next is a free choice, since entries
differ only in their keys.

`FactLoader` composes the two by sharing their actions in one step where the code
makes the calls in one stretch without an await, and is a refinement of
`AdmissionSpec`. A build either succeeds or fails; `FactStore` has its inside.

### FactStore (`FactStore.tla`, `FactStoreProofs.tla`, `MCFactStore.tla`)

State. The segments and their sidecars (under this build's key, another build's, or
none), the published view and its generation, `GcState` (last authoritative mark,
pending entries, recently published keys, quota), `PersistState` (standing failure,
deadline passed, reservation), the keys in the fallback memory, and for each builder
and the refresher where it is.

Actions. `load_or_build` in the stretches between its locks: `Load`, `Reserve`,
`Publish` under the publication gate (source gone, equal sidecar there, quota, failed
write, failure behind the rename, success, an owner or source that cannot be opened),
`Recover` (one sweep from the last mark),
`Finishes`, `Settle` and `Recheck`; `Panic` drops the attempt. The refresher probes,
assembles a view, of which a source may be unreadable, and collects when it is
complete. `Grace` and `Due` let time pass. `Seal` and `RemoveOldest` are the
collector's.

A sidecar that is there may still be impossible to open or validate, wherever it is looked
for (`Misses`, `Recheck`). `unread` records the segments whose copy in memory was kept
because the second look of `admit_publish_or_fallback` failed (`publish.rs:697`): it asks
`is_ok()` and nobody looks again, so `FallbackNotStale` says nothing of those.

Data. Quotas are on files, not bytes. Read-only and permission failures are handled
like transient ones. The interval between collections (`GC_INTERVAL_PASSES`, 60 passes)
is a free choice.

### Retention (`Retention.tla`, `RetentionProofs.tla`, `MCRetention.tla`)

State. Segments, sidecars, temporaries, evidence, the journal's bytes, foreign bytes
and unlinked files that are held open; `Rotation` (counter, pending reclaim, last
observation, recount due) and where `enforce` is, with its plan and deficit.

Actions. `Seal` is a publication with `run_rotation` behind it; `Tick`, `Check`,
`Scan`, `RemoveOne`, `RemoveFails`, `PassFails` and `PassEnds` are `enforce` at the
granularity at which the web process can act between its calls. The sidecar of a
segment removed between `WebChecks` and `WebRenames` becomes an orphan. A removal fails at
its first unlink, between the two of a segment, or behind them in the directory sync and
the prune (`FailsAt`): the object is then gone, and neither the counter nor pending reclaim
has heard of it (`rotation.rs:262`). The plan of a pass is a set of victims, of
which the loop takes the first in the order of the sort (`First`).

Data. Small sizes in place of bytes; the percentage of `auto` is given as the limit it
yields. `shrunk` marks the drops of the disk usage the code cannot attribute, which
`NoExtraHistory` excuses: those of others, and those of its own removals that failed
behind an unlink.

### LogTailer (`LogTailer.tla`, `LogTailerProofs.tla`, `MCLogTailer.tla`)

State. Files as sequences of cells (a piece of a line's text or its newline), names,
`pg_current_logfile`; the committed `TailState`, the source, the bytes pending from a
switch, the collection under way, the state file; `delivered` and `excused` record what
reached the journal.

Actions. `Write`, `RotatePath`, `Rename`, `Truncate` and `Remove` are PostgreSQL and
logrotate. `Collect` is `refresh_source_at`, `initial_offset`, `apply_backlog_guard`
and the read loop as what they make of the cells they covered, stopped anywhere by the
line and time budgets; `CollectNothing` a missing or unreadable file; then `Store`,
`Commit` and their failures, and `Restart`.

Data. `GapLines` gives the lines a gap row stands for: the first line of a new file only
where the read also writes a rotation row (`collector.rs:2144`). `dropped` collects the
lines for which no row is written (`Unannounced`): the first line of a file that was
committed empty while the end of a line was still awaited. `Noticed` keeps a truncated file
from growing past the old offset before it is looked at: neither inode nor size shows
that. Binary and sparse content and the parsers are left out; the first start without a
state file is in front of the model.

## 4. Runs

| Run | Checks | Size |
|---|---|---|
| `journal` | With kills, power losses, torn headers and immediate restarts: acknowledged windows survive (`AckedSurvives`), the file and its marker stay within the cap (`PhysicalCap`), references outlive resets safely (`RefsReadTheirPart`), a poisoned handle writes nothing (`PoisonedFrozen`), and the inductive invariant behind the first of these holds (`AInv`) | 2 windows of equal length, 2 caps, 3 errors, 2 crashes: 4.8 million states |
| `journal_refine` | `open` accepts only acknowledged or asked-for content (`FailClosed`), recovery gives back no other (`NothingLost`), what a healthy handle shows is on disk (`HealthyIsDurable`), `Journal` implements `AtomicLog`, a committed reset is eventually finished | 1 error, 2 crashes: 135 thousand states |
| `collector` | Acknowledged windows stay on disk (`NothingVanishes`), the log position never passes them (`PositionCovered`), a window has one identity (`OneIdentity`), `SegmentState` describes the journal (`StateMatchesJournal`), the path as a whole implements `Archive` (`ImplementsArchive`) | all errors, 2 of them, 2 crashes, 3 windows: 4.7 million states |
| `collector_live` | After startup every acknowledged window is published or in the open journal (`RestartLosesNothing`); every one is eventually in a durable segment (`EventuallyPublished`); nothing joins a published one (`NoAppendAfterPublish`) | 2 retried errors, 1 crash: 100 thousand states |
| `scheduler` | No source starves, no deadline is slept past, the loop does not spin, a service source the segment lacks comes due | 5 sources: 1.3 million states |
| `fact_loader` | The head of the queue waits only for capacity (`HeadDoesNotFit`), the charge is to the unit what residents weigh (`ChargesAreResident`), nobody overtakes (`NoOvertaking`), one flight per key (`OneFlightPerKey`), nobody sleeps past its wake-up (`NoLostWakeup`), when the `JoinSet` of a request is empty its view lacks no entry (`NoSilentHole`), requests and flights end (`RequestsEnd`) | 2 requests, 3 entries, one or two at a time, 1 queue place, 1 fault: 1.8 million states |
| `fact_store` | No sweep takes a sidecar of the published view (`LiveNeverSwept`), the quota holds (`QuotaHolds`), facts are not both in a sidecar and in memory unless the second look failed (`FallbackNotStale`), writes become permitted again (`WritesResume`) | 2 builders, 2 segments, quota 1, 3 generations, 1 fault: 1.3 million states |
| `retention` | History is cut from its old end and keeps the newest segment (`HistoryIsRecent`), no segment goes without need but for drops the code cannot attribute (`NoExtraHistory`), a byte budget is met once growth ends (`BudgetIsMet`) | 3 segments, 1 fault, 1 sweep, both modes: 1.4 million states |
| `log_tailer` | No complete line behind the saved position is lost without a gap row, but the first of a file committed empty in the middle of a skip (`NoSilentLoss`), lines are delivered whole or marked as cut (`WholeLines`), the bytes reported for a switch are the unread rest (`PendingIsTheTail`), a quiet log is read to its end (`EventuallyAccounted`) | 2 lines of up to 2 pieces, 3 files, 1 truncation, 2 faults: 1.3 million states |

Three runs end in a violation; each is a disagreement between the code and what the
repository says of it, quoted under `findings`:

* `collector_publish`: publication links the segment and then fails in a directory
  sync or the unlink. `seal` returns before `published_pending_reset` is set, the
  loop goes on, and later windows join a journal whose segment is published. They
  can only be quarantined.
* `collector_replay`: a crash during replay leaves a valid prefix; the next start
  seals it first, and the complete evidence is refused because the name is taken.
* `retention_auto`: a drop of the disk usage that someone else caused is credited to
  segments a reader still holds open; the next pass counts their bytes again and finds
  a deficit that is not there.

**Bounds.** Two errors are the least that make an operation and its undo fail, two
crashes the least that strike recovery itself. Run `journal` has a third error:
one leaves a reset unacknowledged, one an append whose undo a kill cuts short, so that an
immediate restart adopts what a power loss then takes back, and one fails a call on top
of that; only then does a rollback settle a file that shows neither what was
acknowledged nor what the last call asked for. Two windows of a segment tell the
first append from later ones and fill `MaxParts` (or `Cap` 2); a third needs another
segment. Two identities let a reset reuse a place. Four generations cover two resets
and a reopen in one process. Six journal files are more than two crashes and two
errors can create. The five sources are one of each kind the loop treats differently
(accelerated, both phase-separated ones, service, interval zero), with intervals
below, at and above tick and segment age. In `fact_loader` two keys do not fit
together and the third fits beside either, so that a queue, a refusal and a chance to
overtake exist, and the cache has room for one entry; under one of the three
configurations a request loads one entry at a time, so that entries are still to be
spawned when another becomes a gap or fails; one fault suffices for a panic, a
failed read or an abort at every step. In `fact_store` one sidecar of two fits, so that
every second publication meets the quota and its sweep; three generations are one more
than the grace; the run was also made with two generations and two faults. In
`retention` three segments leave a newest, a victim and one between, the limits fall
between the sizes of two segments with and without sidecars. In `log_tailer` a line of
two pieces exceeds `MaxLineLen` and one of one piece does not, `MaxBytes` ends a read
inside a line, and the backlog limit is passed by two lines; the run was also made with
three lines, two files and one fault. Deadlock is not checked in the journal runs,
where the generation bound ends a behaviour, nor in `fact_loader`, whose requests are
finitely many; the other runs check it.

**Fairness.** `Journal!FairSpec`: system calls return, a stopped collector is
started again (the unit's supervisor), an unhealthy one exits
(`stop_if_persistence_unhealthy`), a file that cannot be opened is rotated. Appends
and resets have none. `Collector!LiveSpec`: the process is restarted, startup and
cycles proceed (one task, bounded calls), and the age valve fires, which
`timer_sleep_delay` guarantees for any tick but 0. Collection, signals, errors and
crashes have no fairness. `FactLoader`: tasks and blocking workers that can run do run,
and a timeout fires; new requests have none. `FactStore`: builders go on, deadlines
pass, and the refresher probes again and again (strong fairness: a builder may hold the
reservation when it looks, and every refresh looks). `Retention`: the main loop comes
back to `run_rotation` and an hour passes; growth, the web process and readers have
none. `LogTailer`: cycles go on, and among infinitely many some discover the current
file and are not stopped by their time budget (strong fairness of such a cycle); rows
are stored and committed. The server has none.

## 5. Proofs

TLAPS checks the theorems for every value of the constants, from the named assumptions
on them and the hypotheses given below. The assumptions are what the code guarantees:
lengths are positive, configuration is as `validate_config` accepts it, times lie below
the horizon, and each system begins with room for one file or segment
(`MaxFiles # 0`, `MaxSegments # 0`). TLC evaluates them in every run. Each inductive
invariant was first checked by TLC.

Where a property is not inductive the invariant says what the property leaves open: the
state in the middle of a call. Its layers are separate operators, and the proofs follow
them layer by layer. Most layers rest on lemmas that classify steps ("what a step may do
to the files, to the segments"), so that a layer argues over three or four kinds of step
and not over forty actions.

* **`JournalProofs`**: `Inductive` (`Spec => []IInv`), and from it `TypeCorrect`,
  `HandleExact`, `RefsSound`, `ResetAlwaysFits`, `NameDurable`, `PoisonFreezes`, and
  `DurableWhenHealthy` under `~DirtyReopen`. `HandleMatchesFile` is not inductive: it
  says nothing about the middle of a call. `IInv` says for each `pc` how far the
  file has departed from the handle: the frames the handle knows are always the first
  frames of the file (`Known`), an append adds at most the new one behind them,
  rollback cuts exactly that, and a reset touches them only past its marker.
  References are sound because each issued one is of an older generation or of a
  frame still in place (`HandleOk`).
* **`JournalDurability`**: what crashes leave. `CapHolds` (`PhysicalCap`) needs `Capped`
  beside `IInv`: what the handle would cut the file back to is within the cap too.
  `AckedWindowsSurvive` (`AckedSurvives`, torn headers and immediate restarts included)
  needs `AInv` (`AckedInductive`): each header and each body the disk may keep, in any
  combination, bears the windows that are owed, and each call has asked for its outcome
  before it writes. `RestartInductive` has `DInv`, which says of every such combination
  what a restart finds: in an append, rollback or marker the old or the new content
  (`OldOrNew`), past a durable marker and before a first frame nothing (`EmptyAhead`),
  between calls only what is there (`Clean`). From it follow `OnlyKnownContents`
  (`NothingLost`), `OpensOnlyKnownContents` (`FailClosed`) and `RefinesAtomicLog`: every
  step of `Journal` is one of `AtomicLog` or leaves it alone. These three assume
  `~DirtyReopen`, and the refinement `~TornHeaders`: TLC shows that the first two fail
  when a killed process is followed by an `open` before write-back, and a torn header is
  no content of a log.
* **`CollectorProofs`**: `CollectorInductive` (`Spec => []CInv`), and from it `TypesHold`,
  `WindowsKept` (`NothingVanishes`), `PositionKept` (`PositionCovered`), `IdentityKept`
  (`OneIdentity`) and `StateDescribes` (`StateMatchesJournal`). `CInv` has the layers
  `Control` (which files each `pc` and task hold), `Open` (what the open journal holds: a
  beginning of its evidence while a replay copies, the content of its segment while a
  reset clears it), `Kept`, `Identity` (the number of the window in hand is new among
  windows and identities) and `Position`. A window is kept because the only step that
  clears a file with windows is a reset, and then they are in a synchronized segment or
  in the evidence behind the copy (`ResetCovered`).
  `NothingJoinsPublished` assumes that publication reports no error
  (`"publish" \notin FaultKinds`); run `collector_publish` is the counterexample without.
  `RestartsLoseNothing` (`RestartLosesNothing`) adds `RestartInv`: files wait where the
  startup looks for them (`Placed`), a copy is complete when it is sealed
  (`CopyComplete`), an identity has one content in every file and segment
  (`OneContent`), and what is not in a durable segment is in a file the startup still
  holds (`Recovered`). It excludes what does lose windows to quarantine: the error kinds
  in `Losing`, torn headers, and a crash between two frames of a replay
  (`[][Undisturbed]_vars`). Each exclusion is needed: with any single kind of `Losing`
  alone, or with torn headers alone, TLC finds a lost window, and `collector_replay`
  shows the crash. All other errors, kills and power losses are in, any number of them.
  `SegmentsImmutable` (`NeverOverwritten`): of all steps only a link adds a segment and
  only a power loss removes one.
  `RefinesArchive` (`ImplementsArchive`): every step of `Collector` is one of `Archive` or
  leaves it alone. `CInv` does not say enough for that; `ArchiveInv` adds that the saved
  position is the one in memory or one batch ahead of it (`Behind`), that every content
  lists its windows in order and under the number of its first (`Chronicles`), and that
  whatever bears an identity is in a file or a synchronized segment (`Backed`), so that no
  step can add to what is kept but the append of a new window. It needs none of the
  hypotheses of `RestartsLoseNothing`: errors, torn headers and crashes are all in.
* **`SchedulerProofs`**: `SchedulerInductive`, and from it `SchedulerTypes`,
  `NoStarvation`, `ServicesRearmed`, `WakesInTime`, `NeverSpins`. `StarvationInv`
  follows a put-off source through the tick: it is due again at rest, and once it has
  been put off as often as allowed the budget owes it a read; `RearmInv` follows a
  missing service source from the seal to the window that carries it; `PaceInv` and
  `AgeInv` bound lateness by the time the cycle took.
* **`FactLoaderProofs`**: `AdmissionIsSafe`: for every set of clients, every weight and
  configuration, a waiter has one place, the charge stays within capacity, the head of
  the queue never fits what is free, and nobody overtakes. The inductive invariant
  relates queue, phases, grants and charge; the lemmas on the queue say what removing a
  waiter leaves. `LoaderImplementsAdmission` shows that every step of the loader is a
  step of `AdmissionSpec` or leaves it alone, and `LoaderKeepsAdmission` carries the
  safety over. `NoChargeIsLost` (`ChargesAreExact`) and `ChargesMatchBuilds`
  (`ChargesAreResident`) say that the charge is the sum of the weights of those who hold
  one. The sum is stated as the number of units charged, pairs of a client and a number
  up to its weight: the library's facts on cardinalities then show by how much one
  client more or less changes it, where a fold would need induction over data.
  `FlightsAreShared` and `OneFlight`: one registered flight per key within the bound,
  and no caller asleep without a wake-up before it, by an invariant that follows each
  caller from arming to looking. `PermitsMatchBuilds`: a permit is held by the flights
  that build and by no others, a place in the queue by those that wait.
  `ViewsAreComplete` (`NoSilentHole`): a request that returns a view has the facts or a
  gap for every entry, and one that has ended left nothing running but flights it leads.
  The code tests neither; `RequestInv` adds that an entry fails or is aborted only with
  its request, so that an empty `JoinSet` means that the last return found nothing left to
  spawn.
* **`FactStoreProofs`**: `StoreInductive` (`StoreInv`), and from it `QuotaKept`,
  `FallbackFresh` and `LiveKept`. The quota counter may miss files, but never more than
  publications that failed behind their rename and are still to be counted (`QuotaInv`);
  facts that are both published and in memory have a builder that has still to look, or
  one that looked and could not read the sidecar (`FallbackInv`); a sidecar is swept on a
  second sight of its absence from the mark, and one of the published view is seen absent
  by sweeps of one mark only (`MarkInv`), since nobody builds facts of a segment a
  complete view lacks.
* **`RetentionProofs`**: `RetentionInductive` (`RetentionInv`), and from it
  `HistoryKept` (`HistoryIsRecent`) and `NoExtraDeletion` (`NoExtraHistory`). `PlanInv`:
  the plan holds every segment but the newest that is still there, so its first victim
  is the oldest; `Unlinked` and `BytesInv`: until a drop the code cannot attribute, what
  is left of a deficit is still over the limit, and the bytes held open are pending on top
  of the drop not yet observed.
* **`LogTailerProofs`**: `TailerInductive` (`TailerInv`), and from it
  `NothingLostSilently` (`NoSilentLoss`), `LinesStayWhole` (`WholeLines`) and
  `TailsMeasured` (`PendingIsTheTail`). `AccountedInv` is the core: each complete line in
  front of a position (in memory, on disk, or of the collection under way) is in the
  journal, stands behind a gap row there, or is one of `dropped`. It needs the shape of
  files (`FilesInv`: the cells of a line stand together and only the file being written
  ends in an unfinished line) and of positions (`PositionsInv`: a position is at the start
  of a line unless it skips to the next; one from before a truncation is at 0 or behind
  the end).

Attempts that failed were findings about the models. The proof of `AInv` showed that
`Settle` of `Journal` forgot an earlier reset request when an adopted file had lost what
it was opened with; two errors could not reach that, so run `journal` now has three.
`GapLines` of `LogTailer` had a `UNION` that two parsers read differently. The sorted
plan of `Retention` became the set it always was, with `First` for its order.

Only model-checked: that `auto` deletes no more for a foreign drop, which is false
(`retention_auto`), as are `NoExtraHistory` and `NoSilentLoss` (as
`NeverLosesCompleteLines`) without what they excuse, and the properties of
`collector_publish` and `collector_replay` without the hypotheses named above; and all
liveness (`CommittedResetCompletes`, `EventuallyPublished`, `RequestsEnd`, `WritesResume`,
`BudgetIsMet`, `EventuallyAccounted`): fairness and `ENABLED` are beyond the prover.

## 6. Not modelled

Byte codecs, section contracts and generated code; SQL and procfs; the parsers of log
lines; floating-point analytics; presentation and tools: their behaviour is data, with
little order or failure in it, and out of reach of a finite instance. The store, the
live fold (`LiveView` of the plan), the response cache and the pinned cursors of the web
service are not begun; their hazards are listed with a note. Within the modelled parts:
resynchronization inside a damaged journal body, the durability of renames in the data
root, scan limits, stale OVF temporaries, byte quotas, sparse and binary log content.

## 7. Observations

Met while modelling, not stated as runs:

* `open` adopts data it has not synced; a power loss can take back what the new
  process saw, never what was acknowledged (`AckedSurvives` of run `journal`).
* When a rotation ends with its alternate generation (`JournalActivation::Alternate`),
  the journal in use keeps a generation name in the root. `recover_pending_journals` of
  the same start takes it for a pending entry without frames and moves it to quarantine
  while it is open; after a crash no start looks there (`segments.rs:922`), although
  `root.rs:1589` calls it an alternate "retained at the root".
* `plan` marks every due source read before the cycle runs (`scheduler.rs:299`). When
  the first cycle of a segment fails, the service sources wait for their own interval
  and the segment is sealed without them, although `scheduler.rs:195` says "every sealed
  file carries its own instance identity, reset context, and configuration".
* A torn 36-byte header loses the identity, so intact frames stay evidence only.
* `max_journal_len` lowered between starts makes a reset return `Full`; a good
  journal is rotated and quarantined.
* Any error or crash during replay leaves valid windows in quarantine only; a handle
  poisoned by the first replayed frame goes into operation and stops at its first
  append.
* A window in hand is dropped when an early seal or the append fails; its log lines
  are read again, since the position is committed afterwards (at least once).
* When a cycle fails after the budget deferred a source, the deferral is dropped with
  the outcome (`main.rs:499`), although `budget.rs:7` says the source is re-armed.
* A deferral clears `last_read`, so tables and indexes can share an unforced tick
  outside a first-ever read (`scheduler.rs:280-287`).
* A failing age seal makes the sleep zero: the loop encodes the journal again without
  a pause until it succeeds.
* The age valve seals after `plan`, so the first window of the new segment is planned
  without its service sources; they come one tick later.
* Retention under `auto`: growth between two observations hides a drop, so pending reclaim
  stays too high and passes delete too little; a restart forgets pending reclaim. A
  removal whose directory sync fails behind the unlink (`root.rs:2294`) frees bytes that
  never enter pending reclaim; the drop is credited to a segment a reader still holds, and
  the next pass deletes history it need not: without the excuse for it TLC refutes
  `NoExtraHistory`. The bytes of removed orphan overviews reduce the deficit of a byte
  budget although the counter never held them.
* The log tailer keeps `skip_until_newline` for a new inode or a truncated file under
  the same path (`tailer.rs:394`), so the first complete line of the new content is
  dropped, behind a rotation row. When the new file is still empty at that read, it is
  committed with offset 0 and the flag (`tailer.rs:177-189`); the next read finds the same
  file, drops its first complete line and writes no row at all (`collector.rs:2144`). The
  test at `tailer.rs:610` is named `repeated_copytruncate_never_loses_complete_lines`; TLC
  refutes `NeverLosesCompleteLines`, which states that. A copy-truncated file that has
  grown past the old offset is not noticed: a fragment is delivered and no gap row
  written. A backlog skip that lands on the start of a line drops that line. Bytes
  pending from a path switch are forgotten by a restart; two switches between two
  discoveries lose the middle file behind one rotation row; after `NoCurrentLogfile` the
  old file is not drained. A first start at the end of a file in the middle of a line
  delivers the rest of it as a line.
* The quota counter of the fact store is refreshed only by a sweep: sidecars the collector
  removed keep counting, and publications are refused, while no authoritative mark exists.
  Facts served from the fallback memory are not published again before they are evicted.
  When the second look behind a refusal cannot read a sidecar that another thread has
  published (`publish.rs:697`), the copy in memory stays beside it. A publication that
  fails behind its rename is neither counted nor protected as recently published.
* The timeline flight of the web service (`pg_kronika-web/src/lib.rs:684-724`) has no
  guard like the fact flights: a panic outside `spawn_blocking` would leave it
  registered.
* The writer's README says startup removes stale PGM temporaries;
  `bins/pg_kronika-collector/src/main.rs:115-138` moves them to quarantine.

## 8. Running

    tlc -workers 2 -config Journal.cfg MCJournal
    tlc -workers 2 -config Collector.cfg MCCollector
    tlc -workers 2 -config Scheduler.cfg MCScheduler
    tlc -workers 2 -config FactLoader.cfg MCFactLoader
    tlapm JournalProofs.tla

and likewise for the other configurations and for the other proof modules:
`JournalDurability`, `CollectorProofs`, `SchedulerProofs`, `FactLoaderProofs`,
`FactStoreProofs`, `RetentionProofs` and `LogTailerProofs`. Operators whose comment
begins with "(broken)" are not part of a specification: each is a plausible bug of
the definition below it and shows that a property notices it.
