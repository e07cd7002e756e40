# Formal models of claudix

claudix keeps a semantic index of a git working tree for Claude Code. One Rust binary is an MCP
server, a hook handler (SessionStart, UserPromptSubmit, PreToolUse, PostToolUse) and a command
line; a Node script installs and launches it. Every session, hook and background worker is a
process of its own, and they meet only in files under `<repo>/.claudix/` and in a cache of the
user. No daemon orders them: exclusion, hand-over and recovery rest on `create_new`, on pids
read back from files and on the order of writes. That protocol is the first half of these
modules; the second half is the logic each process runs alone: which files are indexed, how
they are cut, embedded, ranked and reported.

Who calls whom: PostToolUse appends to the reindex queue and spawns the drain worker when no
watcher is alive; the drain worker, the watcher, `reindex-file` and the MCP server claim
`index.lock` and call `reindex_file`; SessionStart and the MCP server start full indexes, which
claim the lock once and give up when it is held; `clear` claims nothing and terminates the
holder. All of them end in the chunk table and the manifest. Searches and hints read both
without a lock.

## Inventory

| component | state | operations | what makes it correct |
|---|---|---|---|
| chunk-writer lock (`src/store/lock.rs`) | `index.lock`: the file and the pid in it | poll, try once, release, forced clear | one writer at a time; orphans are reclaimed |
| reindex queue and drain worker (`store/marker/reindex_queue.rs`, `cli/drain.rs`) | `reindex-queue`, its lock, the worker's snapshot | append, due paths, rewrite, the loop | no edit is lost; every edit is served or accounted for |
| chunk table and manifest (`store/mod.rs`, `lib.rs`) | LanceDB table, `manifest.json` | full index, reindex, prune, clear | what the manifest vouches for is in the table, of its model |
| worker markers (`store/marker/mod.rs`, `hooks/spawn.rs`) | `watch.pid`, `reindex-drain.pid` | claim, hand over, heartbeat, drop | one live worker; a dead one gives way |
| pending-index marker (`store/marker/pending_index.rs`, `hooks/ready_check.rs`) | `indexing-pending`, ack file, per-session records | claim, record, check | one spawn at a time; one notice per turn, none missed |
| change-neighbors marker (`store/marker/change_neighbors.rs`, `hooks/post_tool_use.rs`) | the marker, two ledgers per session | write, take, append, sweep | hints go to who edited, once, and are withheld only when known |
| watcher (`cli/watch.rs`) | channel, pending paths, deadline | receive, drain, reindex | edits it sees are caught up with |
| MCP server (`mcp/mod.rs`) | one thread, the lock it may hold | search, reindex, forced reindex | every call is answered; one writes |
| embedding (`embedding/`) | model files, provider, port marker | download, batch, retry, advertise | published files are verified; vectors stay with their texts |
| search (`search/`) | none | rank, fuse, deduplicate, floor | the k best in a total order |
| row conversion, overview (`store/chunk_row.rs`, `store/arrow.rs`, `cli/mod.rs`) | record batches | to rows and columns and back, filter, roll up | what a search answers is the chunk that was indexed |
| chunking, enumeration (`chunking/`, `enumeration/`) | none | chunk, enumerate, filter, sweep | edits stay local; two filters agree |
| configuration, command line (`config/`, `cli/`) | two TOML files, the log of an index, the plugin directory | load, merge, validate, install, status | one meaning of the settings; status tells of the run that runs |
| bootstrap installer (`bin/claudix-bootstrap.js`) | lock directory, pid file, downloads | clean up, lock, fetch, publish | one installer at a time |

The hard parts: a decision taken on a file and acted on after another process has replaced it;
a process that dies between two writes; queue lines that arrive between a snapshot and its use;
a manifest that survives the rows it describes; a model that changes under a search; values
that are read once and used long; two implementations of one rule.

## Modules and what they model

**Concurrent protocols.** A step is a file-system call, a commit or a probe, because other
processes run between them. A file is known by who created it, since `remove_file` acts on the
path. Pids are not reused.

- `IndexLock`: `acquire_reindex_lock` (polls), `acquire_index_lock` (tries once, reclaims what
  is old or dead), the guard's drop, `stop_index_lock_holder`. `preempted` records a decision to
  remove a foreign file; the exclusion is unconditional only before that.
- `WorkerMarker`: the claim of a worker marker, the spawn, the hand-over to the child's pid, the
  heartbeat, the drop. `misremoved` records that a removal hit another file than was judged.
- `ReindexDrain`: sessions edit, hooks append stamped lines and ensure a worker, the worker runs
  `drain_loop`. `todo`, `cutoff`, `owner` are a round's snapshot; a file's content is the number
  of its edits. The queue's own lock makes append and rewrite atomic to each other. Each failure
  the code tolerates is an action. The claim and spawn of WorkerMarker are one step here.
- `EditLedger`: what that path promises, with no queue, clock, hook or worker: each edit comes
  to be in the index, is given up by a step that fails open, or waits because nobody is left.
  `ReindexDrain!Ledger` is the refinement mapping (`disk`, `indexed`, `missed`, `stranded`).
- `IndexStore`: what `index_full`, `reindex_file`, prune and `clear` write, commit by commit,
  while the working tree changes. Rows carry the hash of the enumeration and the text of the
  later read, which may differ. `Fail` ends an operation anywhere, a clear between its two halves
  included, and an edit may bring back any content. `doubted` is the set of files that came back to
  a content on record of theirs (in the manifest, the rows or the running index) while the store did
  not bear that record out or an operation was at them, or that match a manifest a cut-short clear
  has left; the next manifest that is borne out settles it. What is left of the promises without it
  is in the run `gate`.
- `EmbeddingIdentity`: the model of the rows, the manifest, the worker, the server's provider
  and each search or intercepted grep, while the configuration changes.
- `PendingIndex`: SessionStart's claim and spawn of a background index, the index itself, and
  the check later events make, in clock seconds. A hook is done within one unit of the clock; a
  spawned index has its lock before `FailureGrace`. A session runs the hooks of several tool calls
  at once (`Parallel`), which read its record of the turn, decide and write it in separate steps
  (`ready_check.rs:117`, `:124`); a record that is being written reads as none. A new prompt comes
  when they are done. `raced` marks a hook whose look another's notice has overtaken. Clients
  without sessions share one record, of the run. `misremoved` as above; an index that finishes
  in the second of the timestamp it is compared with is told of as failed.
- `ChangeNeighbors`: the marker a reindex leaves, its read and removal by hooks, ranged reads,
  and the `seen` and `read` ledgers with their caps. The read and the removal are two steps
  (`change_neighbors.rs:88`), so a hint may be lost or be taken by two hooks of one session. A
  ranged read is recorded up to the range it asked for, beyond the end of the file.
- `McpServer`: tool calls as tasks of one thread over one process id, against the lock and the
  store. A reindex of a path polls with `thread::sleep`: under an index of the same server it
  blocks every task until its deadline.
- `SideChannel`: the advertised port of several servers, its upkeep and withdrawal.
- `Watcher`: the event loop with its window and batch. Events that are errors, edits before the
  watch is registered, a lock that times out and a failed reindex wait for the next full index.
- `Bootstrap`: invocations of the launcher over one cache directory, from the clean-up to the
  release. The read of the pid file and the look for its process are two steps, since the read is
  awaited (`claudix-bootstrap.js:456`, `:460`); `handed` records that a lock was removed that was
  another's by then. `ModelFiles`: processes that download the bundled model, with inodes and offsets.

**Algorithms, one state per input** (or per step of an input), each against a reference:

- `Selection`: full enumeration and one file's filter over rule files at every level, tracked
  and untracked. `NestedStores`: the project root and the sweep of nested stores.
- `Chunking`: the line fallback on a text and on the text after an edit, where a new line is one
  that no file had; the innermost declarations an edit of code asks for. `Declarations`: which
  nodes of a parsed file become chunks, per language; a file is written token by token.
- `Embedding`: batches, HTTP retries, fallback, sub-batches under a token budget, reassembly and
  its error, a plan that skipped a text.
- `Ranking`: bounded heaps, fusion of two rankings, which rows count (a token in the text or the
  name, or a near vector, and `min_score`), the boost of a name with its least value and the clamp,
  deduplication, the cut. A row's match is a similarity, a BM25 score and whether its name has a
  token; scores are tenths. The weights of the three parts of the sum are one, and the normalised
  and reciprocal-rank terms are counted in places; they stay increasing in the score. `Floor`: the
  similarity floor as percentile of a corpus, and which floor a hint uses.
- `ChunkRows`: embedded chunks become rows and record batches, are read back in every projection
  of the store, filtered by language and path, counted, and rolled up by directory. A path is a
  sequence of tokens.
- `Settings`: two files merged, normalised, validated, and what the launcher reads of them.
- `Status`: progress as told from lock, log and marker. `Install`: `claudix install` with kills.
- `GrepIntercept`: which searches the hook answers itself: its scan of the arguments beside the
  reading `rg` and `grep` give them, which is external. `Calendar`: RFC 3339 seconds.

`*Proofs` modules hold the theorems; `MC*` modules instantiate. `PROJECT.json` maps every
definition to its lines.

## Runs

Components that share no state share a run: a variable `part` names the one that runs and the
others rest in one state, so a run is the union of its parts and each property is of one of them.
Three properties are conjunctions of two: `OrphansGiveWay` (`OrphanRemoved` of the lock,
`StaleMarkerGivesWay` of the worker's marker), `SearchesSeeTheChunks` (`ChunksSurviveStorage`,
`LanguageFilterIsExact`) and `OverviewIsExact` (`StatsAgree`, `DrillDownShowsTheDirectory`).

| run | shows | bounds, and why they are enough |
|---|---|---|
| `markers` | `ExclusiveUntilDisturbed`; `OneWorkerWhileRemovalsHit`; `OneInstaller`; `OrphansGiveWay` | lock: 2 reindexers (1 mortal), 1 indexer, 1 clear, so every pair of kinds meets and two reclaimers race. Worker: 2 hooks, 2 workers, one of each mortal, spawns may fail. Bootstrap: 3 invocations, so that the lock changes hands under a reader, 1 killed, lock looked at once more |
| `drain` | `NoLostEdit`, `NotSleptPast`, `StrandedOnlyByExitWindow`, `ImplementsEditLedger` | 2 files, 2 sessions, 2 edits a file up to time 3, windows 2 and 3, clock 6, 1 fault: edits before, in and after a round |
| `table` | `TrustedMeansStored`, `CompletedIndexIsExact`, `CountsAgree`; `TableHasManifestModel`, `RankedAlike` | 2 files; 3 contents of one, two and no chunks, of which the latter two are on disk in one file at a time (`OneUncommon`), window 2, delete batch 1, 1 failure (contents return and files vanish without bound, and an index whose file vanishes ends early without a failure); 3 models, two of one width, 1 change, 1 death, 1 search, 1 grep |
| `pending` | `SpawnsAreSerialized`, `FailureMeansQuiet` (a step that tells of a failure finds no index alive, and is the first of its turn unless it was raced), `EveryTurnIsTold` | a manual index, grace 1 and 2, clock 3, 2 prompts; either 2 sessions (one anonymous, one mortal) with one hook at a time each and the manual index or a second prompt, not both, or the mortal one alone with both and 2 hooks at once, which suffice to race (`alone`) |
| `files` | `SuppressedIsKnown`, `HintsAreOwnAndNew`; `PublishedIsVerified`; `InstalledIsSource`; `SweepIsExact`; `ProgressIsOfTheRun` | below |
| `servers` | `OneCallWrites`, `EveryCallIsAnswered`; `ClearedStaysCleared`, `MarkerHeals`; `EditsAreCaughtUp` | 2 calls, 2 files, 2 polls, 1 edit, 1 foreign claim; 3 servers, 1 death; 2 paths, 2 queued, 1 missed |
| `data` | the properties of ten components without common state, and `DataTypeOK`, their types | below |
| `grown` | counterexample to `SuppressedIsKnown`: a file grows | 2 hooks, 2 sessions, 1 file of 1 line, later 2 |
| `gate` | counterexample to `GateForcesRebuild` | as `table`, without any failure |
| `two_writers` | counterexample to `OneWriter`, nobody dies | 2 reindexers, 1 indexer |
| `force` | counterexample to `TrustedMeansStored` of `McpServer` | 2 calls, 2 files |
| `bootstrap` | counterexample to `OnlyOrphansAreSwept` | 2 invocations, none killed |

`files`, part by part: `hints` 2 hooks, 2 sessions, 3 files, a block and its namesake inside it, cap
2, 4 events, so that a ledger overflows. `files` 2 processes, 2 assets of 2 blocks, 2 breaks (a
transfer, a disk, a truncation or a death, and another on its repair). `install` 2 entries, 1 kill,
1 update in between. `stores` chains of 2 directories. `status` 3 jobs of 2 processes, 2 files.

`data`, part by part: `chunking` chunks of 8 lines with overlap 2 in 17 lines, up to 3 boundaries;
code of 4 lines and 3 items. `ranking` 4 places in 3 files, scores 0..2, limit 2: ties and one place more than a heap takes;
for a search 5 kinds of match (none, by vector, by text, by name, by all), a unit of 10, a boost of
14 tenths, which takes some sums past the unit and leaves others below the least a name gets, and
`MinScore` 4, which cuts some rows that hit. `selection` depth 2: a
level above the top, between and at the file. `floor` up to 4 files, 3 seeds, 5 rows at percentile
30. `declarations` 9 languages, 3 nodes, 2 line breaks. `embedding` 4 chunks, batches of 3,
3 attempts, budget 4. `settings` 10 fields, 3 set. `grep` 3 tokens. `calendar` 1200 days from 1970,
2000 and 2100: a century that is a leap year and one that is not. `rows` 8 chunks in 2 windows of 2,
2 widths: a file at the root, in a directory and beside a directory of its name, an alias of a
language, an unknown extension, a vector that is refused.

Deadlock checking is off where the system really stops: processes that are gone, clocks and
edits at their bound, inputs that are complete. In `table` searches and indexes could go on
for ever, but its two halves stop at different bounds.

Fairness. A process that has started takes its next step (the operating system schedules it),
holders finish and release, time passes; nobody is obliged to edit, clear, give up or die.
Indexes keep being started, since each SessionStart does. The worker's fairness is on its steps
together, as it is one thread. A task of the MCP server is strongly fair: the executor polls
each task that can go on again and again, and it can go on whenever no other blocks the thread.
The watcher's loop is fair, and strongly fair in its choice of receiving and of the deadline:
`select!` picks at random. `PendingIndex` is fair to the checks of sessions that go on having
events, not to starts.

Bounds by name: `LastEdit`, `MaxEdits`, `MaxFaults`, `MaxClock`, `MaxPrompt`, `MaxEvents`,
`MaxChanges`, `MaxInterruptions`, `MaxOther`, `MaxQueued`, `MaxMissed`, `MaxBreaks`, `MaxDeaths`,
`MaxKills`, `MaxUpdates`, `MaxNodes`, `DeclBreaks`, `MaxTokens`, `MaxSettings`, `FilesDone`,
`MaxWindow`, `MaxBatches`, `Span` and the sizes above.

## What the counterexamples say

* `two_writers`: an index reads "not running", a reindexer creates its lock, the index removes
  that file and creates its own; both write.
* `force`: a forced reindex looks at the lock while it is free and clears the table without holding
  it; another call of the same server claims after the look, compares and appends a file's rows,
  loses them to the drop, appends the rest and writes a manifest that names both, with a count the
  table satisfies. Had it claimed before the look, the clear would have found the server's own pid
  and let it be.
* `bootstrap`: the clean-up every invocation begins with removes all download directories, that
  of a running installer included.
* `gate`: a file is edited under a first index; the second one deletes its rows and ends early, since
  the file has vanished when it is read again (a death leaves the same). The content the manifest
  names comes back: the row count refuses the fast path, but the comparison finds no file changed, so
  the next index would embed nothing and write a manifest with the short count.
* `grown`: a Read that asks for more lines than the file has claims them all; what another session
  then appends counts as read, and hints about it are withheld.

Known limits that no run keeps a counterexample of:

* Installers: an invocation reads the pid of an installer, which then fails, releases the lock and
  ends; the next installer takes the lock, the first judges the old pid dead and removes it from under
  it, nobody killed (`claudix-bootstrap.js:460`, `:527`; `handed`). A lock directory without a pid stays.
* Clear: one that is killed between the drop and its manifest, then a reindex of another file that is
  gone, which counts no rows and keeps the hash of the first: zero claimed rows pass the gate, and the
  fast path exits over a file without rows (`lib.rs:288-293`; `doubted`).
* Notices: two hooks of one turn that read the session's record before either writes it both tell
  (`ready_check.rs:117`, `:124`; `raced`).
* Rules: a reindex asks a filter that reads the rule files of the root only, so a file that a nested
  `.indexignore` keeps out of a full index gets rows from a reindex after an edit, against `README.md:116`
  (`RulesAtTheTop`).
* Lock: `acquire_reindex_lock` reclaims only a file with a parseable pid (`lock.rs:64`).
* Queue: two appends in one millisecond can lose the later one (`reindex_queue.rs:209-223`);
  hence `~CoarseClock` in `NothingLost`. Session and content of a drained edit are read at
  different times (`drain.rs:114-119`). The worker may claim between its spawn and the hand-over,
  find its hook alive and exit, which leaves the queue without one until the next hook
  (`spawn.rs:188`): the exit window of `StrandedOnlyByExitWindow`.
* Store: a file that changes and comes back between its hash and its reading leaves rows of another
  text under its hash (`lib.rs:768`); it is `doubted`. Rows of a wide delete go even when the append
  fails (`store/mod.rs:745-750`).
* Models: workers and watchers check the model once. An index that dies after it has cleared the
  store for a new model leaves leftovers a third model of the same width may take over
  (`store/mod.rs:940`); `tainted` marks both.
* Install: the separate copy of `skills` is one more entry of the one directory. A plugin manifest that was cut short sends the next run silently to the local root; an
  interrupted write of the global configuration leaves an empty file for good; `.sh` files
  copied before a crash keep their mode.
* Configuration: the launcher reads `development_mode` in `CLAUDE_PROJECT_DIR` by pattern, also
  below a section header; `install_data_dir` (`cli/mod.rs:952-981`) treats empty variables
  unlike the launcher; a `related_min_similarity` of exactly 0.80 reads as unset.
* Chunking: an inserted line can cascade through forced closes, so `EditsStayLocal` is stated up
  to the next content boundary (`lib.rs:578-580` promises more). A doc comment above an
  attribute is not part of a Rust chunk.
* Python: `class_definition` below `decorated_definition` is skipped, and the latter yields a chunk
  only for a function: a decorated class has none.
* Status: the log is read before its time. A server that begins its second index in between gives
  the log of its first one a time that passes for the second's, and its counts are told, at 100 %
  (`renewed` in `Status`).
* Overview: the files of the root are shown under `.`, and asking for `.` answers nothing.
* Grep: the property covers the flags of `rg`; `rg -rn`, `grep --color PATTERN PATH` and
  `grep -T` are read differently by the hook. Bash's `-g`, `--glob` and `--type` are intercepted
  while the Grep tool's glob and type pass through.

## Proofs

TLC shows the properties on the instances above; the theorems are for every value of the
constants. Each is an inductive invariant with three facts: it holds at first, each step keeps
it (one proof step per action), it implies the property.

- `MarkerProofs`, the lock: `ClaimantsOwnTheFile` (who writes created the file, an index about to
  decide reads its own pid, no removal of a foreign file is under way) gives `Exclusion`;
  reindexers alone that do not die exclude each other without the proviso (`ReindexersExclude`).
  The worker's marker: `ChildrenFollow`, what is judged, what is named; then `OneWorker`. A removal
  of the file that was judged cannot take a live owner's marker, since that owner would have been
  judged dead.
- `ReindexDrainProofs`: `NothingLost` from `EditsAccountedFor`. `NoLostEdit` is not inductive:
  between the worker's read of a file and the rewrite the line it will drop no longer counts, so
  the edit it read must be the last, or a later one has a line past the cutoff or is with its hook.
  `StrandingIsExplained` from `LinesAreAttended`. `DeadlinesAreKept` from `SleepIsShort`: a sleep is
  cut to the shortest window, so a path queued during it, whose deadline it did not know, is not
  due before it ends. `ImplementsLedgerSteps`: the initial states map to those of `EditLedger` and
  each step maps to one of its steps or to none, with `LedgerInv` (`LedgerIsSound`: what is indexed
  or given up was made) as the invariant the mapping needs.
- `TableProofs`, the store: `Sound`. Three ideas carry it: rows of another text than their hash
  belong to files that have moved on (`RowsAreHonest`); whatever the manifest says of a file that is
  what the file is, its rows bear out (`ManifestVouches`), at every step but inside a clear; and an
  operation deletes or writes only rows the manifest does not vouch for (`IndexOnTrack`,
  `ReindexOnTrack`). An edit undoes each of these when it brings back a content on record, and only
  while that record is not borne out or the operation is at the file; then the file is in doubt
  (`Editing`), and a manifest that is written takes out of doubt what it bears out (`Settling`). From it
  `TrustIsWarranted`. `CountIsKept` from `CountHolds`: rows are the cardinality of a set of chunks,
  and an operation writes the count it has just taken or is `torn`. `CompletedIndexExact` adds to
  `Sound` that the index deletes the rows of every file it did not see (`NoGhosts`), and, of the fast
  path, that a table with as many chunks as those of the files the manifest names has rows of no
  other file (`FewerChunks`, `InSyncHasNoGhosts`).
  The models: `WriterAgrees` gives `OneModel`; `ReadersAgree` on top of it gives `RankingIsAlike` (a
  manifest that changes its model excuses whoever is in flight).
- `PendingIndexProofs`: `MarkerIsHeld` (who is about to spawn, or has, holds the marker that is
  there, or its removal was recorded) gives `Serialized`. `Quiet` is about a step: `NoOlderMarker`
  and `QuietSinceTheLook` say that a check that has found no index alive keeps finding none until
  somebody spawns, and `NoticeIsFirst` that a turn that was told has its record, and that a hook about to tell
  is the first unless another has told since it looked.
- `ChangeNeighborsProofs`: `OwnAndNew` from `EditsHaveOwners` (an edit in the marker, or on
  its way, is one its session made) and `SeenIsShown` (the ledger holds nothing but what was shown,
  and all of it that can be recorded unless it was reaped or not written);
  `Suppressed` from `ClaimsAreDisplayed`, under `FixedLengths`: when a file may grow it is false
  (`grown`).
- `ServerProofs`: `CallsOwn` (who writes holds the lock in the server's name, alone; one call
  blocks at most) gives `CallsTyping` and `OneCall`. `LooksAreOver` gives `StaysCleared`: a look that
  found the marker orphaned did not find it its own, so a server that withdraws its own has no look
  under way.
- `FileProofs`: `CacheIsSound` (a name is given only to an inode that is whole, and nobody writes to
  an inode that has one) gives `CachedIsVerified`. `SweepInvariant`, what the walk has left behind
  it, gives `SweptExactly`. `InstallOnTrack`, that everything before the step a run is at is
  copied, gives `Installed`. `StatusOnTrack` (what has been read so far is of the job that held the
  lock, or the reader is `raced` or `renewed`) gives `TellsOfTheRun`. Of the installers of the
  binary: `LockIsOwned` (who is past the lock has made the directory that is there) gives
  `Exclusion`, with `Begun`: a pid that was read is of an invocation that has begun, and one that was
  judged dead stays dead, so a removal hits a living holder's lock only if it has changed hands; `Typing` includes that what is published passed the digest.
- `DataProofs`: `SelectedAlike` follows from what one filter does.
  `RanksTheBest` has two halves. `RankOnTrack`: the heap holds the best of what was scanned, and
  what was pushed out is worse than all that stay. `SearchOnTrack`: an answer is as long as its
  limit allows or holds every place worth answering; sorting is by rank, and in a finite totally
  ordered set each element has a rank of its own and every rank is taken (`RanksAreTaken`), so the
  first places of the files can be counted off. Both rest on a finite set having a first and a last
  element, proved from the least element of a set of naturals in place of an induction.
  `TimesAgree`, from anchors whose dates are known: the date the code computes for a day is the
  calendar's, and the day after it has the next date. The closed formulas are split by era, year of
  the era and month of the year: consecutive years and months lie apart, so a day lies in one of
  each, and the divisions by which the code finds it are shown to hit that one.
  `SettledAlike`: each file sets fields to values of their kind, so what holds of a field is what
  the project, the user or the default says of it, in this order (`ConfigIs`).
  `FloorsAreFair`: sorted scores are a score for each rank, the file at a rank has as many ahead of
  it as the rank counts, and all below its score are among those; a stride of the rounded-up
  quotient asks no more files than the sample is long.
  `ChunksStandApart` from `DeclInv`: items are written in the order in which they open and lie
  behind or inside one another, before an item its line holds only what opens around it, and a doc
  comment has its line to itself. So the start of a Rust chunk, moved up over comments, crosses no
  end of another item (`NothingClosesAbove`) and never overtakes the start of an earlier one
  (`ExtendedInOrder`).
  `EmbeddingOnTrack` gives `VectorsAreOfTheirTexts` and `RetriesEnd`. What is embedded is always a
  prefix of the texts, in order; so it is enough that one batch brings its own vectors. Of the
  endpoint: indices that are all different leave one item for each. Of the model: texts ordered by
  length are each there once (`EachInTheOrder`), joining one to the plan keeps the place of every
  earlier one and gives it a place (`JoinCovers`), so each index of the batch has one in the plan
  (`PlansAre`), the vector of any of its places is its own, and no index is skipped.
  `BudgetIsKept` says of the same plans that each group of several texts fits the token budget; it
  is a theorem only, no run asks for it.
  `InterceptsThePattern`: argument by argument, as long as neither gives up, the scan and `rg` expect
  the same of the next argument or `rg` alone takes it as a value, and what `rg` has read as a
  pattern or a path the scan has too, as a pattern or a positional (`ScansAgree`). One positional of
  the scan is then the pattern of `rg`, its only positional, or a value; in the last case
  `rg` has no pattern and does not run.
  `RowsOnTrack` (the batches cut what was brought into windows, each recorded column by column) gives
  `SearchesAnswerTheChunks`: reading them one after the other gives a row for each chunk brought, in
  order (`ReadIs`), and the tables of names are undone by those they are read with.
  `OverviewsAddUp`: the directories part the rows, and the sizes of parts taken one after another add
  up to the whole (`PartsAddUp`), as those of the files do, each of which is in one directory. What is
  below a shown directory matches it as a prefix (`BelowIsMatched`), and a row of the directory itself
  does.
  `ChunkingOnTrack` gives `EditsAreLocal`. In a text, the second of two boundary lines that stand well
  apart ends a segment wherever the one before it began (`SettledEnds`), before the edit as after it;
  from there on the cuts fall where they fell (`CutsFallWhereTheyFell`) and the chunks are old. The
  overlap can be cut short at the first line, where the removal of a line makes a chunk new
  that reaches further; it holds another new one then, and the filter of the queries drops it
  (`QueriesReachTheEdit`). In code a chunk is new if and only if it holds the edited line
  (`NewCodeHoldsTheEdit`).
  `DataTyping` puts the typing theorems together: the part that runs never changes (`PartStays`).

Assumptions: the `...Assumption` of each module says that kinds of process are disjoint, times are
ordered as `config/validate.rs` orders them, `None` is none of the other values, files, jobs and
assets are finite, jobs that report on a terminal have processes of their own, the calendar's walk
starts at an anchor, a day has 86400 seconds, a file that can be scored has chunks, the overlap is
less than a chunk (`validate.rs` bounds it), a batch, a budget of attempts and a text are not empty,
and a chunk that is embedded has a normalized path and the language of that path. TLC evaluates
them in the runs. `NothingLost` assumes `~CoarseClock`, `Suppressed` `FixedLengths`; the other
theorems assume nothing beyond.

Model-checked only:

- liveness (`OrphansGiveWay`, `EveryTurnIsTold`, `EveryCallIsAnswered`, `MarkerHeals`,
  `EditsAreCaughtUp`, the temporal half of `ImplementsEditLedger`): fairness and ENABLED are out of
  the prover's reach;
- the watcher, of which only liveness is stated.

Every invariant of the runs is stated by a theorem, and each module with an invariant has a typing
theorem (`IndexStore` and `EmbeddingIdentity` as part of `Sound` and `WriterAgrees`, `ModelFiles` as
part of `CacheIsSound`, `ChunkRows`, whose state has no type of its own, as part of `RowsOnTrack`).
The induction theorems of the library cannot be instantiated here. Where a theorem needs what a
recursive function computes, the proof goes by the least number at which a claim would fail
(`UpTo`), from a function shown to satisfy the recursion.

## Not modelled

- Tokenizing, inference, pooling, BM25 and cosine: numeric. Scores are members of a small set.
- Grammars: a parser is external; `Declarations` builds sources together with their trees. A
  line that closes a node is assumed to open no other.
- Message wording, tool schemas, wire formats, the binary layout of Arrow: no control of their own.
- `doctor`, the duplicate scan's own store access, the cached health check.
- The re-check of files an include rule has newly forced in (`store/mod.rs:452`), symbolic links,
  `respect_gitignore = false`, negated patterns, `.git/info/exclude`.
- The launcher's cargo fallback, the removal of old versions, the link on PATH.
- The environment and working directory of spawned commands; plugin installs whose source is
  their destination.
