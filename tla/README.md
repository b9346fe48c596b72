# A verification of reddit_archiver

TLA+ modules, TLC runs and TLAPS proofs about `reddit_archiver`, the program in
`src/` that archives the posts and comments of subreddits over a window of
time. File names below are relative to `src/src/reddit_archiver/` unless they
start with `src/`.

## 1. The system

A **run** (`runner.py`) starts one worker per configured subreddit in one
asyncio event loop. A worker walks the posts of its subreddit, then the
comments. A walk pages through the window `[after, before)` with a cursor: ask
a backend for the page at the cursor, store the records, save the cursor,
advance. Records are in `posts.json` and `comments.json` of the subreddit's
directory, cursors in its `progress.json`. Nothing else survives a process, and
runs follow one another over the same output directory.

| Component | State | Operations | Talks to |
|---|---|---|---|
| Run, `runner.py` | locals of each walk, the shutdown event, the semaphore | worker, walk, fetch, persist, checkpoint, depth pass | backends (await), store (await), signal handlers |
| Backends, `sources/` | an HTTP client | search a window from a cursor; fall back to the next backend | the archive APIs |
| Pacing, `ratelimit.py`, `sources/_http.py` | semaphore, lock, `_next_allowed`, `_pause_until` | acquire, release, headers, retry with backoff | shared by all walks that use one backend |
| Record files, `store/storage.py`, `_io.py` | JSON files, one lock per subreddit and process | upsert (read, merge, replace), depth pass | also rewritten by the filter |
| Checkpoints, `store/progress.py` | `progress.json` | get, upsert | read by every later run |
| Tree, `store/storage.py`, `tree.py` | the `depth` of comments | queue in the store, recursion in the preview | |
| Manager batch, `manager/` | results folders, `gata.txt`, exit code | entries one after the other, export, flag, callbacks | the scraper manager (HTTP) |
| Filter, `phase2/keyword_filter.py` | annotations in the record files, a workbook | flag in place, export | shares files with the archiver, no lock |
| Container, `src/docker-entrypoint.sh`, `src/merge_output.py` | a process tree, merged files | choose a command, exec or child, merge, stop | docker, tini |
| Launches, `cli.py`, `config.py`, `manager/args.py`, `manager/stats.py` | the environment, `.env` files, a config, the payload of a job | window and subreddits of a launch, refusals, the reports per subreddit | the manager sends windows, cycle after cycle |
| Normalization, content filter | none | pure functions | |

`PROJECT.json` lists every component with what is left out of it, and every
hazard (`hazards`) with the line at which it bites.

What is hard here, and what correctness means:

* **Crash and resume.** Records and checkpoint are two files written one after
  the other. A checkpoint must never claim a record that is not stored,
  whenever the process dies; a complete one must mean the whole window.
* **Settings from five places.** A window may come from the environment, two
  `.env` files, the config, a job and the manager; it must be the one asked for,
  and a recurrent job's windows must leave no gap.
* **Reuse of an output directory.** A dry run, a window relative to now, or a
  second list of subreddits meet the checkpoints of the runs before.
* **Interleaving.** Walks interleave at every `await`: two workers of the same
  subreddit, callers of one limiter, workers left behind by a failed job, and
  in two processes the archiver and the filter over the same files.
* **A source that moves.** Records arrive late, many share one second, and
  backends differ in what they have.
* **Partial failure.** A backend without some records, a page none can serve, a
  lost callback, a file that cannot be read, one entry of a batch that fails.
* **Ending.** The cursor may not be stuck, a call may not wait for ever, a
  batch must end with an exit code that is true.

## 2. Modules

| Module | Models | Extends / uses |
|---|---|---|
| `Archive` | the abstract promise of an output directory | |
| `Archiver` | `runner.py` with the page contract of `sources/` and the files of `store/` | instantiates `Archive` |
| `MCArchiver` | the instances TLC checks | `Archiver` |
| `ArchiverProofs` | types, coverage, finished runs, depths, bounded runs | `Archiver` |
| `ArchiverPromise` | monotone checkpoints, refinement of `Archive` | `ArchiverProofs` |
| `RateLimiter` | `ratelimit.py` and the loop of `get_json` | |
| `RateLimiterProofs` | its invariants for every configuration | `RateLimiter` |
| `Store` | the record files under archiver and filter | |
| `StoreProofs` | what files keep | `Store` |
| `CommentTree` | the two depth algorithms | |
| `CommentTreeProofs` | queue, hops, stack, forest, bounded passes | `CommentTree` |
| `Batch`, `MCBatch` | `manager/job.py` and what it calls | |
| `BatchProofs` | exit code, flag, verdicts, reports, bounded batches | `Batch` |
| `Container` | `docker-entrypoint.sh`, `merge_output.py`, docker stop | |
| `ContainerProofs` | failures stand, merges are current | `Container` |
| `Jobs`, `MCJobs` | what a launch archives: `cli.py`, `config.py`, `manager/args.py`, `stats.py` | |
| `JobsProofs` | windows, cycles, reports, windows that move on | `Jobs` |

Modules compose by their interfaces: `Archiver` takes a call to a backend as
one step that answers or fails, and `RateLimiter` shows that each call does end
and how it is paced; `Archiver` takes a write of a file as one step, and
`Store` shows what that step does to single records; `Archiver` takes the depth
pass as one step, and `CommentTree` shows what it computes; `Batch` has the
ways a Runner ends, and `Container` the ways a program does; the windows of
`Jobs` are the constant `Runs` of `Archiver`.

### Archiver

Variables `pc`, `kind`, `cursor`, `pages`, `page`, `completed` are where each
worker stands and the locals of `_walk`; `shutdown` is the event; `gaveUp`
remembers that a walk ended on `BackendError`; `stored`, `flat`, `rows` are the
files: records present, comments whose depth is null, checkpoint rows. `unread`
has the subreddits whose last depth pass could not read its file, which it may
only for those in the constant `Unreadable`; `Parent` says what each comment
replies to, cycles and comments outside the file included.

| Action | Code |
|---|---|
| `Start` | the semaphore and the beginning of `_process_subreddit` |
| `SkipComplete`, `Resume` | the checkpoint read of `_walk`; a cursor of 0 is falsy |
| `LoopHead` | `while not shutdown`, `cursor >= before` |
| `FetchPage`, `FetchFails` | `_fetch_page` and the page contract, or all backends failing |
| `Persist` | `_persist`: filter, upsert |
| `Checkpoint` | `progress.upsert`, the end of the window, the guard of the cursor, the page cap |
| `Close` | the final status, and what the worker does next |
| `RecomputeDepths` | `recompute_comment_depths`: every comment of the file that a walk down from the roots comes to (`Rooted`) gets its depth |
| `DepthsUnread` | the same over a file that cannot be read: nothing changes |
| `RequestShutdown`, `NextRun` | signals; the next run, after the end or the death of this one |

`NextRun` is enabled in every state, so that the process may die between any
two steps: it keeps the files and forgets the rest. The choice of the answering
backend is open, which includes every order of failures before it; the chain is
the same in all runs. A backend may lack any of the records `Late` when it is
asked and have them in its next answer, which is how a source grows behind the
cursor. `Common` is what the archive is to have: records all backends have, that
are kept and not late, and that do not share their second with more than a page
holds (`FitsPages`). Steps are finer than asyncio's (which only switches at an
`await`), so every schedule of the code is one of the model. Read, merge and
replace of an upsert are one step here because the subreddit's lock covers
them; `Store` splits them for two processes. An upsert reads the file it merges
into here; `Store` has the read that fails. `subreddit.json` and
`items_fetched` are not modelled: nothing reads them to decide.

`Archive` says what the directory promises: records only arrive, and the claim
of a stream is made when it is true and moves forward only. `KeepsPromise`
substitutes the stored records, and for the claim `[start, cursor)` of an
unfinished row and `[start, end)` of a complete one.

### RateLimiter

A caller goes `idle, slot, lock, sleep, sent` and back, or to `backoff` and
again to `slot`. `semQueue` and `lockQueue` are asyncio's first come, first
served waiters. Deadlines are kept as the time left (`nextIn`, `pauseIn`,
`wait`); `Tick` lets all of them run down. `since` and `early` are history.
`Respond` releases the slot before it looks at the headers, and sets the pause
before it looks at the status, as `get_json` does; `NoResponse` does not look
at headers. `Tick` may happen while a sleep is over: a sleep may take longer.

### Store

Each writer is a read of a whole file followed by a replace of it, and either
program may die in between. The two programs interleave freely. `stale` and
`crossed` are history: whose copy is older than the file it was read from, and
which files were replaced by such a copy. What is lost then is lost; everything
is promised of the other files, which are both of them if the programs take
turns, and each one that they do not happen to hold at once. `ReadErrors` names
the programs whose `load_json` may fail. `Plain` are records whose text never
matches the filter's keywords. The clock of `fetched_at` advances once per start
of the archiver. A depth pass is a writer like the others; the depths themselves
are in `Archiver` and `CommentTree`.

### CommentTree

`Visit` is an iteration of the queue in `_assign_depths`; `AssignRoot`,
`AssignChild`, `Return` are the calls of `tree._assign_depth`, with an explicit
stack of at most `RecursionLimit` frames. Dictionary order is left open, so the
queue is a set. Initially any parent function, orphans and cycles included, and
depths of an earlier pass.

### Batch

`at` and `pc` are the loop of `run_manager` and the stages of
`run_scraping_job`; `disk` says of each folder how much of the window it holds,
how much of that `results.json` holds, and whether `gata.txt` is there; `tried`
and `told` are the statuses sent and received. `RunnerReturns` has every reason
for which `Runner.run` returns: the end of the window, a shutdown, a page cap,
a page no backend has. `RunnerRaises` leaves workers behind (`orphans`).
`Relaunch` is the manager starting the container again, after its end or its
death.

### Container

`given` is the command and the environment; `child` says that the program is a
child of the script, which it is only when a merge follows. `Stop` is the
signal, `Kill` the end of the grace period. `MergeFolder` is an iteration of the
loop of `merge_output.main`: a folder that is not `Readable` is a `ValueError`,
which the loop catches. `MergeWriteFails` is the `OSError` of a merged file that
cannot be written, which it does not; `unwritten` remembers it.

### Jobs

Dates, days and settings are integers; blank, unparsable and unmentioned are
values of their own, because the code treats each differently. `setup` is how
the program is set up and does not change; `Run`, `DryRun` and `Manage` are its
launches. `Environ` is `_load_dotenv`, `ConfigRange` what `load_config` makes of
the placeholders, `Targets`, `JobDates` and `Invalid` are `parse_scraping_args`,
`JobRange` is `_date_range`, `Resolved` is `DateRangeConfig.resolve`, `Buckets`
and `Reports` are `build_target_stats`. The manager is external: `Sent` has what
it may put into `start_date` and `end_date`, among them a window that continues
the one of the last cycle, from its end date on or from the next day if the end
date was over when the cycle ran. `collected` is what all cycles' folders hold.

## 3. Runs

Passing runs:

| Run | Instance | Shows |
|---|---|---|
| `ArchiverResume` | one subreddit, five posts and three comments: one filtered out, one late, two missing from the fallback, three of one second where a page may hold two; page sizes 2 and 3, two runs | complete means archived, a run that ends by itself has archived its window, checkpoints only move on, and the promise is kept, with a crash or a stop anywhere |
| `ArchiverShared` | a subreddit listed twice beside another, three workers and two slots, two runs whose window moves on, fair workers | two walks over one checkpoint: it stays truthful, nothing is lost, depths are filled in but for those of two comments in a cycle, or of a file the last pass could not read; every run ends |
| `LimiterPacing` | three callers, two slots, interval 2, two attempts, resets shorter and longer than the interval | concurrency, spacing, pauses; every call ends |
| `StoreShared` | one post and two comments, one of which the filter never flags, so that a page leaves out a stored comment; clock 0..2, both programs at once, the filter may fail to read | records, `fetched_at` and flags survive; the workbook shows what is on disk |
| `TreeDepths` | all parent functions of four comments, three frames | the store pass computes hops, the forest agrees and fails on deep trees only, both end |
| `BatchMixed` | three entries, one good, two refused, one without a numeric id, two launches within three seconds | exit code, flag, verdicts and reports agree; the batch ends |
| `ContainerCommands` | every command and setting, three folders in any state, merged files that may fail to be written | failures stand, a merge is made from what the folders hold; a corrupt folder stops no other, a failed write stops the rest |
| `Jobs` | three days of three seconds, 81 set-ups, all windows a manager may send | a recurrent job misses only the last seconds of end dates, windows are as asked, reports add up |

Runs that find a disagreement between the code and its documentation, each
quoted under `findings`:

| Run | What happens |
|---|---|
| `ArchiverDryRun` | after a dry run over the last days, the full run over the same directory starts at the dry run's checkpoint or skips |
| `BatchIncomplete` | a shutdown during an entry: its folder is exported, flagged and reported as DONE |
| `ContainerStop` | with a merge to follow, SIGTERM ends the script, and the archiver is killed without a last checkpoint |
| `JobsNoConfig` | the image's own config lists no subreddit when `SUBREDDITS` is unset, and ends a manager's launch before any entry |

**Bounds.** They are as small as the cases allow. Four epochs hold a record at
both ends of a window, a burst that fits on a page and one that does not, and a
page that ends in the middle of them. Two runs are enough for a checkpoint to be
read by a run that did not write it, and the claims the invariants make are per
row, so a third run meets nothing new. Three callers with two slots make both
queues non-empty. Four comments make a chain, a fork, an orphan and a cycle
beside a tree; in `Archiver` two comments that reply to each other and an orphan
are enough, since only who is reached counts there. In `Store` the comments are
two, so that a page may hold one while the file holds the other; posts and
comments are merged by the same code. Three folders are one that fails, and one
before and after it. Three days make a window of one
day, of several, and one that continues another before and after its end date is
over; a day of three seconds has a first, a last and another one. Named bounds
are `MaxClock`, `MaxSeconds`, `MaxLaunches`, `PagesCounted`, `Horizon`; none
stops an operation of the code except the number of launches. The proofs below
do without bounds.

**Fairness.** `ArchiverShared`: weak fairness of each worker: the event loop
resumes a task whose await is over, and a request answers or times out. Calls
end by `CallEnds`, which is checked under weak fairness of each caller and of
time. No fairness is assumed of signals, crashes, relaunches or new calls.
`BatchEnds` assumes weak fairness of the batch's own steps; `PassesEnd` of the
only sequential process.

**Deadlock** is checked in every run; a system that may stop does so in an
action that stutters (`Finished`, `Stopped`, `Gone`).

## 4. Proofs

TLAPS checks these for every value of the constants that meets the
assumptions of the modules (`DataAssumption`, `RunsAssumption`,
`LimiterAssumption`, `TreeAssumption`, `StoreAssumption`, `BatchAssumption`,
`ContainerAssumption`, `JobsAssumption`: types, finiteness, non-emptiness, and
values kept apart such as posts and comments). Every invariant and every action
property the passing runs check is the statement of one of the theorems.

* **Coverage** (`ArchiverProofs`). `CheckpointsCover` and `CompleteIsArchived`,
  for any number of workers and runs, also with a subreddit listed several
  times, under one assumption, `ForwardWindows`: no later run asks for an
  earlier start, which is what the dry run breaks.
  A row alone is not inductive. `CoverageInv` adds what each walk that will
  write a row knows: behind its cursor all is archived, a page in hand settles
  the timestamps before its last one, and `completed` is set truthfully.
* **Finished runs** (`FinishedRunsArchived`). A run that ends by itself, with
  no shutdown, failure or page cap, has archived its window, under
  `NarrowingWindows`: a window is never wider than one that was walked before,
  as when the same dates are run again. For a window that moves on this is false
  of the code, which skips a walk whose row is complete although the row ends
  earlier; TLC shows it when the
  invariant is added to `ArchiverShared`. `FinishInv` adds, for each worker,
  that the walks it has behind it archived theirs (a walk it skipped by the
  complete row, which `RowsReachEnd` says goes as far as the window).
* **Nothing is lost** (`RecordsAreKept`) needs no assumption.
* **Depths are filled in** (`DepthsAreMaterialized`) for any parents, pages,
  crashes and runs, but for the comments that are `OutOfReach`: their chain of
  parents runs into a cycle of the file, or the last pass over their subreddit
  could not read its file. By `DepthsInv`: a comment without a depth is one of
  these, or a worker of its subreddit will still pass over it. That a comment
  which is out of reach stays so until the next pass rests on the file only
  growing: a set of comments that has all its parents keeps them.
* **The promise** (`ArchiverPromise`). `CheckpointsMoveOn` and `PromiseKept`
  for lists without duplicates (`SoleWalks`) and windows whose starts and ends do
  not go back (`ForwardWindows`, `ForwardEnds`); `MovesInv` says that a walk works neither on a complete
  row nor behind an unfinished one. The refinement maps `Init` to `Init` and
  every step to `Save`, to `Claim` of one stream, or to a stutter.
  `PromiseIsTruthful`, without assumption: whatever keeps the promise claims
  archived records only, at every moment.
* **Pacing** (`RateLimiterProofs`). `ConcurrencyIsBounded`, `SpacingIsKept`,
  `PausesHold`, `AttemptsAreBounded` for any number of callers and slots.
  The invariant joins `QueuesExact` (a caller waits in one queue, once),
  `SlotsAccounted` (free slots and holders make up `max_workers`), `PacingInv`
  (one sleeper, whose delay covers the rest of the interval; time left and time
  gone make up the interval) and `PauseInv`. A pause is respected but for one
  request: the caller that sleeps with the lock when it is set. With one slot,
  as PullPush has, there is none. `BackoffAssumption` says that a backoff is a
  natural number, since powers are beyond the provers; TLC evaluates it.
* **Depths** (`CommentTreeProofs`). `DepthsCorrect`, the lemma on which those on
  depths and forests rest: after the store pass
  a root has depth 0, every other visited comment one more than its parent, and
  exactly the comments whose parent is visited are visited. It is not inductive,
  since a child gets its depth long after its parent did; `QueueInv` adds what is
  in the queue, and that nothing which is due is missing from it.
  `TreeAssumption` keeps the mark of a missing parent apart from the comments.
  `DepthsAreHops` says the same as a number: the depth is the number of hops to
  the root, and the visited comments are those that have one. It is an induction
  along the tree, done by contradiction: `LeastNatural` gives the first depth at
  which it would fail (from the well-founded order of finite sets, since the
  library's induction theorems take an operator and cannot be used), and the
  recursion `Hops` has a value because the depths solve it.
* **The preview** (`CommentTreeProofs`). `ForestsAgree` (it shows the comments
  the store pass visits, at the same depths) and `FailsOnlyWhenDeep` (it runs out
  of frames on trees with more levels than frames, and on no other). `StackInv`
  is what they rest on: the calls on the stack lie in the order of their depths,
  and a child of a comment in the forest is in it too or still to be called; so
  the first comment missing at the end would have a parent in the forest.
* **Record files** (`StoreProofs`). `TypeCorrect` without assumption;
  `RecordsAreKept`, `ExportsAreOnDisk`, `FetchedAtIsKept`, `FlagsAreKept` for an
  archiver whose own reads do not fail (`ArchiverReads`; section 5 says what a
  failed one does), for any interleaving with the filter, any crash of either
  and any number of records. That a file kept its records says nothing of the
  copies in memory which will replace it: `StoreInv` adds `CopiesCurrent` (a copy
  that is not known to be stale is what the file holds) and `WrittenIsFlagged`
  (what the filter will export is flagged in the files it has written).
* **Batch** (`BatchProofs`). For any list of entries, launches and clock.
  `ReportsBacked` and `EveryEntryIsReported` need no assumption: `StageInv` has
  stages, folders and verdicts in the order of the entries. `FlagsAreLast`,
  `ExitCodesAreTrue`, `VerdictsAreTrue` and `FoldersAreNew` assume `DistinctIds`,
  ids of their own for the entries; two entries of one id may share a folder
  (section 5). That exit code and flags agree at the end is not inductive:
  `BatchInv` adds that the batch has failed or flagged all it is past, that a
  worker left behind belongs to a failed entry, and that no folder is written to
  before it is open, or in a second to come.

* **Container** (`ContainerProofs`). `FailuresStand` and `MergesAreCurrent`, for
  any finite set of folders. `ContainerInv` adds that there is an exit code
  only when the container is gone, and that it is gone once the program failed
  (`EndsOnce`), and of a merge under way that what it has behind it is current, or
  corrupt and remembered as a failure (`MergeSoFar`). `MergedIsCurrent` says which
  folders an exit code speaks for: all of them with 0, and with 1 those that are
  not corrupt, unless a merged file could not be written; then those left to do
  are as they were.
* **Launches** (`JobsProofs`). For any set-ups, spellings, days and time.
  `WindowsAreAsAsked` goes through the sources of a window, in the order in which
  the code looks at them. `CyclesJoinUp` needs `CyclesInv`: the end date of the
  last cycle had begun when it ran, so that the next window meets it.
  `ReportsAreComplete` proves the folds: the names `_parse_targets` keeps are the
  names asked for, and the buckets' numbers add up to the records.
  `RunsOfASetupMoveOn` discharges, for the full runs of an unchanged set-up, the
  assumptions `ForwardWindows` and `ForwardEnds` of the theorems on `Archiver`:
  dates stay as they are, and days are counted back from a clock that goes on.
* **Bounded work.** Liveness is out of the prover's reach; what is proved is its
  safety half, a natural number of steps left that each step of the program
  lowers and no other step raises. `StepsAreBounded` (`StepsLeft` of `Archiver`):
  a run of n workers takes at most n (8 `before` + 16) steps, whatever pages come,
  because the guard of the cursor makes it grow in each iteration (`AheadInv`: a
  page's next cursor is not behind the walk's). `BatchIsBounded`: nine steps for
  each entry and two besides. `PassesAreBounded`: three steps for each comment and
  two besides, on cycles too, because neither pass looks at a comment twice
  (`EachCommentOnce`). `AttemptsAreBounded` bounds the requests of a call. That
  the steps are in fact taken is fairness, and stays with TLC.

Only model-checked, because they need fairness and ENABLED: `RunEnds`,
`CallEnds`, `BatchEnds`, `PassesEnd`, and the absence of deadlock.

## 5. Behaviour worth knowing

Met while modelling, and not among the runs:

* A full page of one second steps over the rest of that second
  (`runner.py:153`), and a record that arrives behind the cursor is never asked
  for again. `Common` leaves both out, and nothing else but what a backend lacks.
* The filter beside the archiver writes back what it has read: a page stored in
  between is lost although its checkpoint says it is archived
  (`phase2/keyword_filter.py:69`; README.md:46 says that containers writing to
  one tree never collide, and `docker-compose.yml` ships the filter as one).
  Without `Uncrossed` in it, `RecordsKept` does not hold.
* Two entries of a batch with one id that start in the same second share a
  folder, and the second finds the first one's checkpoints complete
  (`manager/paths.py:36`; the module's comment says folders are never shared).
* `load_json` answers a read error with an empty store; the next upsert then
  replaces the file with one page (`store/_io.py:36`).
* A refreshed comment's depth becomes null until the next depth pass, though
  `store/storage.py:120` says it is kept.
* Comments whose chain of parents runs into a cycle keep a null depth, and a depth
  pass that cannot read `comments.json` sets none and says nothing
  (`store/storage.py:103`, `:178`).
* A merged file that cannot be written ends the merge with exit code 1 and a
  traceback; the folders after it are not merged
  (`src/merge_output.py:81` catches `ValueError`, and `:157` raises `OSError`;
  `src/docs/merge_scraper_outputs.md:169` says of that exit code that the other
  folders are still merged).
* A run that no backend answered returns 0 and is merged (`cli.py:96`).
* The last second of an inclusive end date is not archived: the window ends at
  23:59:59 and the walk before it (`manager/args.py:89`).
* `LAST_DAYS` of the environment does not win over dates in a `.env` file: each
  variable is looked up by itself, and two dates win over days (`config.py:120`).
  One date without the other is ignored there, and refused in a payload.

## 6. Not modelled

Normalization and keyword matching (pure functions of a record's text, with unit
tests), settings that decide nothing here (pacing values, credentials, log
level, words and backends of a payload), argparse, the wording of logs, workbook
and merged files, the stub backends, the unused `db/` package, two archivers
over one subreddit, equal names of temporary files in two containers, and
answers that break the page contract. Of a batch: a blank `DONE_FILE_NAME_FLAG`,
with which no flag is written (`manager/paths.py:47`), and a manager of which only
the stats URL is set (`manager/client.py:57`).

## 7. Plan

1. `Store` with two archivers over a shared tree, and temporary files.
2. A composition of `Archiver` with `Store`, so that a checkpoint's claim is
   stated of the files themselves while the filter runs.
3. Proofs: of that composition; and of how long a call may wait in
   `RateLimiter`, in requests of the callers before it.
