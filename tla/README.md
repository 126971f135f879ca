# A verification project for ICESEE and the Spack it ships

ICESEE couples ice-sheet models (ISSM, Icepack, a flowline model, Lorenz-96) to
ensemble Kalman filters. A run advances `Nens` model states ("members") through
`nt` steps; after some of the steps observations correct the ensemble. Members
are distributed over MPI ranks and live in one HDF5 file per time step; jobs are
killed and launched again; ISSM runs in a MATLAB process of its own, driven
through files. The repository ships a copy of Spack, which installs all of
this: many `spack` processes share a store of packages, a database of what is in
it, environments, views and caches, through file locks.

The numerics are tested by looking at them. What is hard to test is everything
around them: who writes which rows of which file when, what a relaunch believes
about files on disk, what two processes do with one file, one lock, one prefix.
That is what these modules are about.

Paths are relative to `src/ICESEE/src/` for ICESEE and to
`src/spack/lib/spack/spack/` for Spack, unless they say otherwise; `docs/` is
`src/spack/lib/spack/docs/`.

## 1. Inventory

### ICESEE

| Component | State | Operations | Talks to | Hard behaviour |
|---|---|---|---|---|
| **Full-parallel driver** `run_model_da/icesee_da_full_parallel.py`, `parallelization/_mpi_forecast_functions.py`, `_mpi_ensemble_intialization.py` | per rank: step `k`, cursor `km`, round of members, phase | start, initialization, time loop (skip, forecast, mean, analysis, checkpoint), stacking, exception handler | I/O handler; other ranks through world collectives only | ranks drift apart between collectives; `Nens` a multiple of the ranks or not; a rank that raises |
| **Ensemble I/O handler** `parallelization/EnKF_parallel_io.py` | step files `icesee_enkf_ens_{t}.h5`, mean file, each rank's current batch | delete, create a batch, switch batch, read/write a member, read/write a slab of rows, mean, gather, update | all ranks share the files | switching is a collective and truncates files; reads of rows others are writing |
| **Restart, checkpoint, finalization** driver, `utils/tools.py` | checkpoint JSON, step files, stacked result | choose `k_start`, contiguity check, skip computed steps, save, handle exceptions, stack | earlier and later launches, through the disk | a kill between any two writes; a checkpoint that disagrees with the files |
| **Observation schedule and cursor** `tools.py:886`, `EnKF_parallel_io.py:505`, `utils/utils.py:181` | `obs_index`, `m_obs`, `km` | generate, recompute the cursor, test a step | driver | off-by-one conventions (`k`, `k+1`) in several places |
| **Distribution and row arithmetic** `parallel_mpi/icesee_mpi_parallel_manager.py`, `EnKF_parallel_io.py:103-113, 543-1253`, `tools.py:332-460` | rounds, members and rows of a rank; measured rows, H, ensemble-space sums | distribute members, rows; measure, select, sum, correct, inflate, clamp | driver, I/O handler | remainders, fewer rows or members than ranks, rows against variables |
| **MATLAB/ISSM server** `applications/issm_model/issm_utils/matlab2python/`, `examples/ISMIP_Choi/_issm_model.py` | per rank: command file, status file, MATLAB process, `ensemble_output_{id}.h5` | launch, send_command, run_model, shutdown; MATLAB: announce, poll, run, report, delete | rank and MATLAB, through files; ranks of one machine, through `kill_matlab_processes` | files seen between creation and content; errors; processes killed by another rank |
| Partial-parallel and serial drivers; EnKF algorithms, localization, noise; generation of the true and nurged states; configuration; wrappers of Icepack, flowline, Lorenz; installer, Slurm and plotting scripts | arrays, parameters | - | - | section 6 |

### Spack

| Component | State | Operations | Talks to | Hard behaviour |
|---|---|---|---|---|
| **File locks** `llnl/util/lock.py` | nested counts of read and write locks, open files and their users; the kernel's byte-range locks | acquire (with and without timeout), upgrade, downgrade, release, transactions | every other part | closing *any* descriptor of a file drops all of the process's locks in it; waiting by polling |
| **Database transactions** `database.py:985-1140`, `lock.py:700-790` | index file, verifier, each process's copy | nested read and write transactions, read, write | locks | stale copies; failures at commit; kills between two files |
| **Install records** `database.py:1142-1480`, `package_base.py:2120-2230`, `installer.py:2780` | records with reference counts, prefixes, links of deprecated ones | add, remove, deprecate, mark, reindex | transactions | counts and dependents that disagree |
| **Installer** `installer.py`, `database.py:430-570` | build queue, kept prefix locks, failure marks and locks | install, build, requeue, fail, uninstall | locks, database; other installers | who may build, wait for, fail or remove what another one needs |
| **Overwriting and stopped installs** `installer.py:1130-1420, 2240-2420` | prefix, backup, record | install, overwrite, stop after a phase, restore | locks, database | failures and kills while the old prefix is away |
| **Environments** `environment/environment.py`, `concretize.py` | manifest, lockfile, concretized roots, an included environment | add, remove, concretize, deconcretize, write | environment lock; solver | memory, manifest and lockfile that disagree |
| **Views** `environment/environment.py:560-900` | directories, the link at the view's root, a temporary link | regenerate, disable | environment lock, sometimes | a swap by rename between many steps, any of which may fail |
| **Cached indexes** `repo.py:560-680`, `util/file_cache.py` | index, its temporary and lock file, mtimes | read, update, clean | lock files; editors of packages | what is younger than what |
| **Version lists** `version/version_types.py` | sorted lists of versions and ranges | add, update, intersect, compare | specs | boundaries of ranges |
| Concretizer; specs and their parser; binary caches, fetching, mirrors; file system helpers; configuration; packages; commands, modules, CI | - | - | - | section 6 |

What makes each of the modelled components correct:

* **driver and I/O handler** - every member is advanced exactly once per step,
  every slab corrected exactly once per observed step, from a complete and
  unmixed ensemble; completed step files are never damaged, also when a rank
  fails; collectives match; the run ends.
* **restart** - a job that ends without an error has the complete result,
  whatever failed before; a checkpoint claims no more than the files hold; a
  resumed or skipped step really was computed.
* **schedule** - the cursor counts exactly the observation instants already
  passed, on every path that sets or moves it.
* **distribution** - every member and every row belongs to exactly one rank;
  sums over the ranks count each observed row once; an observation that H selects
  was made; inflation and clamp reach the rows of their variables.
* **MATLAB server** - a command is executed at most once and only if it was
  sent; a launch returns with a server that is up; an answer belongs to the
  command; no process is left behind; nobody waits for ever.
* **locks and transactions** - what a process believes to hold the kernel has
  granted it; writers are alone; a transaction works on current records; what it
  changed is written once and overwrites nobody's changes; waits end.
* **records, installer, overwrites** - counts agree with dependents; nothing
  needed is removed; one process builds a package, with its dependencies
  staying; success means installed; the old or the new prefix survives.
* **environments, views, indexes, versions** - what one command writes the next
  can read; it is what was asked for; a view is there complete or not at all; an
  index never goes back; version lists are sets.

The hazards, each at its line, are the `hazards` of `PROJECT.json`.

## 2. Modules

| Module | What it is | Corresponds to |
|---|---|---|
| `ObservationSchedule` | schedule, cursor, `Target` (the file a step writes) | `tools.py:886-906`, `icesee_da_full_parallel.py:566-573`, `_mpi_forecast_functions.py:537` |
| `FullParallelRun` | one run, rank by rank, file access by file access | the driver from the I/O handler (147) to the end of the run (806) |
| `EnsembleCycle` | abstract specification of a run: advance each member once, correct each slab once, next step | the time loop as its comments describe it |
| `FailingRanks` | `FullParallelRun` where single ranks raise and stand in the exception handler | `icesee_da_full_parallel.py:806-851` on one rank, `EnKF_parallel_io.py:37-60` |
| `RestartableRun` | launches, checkpoints, kills, exceptions; ranks in lockstep | 53-120, 293-346, 388-430, 505-615, 806-851; `tools.py:98-183, 840-912` |
| `Distribution` | the split of rows and members over ranks, as the code writes it three times | `EnKF_parallel_io.py:103-113`, `tools.py:379-392`, `icesee_mpi_parallel_manager.py:317-345` |
| `AnalysisRows` | the observations, H and the analyses of a run, row by row | `EnKF_parallel_io.py:543-1033, 1128-1212`, `tools.py:415-460` |
| `MatlabServer` | rank and MATLAB around command and status files | `mat2py_utils.py` launch, send_command, shutdown; `matlab_server.m`; `_issm_model.py` run_model |
| `ReadersWriterLock` | abstract specification of a lock: many readers or one writer | the docstrings of `Lock` |
| `FileLock` | the `Lock` objects, open files and kernel locks of several processes; implements `ReadersWriterLock` | `llnl/util/lock.py` |
| `DatabaseTransactions` | the index, its verifier and the processes' copies, on top of `FileLock` | `database.py`, `lock.py` transactions |
| `LockUsers` | processes that use `FileLock` as they like, or through the transactions | both |
| `InstallRecords` | records, counts, prefixes, deprecations, one command at a time | `database.py`, `package_base.py`, `installer.py` |
| `PackageInstaller` | several installers and uninstallers over `ReadersWriterLock`s | `installer.py`, `package_base.py`, failure tracker of `database.py` |
| `OverwriteInstall` | one task of install, `--overwrite`, `--until`, in several processes, prefix and backup step by step | `installer.py` |
| `Environment` | manifest, lockfile and roots under several commands | `environment/environment.py`, `concretize.py`, `cmd/` |
| `EnvironmentView` | a view's directories and links, one system call after the other | `environment/environment.py` |
| `RepoIndexCache` | index, temporary and lock file as inodes, several processes | `repo.py`, `util/file_cache.py` |
| `VersionLists` | versions, git versions, ranges and their lists as operators, against sets of places | `version/version_types.py` |
| `ObservationScheduleProofs`, `FullParallelRunProofs`, `RestartableRunProofs`, `AnalysisRowsProofs`, `MatlabServerProofs`, `FileLockProofs`, `StoreProofs`, `PackageInstallerProofs` | theorems | section 5 |

They compose as follows. `FullParallelRun` and `RestartableRun` extend
`ObservationSchedule`, `AnalysisRows` extends `Distribution`, and
`FullParallelRun` implements `EnsembleCycle`. `FailingRanks` extends
`FullParallelRun`. `DatabaseTransactions` extends `FileLock`, which
implements `ReadersWriterLock`, and `PackageInstaller` uses
`ReadersWriterLock`'s locks and takes a database operation for one step.
`InstallRecords` says what such a step does to the records.

The MC modules give TLC its constants. Several of them hold more than one
instance of a component, or of several components of one subject, behind a
frozen variable (`setting`, `subject`): a behaviour begins in one of the settings and stays
in it, and a property says for each setting what it demands there. The settings
of one module are independent; they share a run because their question is one.

### State and actions of the ICESEE modules

*Data.* A cell of an ensemble file is not a vector of numbers but the history
that computed it: `steps` model steps and `obs` analyses. `Junk` is anything
this run did not compute (fill value, leftover, torn write). This is exactly
what the properties tell apart; model and filter are external functions that
add one to the one or the other. In `FullParallelRun` a file has a cell for
every member and every rank's slab of rows: forecasts read and write all slabs
of a member, the analysis and the mean read and write one slab of all members,
as the HDF5 selections of `read_forecast`/`write_forecast`
(`EnKF_parallel_io.py:301-334`) and `read_analysis`/`write_analysis` do when
every rank is alone in its sub-communicator.

*Rows.* A cell of `FullParallelRun` stands for a slab of rows; `AnalysisRows`
opens it. There the state is one row per element: blocks of `hdim` rows, one per
variable, against slabs of rows, one per rank. A row remembers how often it was
corrected, inflated and clamped, and how often H's image of it was added up; an
observation is the set of rows measured at an instant. Instants here are those
that fall on a step of the run. Each phase ends in a collective, so a step is
one rank arriving at it; `FullParallelRun` shows that the ranks do meet there.

*Control.* `pc[r]` names the place in the driver. A rank that calls a world
collective is `blocked`; `Collective` releases all of them when they are blocked
in the same *operation*, wherever each called it. MPI does not check more than
that either, so mismatched calls are possible in the model and
`CollectivesAligned` says they do not happen. `_ensure_batch` is part of every
access: when another batch is current the access is preceded by
`SwitchBatch`, with its truncation and barrier, and resumes after it.

*Failures.* In `FailingRanks` a rank raises where a model step or a retried
access can (a retry is the access again; the last failure is `Raise`; the other
methods of the I/O handler end the whole job). Its barriers in the exception
handler are met by whatever barriers the others are in, which is what MPI does.
In `RestartableRun` a `Kill` may strike anywhere and an `Exception`
anywhere inside the `try` (line 161); both may leave the step's target torn,
newly created batch files, and a half-written result. `save_checkpoint` writes
atomically (`os.replace`) or fails, which the driver only reports.
The handler (806-851) saves what `model_kwargs` says of the running step and,
because it stacks the *default* data directory, may replace a finished result by
a virtual stack without the dataset `ensemble`: `result' \in {result, << >>}`.

*MATLAB.* `cmdfile` and `statusfile` are the two files; opening for writing and
closing are separate steps because the other side can look in between.
A `Write` after MATLAB deleted the file goes to the deleted inode. `Kill` acts
on every live MATLAB of the same `Node`. SIGTERM acts at once; the command
timeout never elapses because no caller passes one and the default is
12960000*1000 seconds.

### State and actions of the Spack modules

*Locks.* `posix` is the kernel's table, `reads` and `writes` the counts of the
`Lock` objects, `refs` and `open` the tracker of open files. A call that must
wait is in `call`; each `Poll` tries once, and one with a timeout may be the last
at any time. A process may end at any point; the kernel then drops its locks.

*Transactions.* Records are a set of keys. `stack` holds the transactions a
process has open, `stage` what it is doing (entering, reading, in the body,
raising, writing). The index and its verifier are two files, written in two
steps. `faults` is what may go wrong in the behaviour; `Mended` says which of
these combinations the code recovers from.

*Records.* `data` is the index, `links` says for each spec whether it is in its
prefix, linked to another one's or absent, `meta` which spec files were copied to
which deprecators. One command is one step, and each has alternatives for a kill
after each of its changes on disk. `Reindex` makes the records from the prefixes, the
copies and the old records, or without these.

*Installers.* The build queue, `self.locks` and the flags of each task are the
installer's own memory; the prefix locks, the database and the failure marks are
shared. The loop of `install()` is split where another process can act: taking a
task, locking it, starting a child, polling, completing, requeueing. The reported
places in the code where a lock is lost, kept or waited for are all steps. So are
the looks of an uninstaller, which has no lock for them: is there a prefix, is there
a record, is it needed; and then the removals, of a record that has no prefix without
a lock (`RemoveStale`), of prefix and record under the prefix lock. Without any record
the lock is taken too, and the first call under it fails (`Deprecator`).

*Prefixes, views, caches.* What matters of a directory is whether it is absent,
partial or whole, and for which contents; of a file, its inode, its time, and
whether it is being written. Renames, links and removals are single steps,
everything that walks over files is a partial state followed by a whole one. A
call on a view's files may fail at every step where the code makes one: on the way to
the swap that leads to the handler, whose own errors are ignored; an old directory
that cannot be removed is left, whole or in part, with a warning, and the command
succeeds (`environment/environment.py:899`); an error in disabling ends the command.

*Environments.* A command reads, changes memory, asks the solver (external: any
hash that satisfies the user spec, or a failure) and writes manifest and lockfile
in steps of their own, so a kill falls between them. How an environment is set up
and used (`concretizer:unify`, an include and the roots it has over time, forced
removals, the user specs commands name) is the variable `use`, chosen once.

*Mutants.* Next to some definitions stands an operator marked `Mutant:`, the
same with one plausible error. They are part of no specification: substituting
one for its original must make TLC violate the property that `PROJECT.json` pairs
it with. They document what each property is sensitive to.

## 3. What TLC checks

| Run | Instance | Properties |
|---|---|---|
| `batches` | 3 ranks, 3 members, 4 steps in batches of 2, observations at steps 1 and 2 | `ForecastsFromCompleteState`, `HistoryIntact`, `CheckpointedStepComplete`, `ResultComplete`, `CollectivesAligned`, `MeanInCurrentBatch`, `Finishes`, `ImplementsCycle` |
| `ranks` | *failing*: 3 ranks of which any may raise, one batch; *rounds*: 2 ranks, 5 members (uneven) | `FailuresContained` (in *failing*, once a rank has raised: `AnalysisOfOneEnsemble`, `EarlierStepsIntact`), `RoundsAreCycles` (in *rounds*: each step is one of `EnsembleCycle`, the result is complete) |
| `fresh` | `force_fresh_start`, 3 launches, 2 failures | `ResultComplete`, `CheckpointTruthful`, `CursorNeverBehind`, `LaunchEnds` |
| `restart` | restart allowed, history not enforced, 6 steps, 3 observations with a gap, 2 failures | `CursorNeverAhead` |
| `rows` | 1 to 4 ranks, 3 variables of 1 to 3 rows, 2 instants, every bed mask and set of snapshots | `SumsCountEachRowOnce`, `EveryRowCorrectedOnce`, `OneRankTouchesTheRightRows` |
| `node` | 2 ranks on one machine, 2 commands, leftover files and servers, 1 slow start | `RunsAtMostOnce`, `RunsOnlySentCommands`, `LaunchedServerIsUp`, `ForecastOfThisStep`, `NoServerLeft`, `EndsUnlessKilled` |
| `locks` | 2 processes; *locks*: 2 ranges of one file, nesting 2, used at will; *transactions*: the database over one of them, without faults, with exceptions and kills, with kills in a new store, with failing writes | `LockedAsCounted`, `ReadersWriter` (refinement), `CopiesCurrent`, `NoLostUpdate`, `WaitsEnd` |
| `installs` | an installer of an application over two libraries, one of a tool over the first of them, in the store at first, and two uninstallers of it, each in up to five steps; one package at a time or two; failing builds, `--fail-fast`, kills | `BuildsUndisturbed`, `SuccessIsTrue`, `EveryCommandEnds` |
| `store` | *records*: an application over two levels of libraries, without deprecations, with those of two libraries for each other, with those of one for two specs in turn; *commands*: 3 of them on one prefix, undisturbed, with faults, with stops | `RecordsSound`, `OverwritesSafely`, `RemovesOnlyItsOwn` |
| `environments` | 2 processes, 3 user specs of 2 packages, a behaviour for one use of the files: unify `true`, unify `false`, `when_possible` with an include and forced removals; or *views*: 2 users of 2 views with 2 contents each: under the lock with kills, with failing calls of the file system, or with disabling; one command at a time without the lock, also with disabling that fails | `LockfilesSound`, `ConcretizesAsAsked`, `ViewsSound` |
| `repository` | *versions*: 3 places, 1 git reference, 2 lists; *index*: 2 processes, 2 packages, edits, removals, cleaning between commands | `ListsAreSets`, `IndexesSound` |
| `restart_history` | as small as shows it | the disagreement of section 4 |

The properties of the Spack runs are conjunctions of statements of the component
modules, each of which has its own comment there; the definition in the MC
module says which statement is asked of which setting.

**Bounds.** Three ranks are the least at which one can be ahead, one behind and
one in between; two suffice once ranks own several members. Four steps in
batches of two give a step inside a batch, one across the boundary, two
observed steps in a row, an unobserved one, and the last step, which overwrites
its own input. Leftover files include one beyond the run. `MaxFailures` bounds
kills, exceptions and failed saves together, and `MaxFailures + 1` launches
leave one that nothing disturbs. Three variables of one to three
rows on one to four ranks give slabs with and without a remainder, slabs that
cut a variable, and more ranks than rows; two instants give a second analysis
on what the first left. `Commands = 2` gives a command an earlier one
can be confused with. `MaxTimeouts` bounds only starts of a live MATLAB slower
than 10000 s; a start whose MATLAB was killed times out freely.

Two processes suffice for what locks promise between two, and the theorems of
section 5 hold for any number; two ranges of one file are needed because a
closed descriptor of one drops the other's lock, and nesting of two because the
first and the last release differ from those in between. `MaxNested = 2` gives
transactions inside transactions of either kind. In `installs` the shared
library gives an installer something to wait for, the other one something to
build meanwhile; the second uninstaller finds what the first has removed, or
has looked before it and acts after it, when an installer has built it again. In `store` two
levels below the application let an uninstall free records transitively; a spec is
deprecated a second time only where there are two to deprecate it for; a spec with
three references (`MaxRefs`) is deprecated for no further one. The
three user specs of a use have two that one hash can satisfy, or that answer one
query, and one whose package needs the others'; four or five commands (`commands`
of a use) let one process change what another has read. Three places of versions with all ranges
over them have before, touching, overlapping, inside and after; all lists that
sequences of operations reach are visited. `MaxClock = 4` bounds edits and index
writes together: an edit before an index, after it, and while one is made. Two
contents give a view one that is wanted while the other is built or in place;
three or four commands (`commands` of a usage) let one find what two others left,
and two suffice where disabling may fail, of which little is promised.
`RepoIndexCache` has as many inodes as can be in use at once, so none is ever
missing (`Spare` of `StoreProofs`).
`store`, `environments` and `repository`, where all processes are alike and only
safety is asked, use symmetry.

**Fairness.** Every rank is an operating-system process, so each has weak
fairness; so has MPI's completion of a collective everyone entered. A launched
job keeps running, but nobody is obliged to launch it again (`WF(Step)` only,
not `Launch`). MATLAB processes are scheduled like ranks and ISSM is assumed to
end, with or without an error. A process that polls a lock goes on polling
(`WF(Poll)`), one in a transaction goes on with it (`WF(Step)`: a body is
assumed to end). Commands that have been started run, and builds end. Nothing
is assumed of kills, exceptions, failed saves, or of anybody starting anything.

**Deadlock** is checked except where the system may stop: in `node` (a rank
whose server was killed by a sibling waits for ever; `EndsUnlessKilled` says
nobody else does), in `ranks` (the others wait for ever for a rank that failed) and
in `environments` (the commands are used up). In `installs` it is checked: that
installers wait for each other for ever takes two libraries that are queued in
opposite order (17 in section 4).

**Refinement.** `ImplementsCycle` is `EnsembleCycle`'s `Spec`, liveness included,
under a mapping that takes the step of the rank furthest ahead, counts a member
as advanced when its rank has written it and a slab as corrected when its rank
has left the analysis, and reads the ensemble from the file that holds it. It
holds for whole batches (`batches`); for uneven rounds its safety part does
(`ranks`). It cannot hold for several members per rank *and* several batches:
see `CheckpointedStepComplete` below. `ReadersWriter` is `ReadersWriterLock`'s
`Spec` with a process's `mode` read off its counts, and that no release gives up
more than its own lock; both are also proved.

## 4. Disagreements

Where code and documentation disagree. For each a module has a statement of what
the quoted text says, many of them in a last section of their own, and TLC
refutes the statement under the parameters given (the rest much as in section
3). The first is kept as a run, `restart_history`.

ICESEE:

1. The I/O handler deletes the ensemble files before the restart logic looks at
   its checkpoint (`EnKF_parallel_io.py:122`), so the resumed run starts on fill
   values; line 830 of the driver says "Checkpoint saved after error; you can
   restart safely." `RestartableRun!RestartsOnCheckpointedHistory`.
2. The idempotency guard takes preallocated files for computed ones
   (`icesee_da_full_parallel.py:509`); line 508 says "Idempotency guard: if
   output for this k exists, skip safely". `RestartableRun!SkipsOnlyComputedSteps`
   without `force_fresh_start`.
3. The forecast mean is summed before any collective orders it after the other
   ranks' `write_forecast` (`EnKF_parallel_io.py:398`); line 1036 takes Hmean for
   H*mean(state). `FullParallelRun!MeanOfForecast`, 2 ranks.
4. With several members per rank and `batch_size < nt`, the second round's
   `read_forecast(k)` at a batch boundary recreates, and so truncates, both the
   batch it goes back to and the one it returns to (`EnKF_parallel_io.py:175`);
   the driver's line 594 says "Step k fully completer; checkpoint if needed".
   `FullParallelRun!CheckpointedStepComplete`, 2 ranks, 4 members, batches of 1.
   It becomes a hang when `Nens` is no multiple of the number of ranks: the
   rank with an extra member goes back a batch in a barrier the others take for
   the next one (line 291). The default `batch_size` gives several batches as
   soon as `nt > 100`.
5. An exception of one rank sends it to the handler's barrier, which MPI matches
   with the barrier after the others' forecasts: rank 0 checkpoints a step that
   lacks members (`icesee_da_full_parallel.py:808`, against line 594).
   `CheckpointedStepComplete` under `FailingRanks!FailSpec`.
6. In one of the last, unobserved steps rank 0 even stacks such files before it
   hangs; line 646 says "Collective finalize (safe across ranks)".
   `FailingRanks!StackedComplete`, one observation.
7. H selects every row of the bed at every instant, because the masks that say
   which were measured stay in the function that made them (line 724); the zeros
   in their place are assimilated (`EnKF_parallel_io.py:821`); line 807 says "H
   contains ONLY real observation points". `AnalysisRows!OnlyRealObservations`.
8. `send_command` returns True for a command that raised an error in MATLAB or
   was deleted while still empty (`matlab_server.m:59`); `mat2py_utils.py:362`
   says "True if the command was processed successfully".
   `MatlabServer!ReturnsTrueWhenProcessed`, one rank.
9. The skip path moves the cursor by `k+1`, the loop by `k`, and the restart
   counts instants up to `k_start`: `CursorNeverBehind` fails without
   `force_fresh_start` (line 510), and an observation that passes uncounted stops
   all later ones. No text says otherwise.

All example configurations set `force_fresh_start: 1`, which keeps 1, 2 and 9
out of play; that is why the strong guarantees of section 5 are about fresh runs.

Spack, locks and database:

10. The index is renamed into place before the verifier changes
    (`database.py:1113`): a process killed in between leaves others with a stale
    copy, whose next write drops records; line 1257: "`add()` will lock and read
    from the DB on disk." `DatabaseTransactions!ReadsCurrent` with the fault
    "kill after rename".
11. `release_write` writes before it unlocks (`llnl/util/lock.py:634`): when the
    write fails the process keeps the lock, its later transactions are nested in
    one that never ends; line 712 promises the lock "released on exit".
    `ReleasedOutside`, fault "write".
12. `_read` does nothing while there is no index, also after a failed
    transaction (`database.py:1129`), so the next one commits the failed one's
    changes; line 1092: "It will be consistent after the start of the next
    transaction". `ReadsCurrent`, faults "raise", "no index".
13. `_decrement_ref_count` drops a record without decrementing its
    `deprecated_for` (`database.py:1293`, unlike line 1328): a count stays too high
    for ever; line 1058: "Ensure consistency of reference counts in the DB."
    `InstallRecords!RefCountsConsistent` with deprecations.
14. The dependents of a deprecated spec are not asked for when its deprecator is
    uninstalled, though their prefix is now a link into the deprecator's
    (`package_base.py:2149`); `docs/package_fundamentals.rst:241`: "Spack will
    refuse to uninstall it." `InstallRecords!LeavesTheNeeded`, same.

Spack, installer:

15. A task requeued because a lock was taken is completed as a no-op later; if the
    other process has recorded the package by then, the task is dropped without
    its flag, and the run ends with 'Cannot proceed' (`installer.py:2414`; line
    2268 promises "on the next pass"). `PackageInstaller!NoSpuriousFailure`, two
    libraries.
16. `start_task` flags a package that has failed and builds it all the same
    unless `--fail-fast` is given (line 2246); line 17: "no two processes attempt
    to build the same or a failed dependency package." `FailedNotBuilt`, one library, fallible.
17. With two packages at a time two installers hold what the other waits for,
    without a timeout (line 1832); `docs/environments.rst:406`: "packages can be
    installed in parallel by launching more Spack instances." A deadlock,
    two libraries queued in opposite order.
18. Asking whether a failure lock is taken waits for it, for ever when the other
    process asks as well (`database.py:541`; line 540: "Return True if another
    process has a failure lock on the spec."). `ChecksEnd`, two
    fallible libraries queued in opposite order.
19. The dependents are looked for before the prefix lock is taken and not again
    (`package_base.py:2162`): an installer records one meanwhile; the docs as
    in 14. `DependenciesInstalled`, one library, in the store at first.
20. An uninstaller that finds no prefix removes the record without the prefix
    lock (`package_base.py:2142`; line 2134: "prefix may not exist, but DB may be
    inconsistent. Try to fix by removing"), though an earlier uninstall may have
    ended and the package be built and recorded again by then, and needed by what
    is being built. `DependenciesStay` and `SucceedsTruly` without `RecordsKept`,
    two uninstallers of one library.
21. A released read lock stays in `self.locks` (`installer.py:2319`); the upgrade
    that fails on it releases every prefix lock, and an assertion ends the process
    outside the handler that terminates its children. `BuildsAlone` (line 17
    again), two libraries, three installers, one killed, two builds at a time.
22. `complete_task` removes the prefix of a stopped command also for tasks that
    did nothing (line 2346): `install --until build` of an installed package
    removes it; line 2407: "Remove the install prefix if anything went wrong
    during install." `OverwriteInstall!RecordedIsWhole` with stop phases.
23. The same for a task requeued because another process builds there (line 2409,
    against line 17). `BuilderOwnsPrefix` with stop phases.
24. After a StopPhase the backup of an overwrite is deleted and half a prefix
    stays under a record that says installed (line 1379; line 1153: "put the old
    prefix back on failure"). `RecordedIsWhole`, stopped overwrites, one command.
25. `overwrite_time` is set after the lock was obtained, so an installation that
    another process finished meanwhile is always older (line 2281); line 2278:
    "to allow checking whether another process has already overridden the
    package." `NotOverwrittenAgain`, two commands.

Spack, environments, views, caches, versions:

26. A forced removal deletes the concrete spec of a root although another root
    has it (`environment/environment.py:1425`): every later command ends with a
    KeyError; line 1794: "all internal data structures are kept in sync."
    `Environment!LockReadable`, a `forced` use with user specs that are not
    `Distinct`, unify `false`.
27. `old_concrete_to_abstract` maps a concrete spec to one of its user specs
    (`concretize.py:74`): the others lose their root; `docs/environments.rst:340`:
    "will ensure all of the root specs are concretized". `AllConcretized`, a use
    `when_possible` that is not `Distinct`.
28. User specs and hashes of an environment and its include are made unique apart
    and then zipped (line 1955; line 1954: "Tuples of (user spec, concrete spec)
    for all concrete specs."). A use `when_possible` that is not `Foreign`: a user
    spec gets the hash of another (`RootsMatchTheirSpecs`) or two roots
    (`OneRootPerSpec`, also with unify `true`).
29. With an include, `concretize()` writes manifest and lockfile before the solver
    runs (line 1467); line 1439: "This only modifies the environment in memory."
    `SolvesInMemory`, any use with `included`.
30. Commands that regenerate views outside of the environment's transaction
    (`cmd/uninstall.py:297`, `spack env view`, `spack env create`) share one
    temporary link, and the loser removes what the winner put in place; line 815:
    "This allows for atomic swaps". `EnvironmentView!ViewComplete`, one user
    not `transacted`.
31. The temporary link has one name whatever the view's (line 835), so views in
    one directory swap each other's links. `ViewComplete`, `ParentOf` constant.
32. A link whose target was removed does not exist for `os.path.exists` (line
    860): after a kill and the removal that line 632 advises, regeneration ends
    with an error. `SymlinkFree`, `kills`.
33. A link that names the wanted directory counts as up to date though the
    directory was removed (line 822); `docs/environments.rst:1169`: "will
    regenerate the views". `Regenerated`, `deleters` and `kills`.
34. `destroy` removes lock files that processes wait for (`util/file_cache.py:93`):
    two of them write one temporary file; line 166: "moves the file into place on
    top of the old file atomically." `RepoIndexCache!NeverTorn` with `CleansInUse`;
    with a fifth tick of the clock an index that lacks an edit and looks current
    stays, `IndexCurrent`.
35. The second comparison uses the times the checker took when the process began
    (`repo.py:641`; line 637: "in case someone updated them while we waited for
    the lock"), and the index written is younger than the edit. `EditsNoticed`.
36. Nothing takes a removed package out of an index (line 624; line 557: "checking
    packages in a repository for updates"). `RemovedAreGone`.
37. `2:1` becomes the empty range [2, 2), is accepted, and intersects `1:3`
    (`version/version_types.py:777`; `version/common.py:47`: "Raised when
    constructing an empty version range."). `VersionLists!IntersectsIsOverlap`,
    `Slack = 1`.

## 5. What is proved

TLAPS checks the following for every value of the constants that satisfies the
named assumptions of the modules (`ScheduleAssumption`, `JobAssumption`,
`RunAssumption`, `RowsAssumption`, `ServerAssumption`, `LockAssumption`, `TransactionAssumption`, `InstallerAssumption`,
`ConditionsAssumption`, `RecordsAssumption`, `ViewAssumption`, `RepoIndexConstants`).

* `ObservationScheduleProofs!CursorIsPrefix`: because schedules increase
  strictly, the count `compute_km_from_tobserve` returns is a prefix: the
  instants below the cursor are exactly those not after `k_start`. Induction over the
  schedule is avoided by arguing with the cardinality of `0..n-1` and of its subsets.
* `RestartableRunProofs!TypeCorrect`: `Spec => []TypeOK`. Inductive only
  together with "inside a step `k < nt`"; rests on the clamping of `k_start`.
* `RestartableRunProofs!CursorIsNeverAhead`: `Spec => []CursorNeverAhead`, in
  every configuration. The strengthening says where in a step the cursor may
  count the running step's instant (`CursorInv`).
* `RestartableRunProofs!FreshResultComplete`, `FreshCheckpointTruthful`,
  `FreshCursorNeverBehind`: with
  `force_fresh_start` and no observation at step 0 (`FreshConfig`), a job that
  ends without an error has stacked the complete state of every step, and a
  checkpoint of the current launch claims no more than its files hold, and no
  observation is passed uncounted, however
  many launches were killed, failed or ended before. `FreshConfig` is a
  hypothesis of the theorems, not an assumption of the module.

The invariant behind these three is `FreshInv`. `ResultComplete` speaks of the
end only, so it needs to know, inside the loop, that files up to `k` hold their
states (`LoopInv`), what the target holds between forecast and analysis
(`ForecastInv`, `AnalysisInv`), that the current batch is the one of the file
last written, so that opening the next target truncates nothing below it
(`OpeningKeepsHistory`: a new batch begins exactly at `k+1`), and that
`model_kwargs`, which the exception handler believes, is true of the files.
Before the loop it says that no checkpoint is this launch's own (`StartInv`).
The proof has one lemma per action or group of actions and `FreshStep` puts them
together. TLC agreed with the invariants on the `fresh` instance before they were
proved.

Of the distribution and the rows:

* `AnalysisRowsProofs!SplitIsPartition`: `partition_1d` gives every index to
  exactly one rank, for every number of things and ranks. The argument is that
  slabs form a chain: each starts where the one before it stops (`SlabsChain`);
  the owner of an index is found by dividing by the height of the first slabs or
  of the others (`SlabOf`).
* `AnalysisRowsProofs!SameSplit`: `block_decomp` and the even distribution of
  members are the same split in other words.
* `AnalysisRowsProofs!TypeCorrect`, `SumsAreComplete`, `CorrectionsAreComplete`:
  `Spec => []` of `TypeOK`, `SumsCountEachRowOnce`, `EveryRowCorrectedOnce`. The
  two properties speak of complete phases only; `RowsInv` says inside a phase
  that a row is done exactly when the rank that owns it has arrived
  (`SumsSoFar`, `CorrectionsSoFar`). That an arriving rank finds its rows undone,
  and that none is left when all have arrived, is `SplitIsPartition`.
* `AnalysisRowsProofs!OneRankIsRight`: `Spec => []OneRankTouchesTheRightRows`. On
  one rank the slab's height divided by the number of variables is the height of
  a block, so offsets and blocks coincide (`OffsetsOfOneRank`).

Of the whole run over the ranks (`FullParallelRun`), for any number of ranks,
members, steps, batches and any schedule:

* `FullParallelRunProofs!TypeCorrect`: `Spec => []TypeOK`. Inductive only together
  with "inside a step `k < nt`" and "who writes a member has one", for ranks that
  wait in a collective too (`InsideRun`).
* `Aligned`, `ForecastInputs`, `OneEnsemble`, `HistoryKept`,
  `CheckpointsComplete`, `MeansInBatch`, `ResultHolds`: the safety properties of
  `batches`, and `AnalysisOfOneEnsemble`, under `Regular`.
* `RefinesCycle`, under `Regular`: every run starts as `EnsembleCycle` does and
  every step is one of its steps or a stutter, the safety half of
  `ImplementsCycle`.
* `FailuresStayContained`, under `Regular`: `FailSpec => []FailuresContained`, whichever
  ranks of `FailingRanks` raise, and when.

`Regular` is a hypothesis of the theorems and not an assumption of the module. It
says that there is one member per rank or that one batch holds the run, and that
no observation is at step 0. With several rounds and several batches a
rank goes back and forth between two batches within one step and truncates
both, and history is indeed lost (disagreement 4). The driver starts its cursor
behind the observations of step 0, which are never assimilated; without the
second condition the observations counted would not be those in the state.

The invariant is `RunInv`, that is `Regular`, types and `Phases`: all ranks are
together in one of a few phases (before the first batch, the initial members, the initial
mean; in a step: crossing into a batch, forecasting, the means, the observed
data, the update; leaving, stacking, done), each rank is at one of the few places of
the phase, and the files hold what the places imply: up to the step the
completed history, in the target the forecasts of members whose owner has
written them, or the corrected slabs of ranks that have updated. No rank can be
more than one collective ahead of another, which is what the phases say. For
each phase one lemma treats the steps of a rank (`...Phase`) and one the
collective that ends it (`...Meets`): a collective completes only if all ranks
wait, and in a phase all wait in the same one. `RankPhases`, `CollectivePhases` and
`PhasesKept` put them together. The refinement needs a second table, `Views`, of
what the mapping shows of each phase: `Mixed`, an ensemble with some members
advanced, in a forecast and `Halfway`, with some slabs corrected, in an
update; a rank's write advances its member or corrects its slab, and the last
collective of a step is the cycle's next step. TLC agreed with `RunInv` on five small
instances (one to three ranks; 2 uneven rounds in one batch; batches of 1, 2 and all steps)
before it was proved.

When a rank raises, there are no phases any more: the barriers of the handler
match any of the others', and ranks drift through up to three of them. `FailInv`
says instead what each rank may still do by itself. A rank that raised is in the
handler or in a barrier of it (`InHandler`), so no mean, sum or broadcast ever completes
and nobody reaches an analysis. One that did not (`Onward`) is in the step of the first
failure or a later one, or is ending the one before, and its batch is that
of the file it reads or writes; so what it writes or truncates is the target of a
step not before the first failure's. Steps up to that one are complete because
`RunInv` held when the first rank raised (`FirstFailure`).
TLC agreed with `FailInv` on four instances (two and three ranks; one and two rounds;
batches of 1, 3 and all steps).

Of the MATLAB server, for any number of ranks, machines, commands and slow
starts:

* `MatlabServerProofs!CommandsRunAtMostOnce`, `OnlySentCommandsRun`,
  `LaunchesReturnServers`, `ForecastsAreOfTheStep`, `NoServerIsLeft`, `TypesHold`:
  all safety properties of `node`. The invariant is `RankInv`, one for each rank:
  which command may still be in its file (`SentInv`, `CommandInv`), what a status
  file says of the process that wrote it (`StatusInv`), which processes can exist
  at which place of the rank (`ServerInv`), which commands have been run
  (`OnceInv`) and whose output lies in the output file (`OutputInv`). A rank's own
  step needs only its own invariant; the one thing that ranks do to each other is
  to kill, and `OthersKeep` says that no step of one rank, a kill included, breaks
  the invariant of another. That is what makes the proof independent of the
  number of ranks.

Of Spack's locks, for any number of processes, lock files, ranges in them and
depths of nesting:

* `FileLockProofs!CountsLocked`: a process whose counts say that it holds a lock
  has it from the kernel, in at least that mode. This is where the closing of
  descriptors matters: inductive only together with "the tracker counts the
  `Lock` objects that have a file open" (`UsersCounted`) and "who counts a lock
  has its file open" (`OpenWhileUsed`), so that a file is closed only when no lock
  in it is counted.
* `WritersExclude`, `FilesStayOpen`, `ReleasesKeepTheRest`: writers are alone,
  the file of a held lock is open, and a step on one range takes no lock in
  another range away.
* `ImplementsReadersWriter`: every step is a step of `ReadersWriterLock` or a
  stutter. `PackageInstaller` takes its locks from there.

Of the database on top of them, for any number of processes, any keys, any
nesting and any set of faults:

* `FileLockProofs!NoUpdateIsLost`: `EverySpec => NoLostUpdate`. Who replaces the
  index is alone in the database, whatever goes wrong, and replaces it by
  itself with its own changes, if the faults are `Mended`.
* `FileLockProofs!CopiesStayCurrent`: `EverySpec => []CopiesCurrent`, with what is
  promised within and outside of transactions under `Mended`. That condition is
  exact: the findings 10, 11 and 12 of section 4 are the three ways it excludes.
* The invariant `EveryInv` has the invariant of the locks, what holds
  whatever goes wrong (`TransactionInv`: who polls, who is out, who writes the index
  and in which transaction), and `MendedInv`. In that, `CountsTransactions` ties the
  counts of the lock to the stack of transactions, write by write, so that a
  change is never pending when the last write is released. `TrustedIsCurrent`
  is the point of the verifier: a process that would *not* load the index has what is
  in it, at any time and in or out of transactions, but between the rename and
  the truncation of the verifier; nobody can read then, because a holder of the lock is
  alone (`NobodyReplaces`). That a new verifier is new to everyone is a pigeonhole
  argument (`NewUuidIsNew`). A failed transaction leaves its own copy untrusted
  (`dirty`), which is why a new store, where nothing is read, needs
  `NewStoreUnbroken`. TLC agreed with `EveryInv` for all 32 sets of faults.

Of overwriting and stopped installs, for any number of commands and all
conditions (which options, whether there are faults):

* `StoreProofs!StoreIsSafe`: `Spec => []OverwritesSafely`, the four promises of
  the prefix, each under the conditions that it needs. The invariant `IInv` says
  what a command holds and knows at its place (`Phase`): nobody changes the
  prefix or the record without the write lock, and who reads, reads what is
  installed; that only a command with the write lock has a backup
  (`BackupsInUse`); and where the old prefix is while the new one is built
  (`Aside`). `OldOrNew` is not inductive without `Aside`: that what `Fail` removes
  is in the backup was settled when `MoveAway` was chosen, five steps before.
  It follows from `ReadersOfInstalled` that, as long as nothing is uninstalled,
  a task under a read lock never removes a prefix (`installer.py:1709`).
* `StoreProofs!BuildersKeepTheirPrefix`: `Spec => RemovesOnlyItsOwn`, from the same
  invariant.

Of install records, for any finite set of specs, any dependencies between them
and any pairs that may be deprecated:

* `StoreProofs!RecordsAreSound`: `RecordsSpec => RecordsSound`. The invariant
  `RecordsInv` says that the books are in order (`Books`: no count is below the
  number of references, and what a record refers to is recorded), that what was copied to
  a deprecator lies under one that is installed (`DeprecatorsInstalled`), and, without
  deprecations, that counts are exact and no prefix is a link (`Plain`). Neither half of
  `Books` is inductive alone: that a record which goes takes no reference of
  another one along follows from its count, and the counts of what is left
  from the references of what went.
* The recursion of `_decrement_ref_count` is stated without order or recursion: those
  records go (`Freed`) that lose as many references as they have, the least set that
  is closed in this way. `FreedFall` proves that it is a fixed point, `Cascade` that
  dropping it from books that count the references being given up leaves books in order,
  exact ones if they were exact, and no record at zero that was not there before;
  the last is why an uninstall leaves no garbage. TLC compared `_remove` with the literal
  recursion in all reachable states of the instance. No assumption that
  dependencies are acyclic is needed.
* `_deprecate` needs `DeprecatorsInstalled`: the old deprecator is installed, so
  nothing goes with the reference to it, which the deprecated spec still counts
  as. `Reindexed` counts anew and needs only that what is traversed is closed.

Of the views of environments, for any users, views, contents and ways to use
them:

* `StoreProofs!ViewsAreSound`: `ViewSpec => ViewsSound`. What is promised needs
  `Ordered`: views in different directories, commands for one under its lock or
  one at a time, none killed or failing that disables it; 30 to 33 above are what happens
  otherwise. That nothing is left behind is promised until a command was killed or
  could not remove something (`disturbed`): the code goes on after that, with the old
  directory in the way of a later view of the same contents, which is refused until
  someone removes it. The invariant `ViewInv` says what a command holds (`Locked`), what it
  noted when it began and still finds (`Noted`: the old directory is still the view's,
  the new one is not, and once filled it stays full until the link is swapped), and
  that each directory which is nobody's view is one that a command is `Working` on
  (`Tidy`). `ViewComplete` is not inductive without `Noted`: that
  `remove_old` and `clean_new` do not hit the directory behind the link was settled when
  `regenerate` compared names, up to seven steps before. A step only
  touches directories, links and temporary links of its own view (`Home`,
  `StaysHome`), so that other commands are dealt with once (`OthersNoted`).

Of the cached indexes of a repository, for any number of processes and packages:

* `StoreProofs!IndexesAreSound`: `IndexSpec => IndexesSound` if the cache is not
  cleaned while commands run (34 above shows that it is needed). The heart of the
  invariant `IndexInv` is `Made`: an index of packages that
  nobody edited meanwhile is older than they are or was made from them. It is why the
  comparison of times (`repo.py:624`) may stand for one of contents, although the index is
  written with the time at its end. `Seen` carries this through the wait for the lock: what
  a process compared before is still true of an index with the same time, and
  `Again` looks at any other. `IndexLocking` and `Files` give the writer the
  temporary file to itself, hence `NeverTorn`; `Past` orders all times by the clock.

Of the files of an environment, for any processes, user specs, hashes and
dependencies and any use (`EnvUses`):

* `StoreProofs!LockfilesAreSound`: `EnvSpec => []LockfilesSound`, and
  `ConcretizationsAreAsAsked`: `EnvSpec => []ConcretizesAsAsked`, each promise under
  the conditions that it needs: 26 to 29 above are what happens without `Distinct`
  (no hash satisfies two user specs), `Foreign` (no user spec is also the
  include's), or with an include. Both follow from one invariant, `EnvInv`: the lockfile and
  every object in memory are sound (`FileSound`, `ObjectSound`), and each command has
  at its place done what it should with what it found (`Course`). That the
  lockfile can be read is not inductive: it holds of what is written because the
  object had a concrete spec for each root since it was read, through every command
  that edits it (`StartedIs`, `ForgetIs`, `SolutionsAre`). `Course` carries the
  manifest from the start of the transaction to its end, so that no change is lost.
* The lists. What `concretize()` hands on comes from two lists, made unique apart and
  zipped. `WithoutIs` says what is left of a list when places are dropped: the
  others, in order, once each (`KthIs`, by counting). From it `PairsAre` derives that
  the pairs are the environment's own roots and then pairs whose user spec and whose hash are
  of the include only; with `Foreign` those are never wanted, and that is why 28 does
  not happen. `SolutionsAre` states what each of the three ways of concretizing
  leaves: a root for each wanted user spec, and the kept ones among them.
* The solver is assumed to answer a user spec with a hash that satisfies it, and, with
  unify `true`, to agree on packages with what it is given. TLC agreed with `EnvInv` on the
  three uses before it was proved.

Of installers and uninstallers of one store, for any number of each, any
packages, any order of tasks that respects dependencies, any requests and any
limits:

* `PackageInstallerProofs!BuildsAreUndisturbed`: `Spec => []BuildsUndisturbed`.
  The promise is about three processes at a time, the builder, the owner of a
  dependency's lock, and who removes. The invariant `IInv` says what each knows
  for itself: its entry and the lock it has agree (`LocksOf`, with
  `Exclusive` between processes), what is queued is neither locked nor decided
  (`QueueOf`), what holds at each place for the package at hand (`AtHandOf`), that a
  package whose task is being done is locked for writing and neither recorded nor
  taken for installed, and that one that counts as installed is locked, never partial,
  and, under `RecordsKept`, recorded and complete with all that it needs (`WorkOf`).
  The last is why it is inductive: that dependencies stay while a package builds is in no guard of the code; it follows from the read
  locks an installer keeps until it ends. Queue entries appear once
  (`IsInjective`), by counting: a requeued task was taken off the queue before.
* As in `MatlabServerProofs`, no step proof looks at other processes: what a step
  does outside of its process is `Frame`, `AsksForLocks` (no lock that
  conflicts) and `KeepsStore` (it records what is complete and its own and touches a
  prefix only under a lock on a package not installed), and `InstallerStep` proves from
  these, once, that the invariant of all others is kept. Per action there is one
  lemma (`...Step`) with its effects, its own part of the invariant, and those three.
  A killed installer drops its locks while its children build on; that is why what is
  said about builds has the condition `NoOrphans`, and why that an installer
  of one package at a time has none (`OneTaskOf`) is part of the invariant.
* `RecordsKept` says that no uninstaller has removed the record of a package that
  was back on disk (disagreement 20; the ghost outcome "dropped" of `RemoveStale`
  tells that case apart). Only what is said of the records of dependencies needs it,
  in `BuildsUndisturbed` and in `SuccessIsTrue`: a build is alone and what is
  recorded is on disk in any case. A dropped record may even come back, with the next
  package that needs it, if its prefix is there (`_add`); that this records only what
  the installer has a lock on is `AddedIsInstalled`. Where a removed record had no
  prefix, no installer can have a lock on its package: it is between the prefix and
  the record of another uninstaller, which has the lock.
* `PackageInstallerProofs!ReportsAreTrue`: `Spec => SuccessIsTrue`, from the
  same invariant: `Finish` looks at the installer's own list, `WorkOf` says
  that what is in it is recorded. TLC agreed with `IInv` on the `installs` instance
  before it was proved.

`TypeOK` of `FullParallelRun`, `RestartableRun`, `AnalysisRows`, `MatlabServer`,
`FileLock`, `PackageInstaller`, `EnvironmentView` and `RepoIndexCache` is a theorem and not listed with the runs.

## 6. What is only model-checked, and what is not modelled

Only model-checked: of Spack, version lists; and liveness
(`Finishes`, `LaunchEnds`, `EndsUnlessKilled`, `WaitsEnd`, `EveryCommandEnds`, the
liveness half of `ImplementsCycle`), which is beyond the provers. The operators
of `VersionLists` are recursive over lists, and what a recursive definition
computes for every input is beyond them too: TLC compares them with sets
on all lists over the places.

Abstractions to know when reading a result of an ICESEE module:

* `Nens >= ` number of ranks. With fewer members the ranks of a
  sub-communicator share a model; that case (the third of the forecast, and the
  sequential initialization) is not modelled. As written its forecast reads
  `icesee_ensemble_data.h5`, which a run only creates at its end
  (`_mpi_forecast_functions.py:552`), and its initialization writes one row past
  the slab (`_mpi_ensemble_intialization.py:597`).
* HDF5 writes are visible to other ranks after the next collective and may be
  visible before.
* `truncate_after_k_start` (off by default; it unlinks files the I/O handler
  holds open, `icesee_da_full_parallel.py:328`), parallel creation of files (not
  the default; its names lack `_ens_`, `EnKF_parallel_io.py:214`) and the
  true/nurged runs are not modelled. Of the fingerprints that guard reuse, only
  the flags remain.
* An observation at the end time gets index `nt` (`EnKF_parallel_io.py:533`),
  which no step reaches; schedules here lie inside the run.
* No model of floating-point numbers or of the AR(1) noise, which is chained from
  member to member within a step and not in the checkpoint
  (`_mpi_forecast_functions.py:521`). The values of the
  synthetic observations, H and the ensemble-space matrices are abstracted to the
  rows they involve; how bed masks are computed from strides or meshes is a free
  choice of mask.
* On several ranks, inflation and clamp work on offsets of the slab and reach
  rows of other variables. `OneRankTouchesTheRightRows` therefore says
  `size = 1`; without that conjunct TLC refutes it. The repository does not say
  what several ranks should do.
* In `MatlabServer`, `initialize_model`, the SIGINT handlers and `reset_terminal`
  are left out, and so are servers of earlier jobs on other machines.
* `run_models_da.py:70` prints and swallows every exception of a driver: a failed
  run exits like a finished one. `_issm_model.py:175` binds `bed_int` only when
  `k = 0` unless bed is estimated. Both are paths of one process.

And of a Spack module:

* A process has one `Lock` object per byte range, as the class demands; records
  in `DatabaseTransactions` are keys; commands on records are serialized in
  `InstallRecords`, which the transactions justify as far as 10-12 above allow.
* `InstallRecords` has one kind of dependency: the one that is counted
  (`database.py:1186`) is also the one uninstalls look at (`package_base.py:2151`). `deprecate`
  calls itself for the followers of its spec; here those calls are steps of their own
  that come first. A deprecator is in its prefix (the code would make a missing one).
* In `PackageInstaller` `_next_is_pri0` (`installer.py:1995`) does not look at
  removed tasks; the code may find one at the head of its queue and wait for a read
  lock longer or shorter than the model does, which has both waits. A record that is
  not installed is there exactly while an installed package needs it (`Recorded`):
  that is what the reference counts amount to without deprecations.
* In `PackageInstaller` a child either succeeds or fails. Binary caches are not
  modelled (the fallback to a build from source, `installer.py:2366`, sets a
  property that has no setter), nor splices, external and upstream packages.
* While an overwrite install has moved a prefix away, an uninstall finds nothing
  and removes the record without a lock (`package_base.py:2142`, as in
  disagreement 20): the two are in different modules here, and this meeting is not
  checked. Nor is a view rebuilt
  after an overwrite, which keeps the hash (`environment/environment.py:1873`).
* `gc` holds a read transaction and writes inside it (`cmd/gc.py:83`); two of
  them wait for each other until the database timeout, which
  `DatabaseTransactions` has (`Timed`); without a timeout `WaitsEnd` fails.
* `Environment` has one include, no matrices, develop specs or old lockfile
  formats.
* `OverwritesSafely` asks for whole prefixes and true reports (`RecordedIsWhole`,
  `ReportsTruth`) of commands without stop phases and kills; of kills, and of
  backups that cannot be restored, only that the old or the new prefix survives.
* A version is its place in the order; parsing, printing and the order inside a
  version are not modelled.

Not modelled at all:

* *Partial-parallel and serial drivers.* The one gathers members at rank 0 by
  rank, which permutes the columns when there are several rounds
  (`_mpi_forecast_functions.py:236`); it has no restart and shares no files. The
  other is one process.
* *EnKF algorithms, localization, inflation, noise, model physics*: floating
  point. *Configuration*: its values are the constants.
* *Spack's concretizer* hands a logic program to clingo; *specs and their
  parser, file system helpers, configuration, packages* are sequential functions
  on strings and graphs, large in lines and with no interleaving to explore;
  *fetching and binary caches* are network I/O. Together they are most of the
  lines of this repository, which is why the mapped share of it is small.

## 7. Plan

Done: `ObservationSchedule`, `FullParallelRun` with `EnsembleCycle`
and the refinement between them, `RestartableRun`, `MatlabServer`, `Distribution`
and `AnalysisRows`, all with their theorems; ranks that fail (`FailingRanks`) and the theorems about `MatlabServer`;
Spack's locks, transactions, records, overwrites, installers, environments, views and cached indexes
with their theorems, and versions.

Next, most important first:

1. `CollectivesAligned` of `FullParallelRun` outside of `Regular`, for even rounds
   in several batches, where history is lost but ranks still meet (TLC: 2 ranks,
   4 members, batches of 1).
2. `OverwriteInstall` beside the uninstallers of `PackageInstaller`.
3. Fewer members than ranks (groups of ranks per member), the partial-parallel
   driver's gathering, and `truncate_after_k_start`.
4. Binary caches in `PackageInstaller`: the retry from source.
