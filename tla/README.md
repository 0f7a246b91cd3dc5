# SemantiST in TLA+

SemantiST searches IEC 61131-3 Structured Text programs for defects. Sources
are taken in and normalised, a target is compiled, instrumented and linked with
a generated harness, tasks and seeds are planned for it, a native in-process
fuzzing engine (Rust, LibAFL) runs it scan cycle by scan cycle while a symbolic
solver (KLEE) looks for inputs from prefixes the engine found, and what either
of them claims is confirmed in fresh processes, reduced and reported. This
directory holds TLA+ specifications of the parts of that chain that keep state,
run concurrently or must survive failures, the TLC instances that check them,
and TLAPS proofs of what matters most.

Paths are relative to the repository. `v3*.rs` and `inprocess.rs` are in
`fuzzer/engine/src/`; `campaign.py`, `core.py`, `goal_tasks.py`, `model.py`,
`frames.py`, `replay.py` in `fuzzer/pipeline/`; `planning.py` in
`fuzzer/semantic/`; `report.py`, `findings.py`, `minimize.py` in
`fuzzer/reporting/`; `v3gen.py`, `generator.py`, `state_table.py`,
`contract.py` in `compiler/harness/`.

## 1. Inventory

| Component | State | Operations | Interacts through |
|---|---|---|---|
| Source intake (`compiler/intake/`) | text of a library, blanked units, verdicts | normalise, build per unit, panic search, link, report | files; `plc` |
| Environment stubs (`compiler/intake/stubs/`) | gaps, candidates, verdicts, budget | ask, verify, fall back, settle, freeze | language model; intake |
| Target build (`compiler/instrumentation/`, `build_target.sh`) | artefacts on disk | instrument, ticks, bounds checks, link | shared build directory |
| Symbolic build and queries (`compiler/symbolic/`) | bitcode, manifest, refusal, query directory | build, query, replay | run's copy of the bundle |
| Generated harness (`compiler/harness/`) | target memory, table of globals, record of their first values, checkpoint | reset, init, step, checkpoint, restore | fuzzer loop, engine, KLEE driver |
| Task plan, goal tasks, plans of the language model | tasks, call effects, prefixes, seeds | search, choose waypoints, walk calls, check, expand, write, run | files of the run |
| Prefix snapshot cache (`v3.rs`, `v3_exec.rs`) | tree of prefixes, snapshots, used bytes, exports | `prefix_ids`, `store`, `evict`, `restore`, `clear`, `execute_with_cache` | harness; `prefixes/snapshots` |
| Goal stage (`v3_stage.rs`) | attempts, goals, prefix store, waiting seeds, active task | `select_task`, `ingest_solver_seeds`, `next_input`, `on_result`, `remember` | `solver-queue.jsonl`, `solver-seeds/` |
| Live symbolic solving (`campaign.py`) | budgets, seen records, number of the next seed | `_claim_solver_budget`, `_run_live_prefix_solver`, `_offer_solver_seed` | the same files, from the other side |
| Campaign orchestrator (`campaign.py`) | candidates, findings, replay directories, journal | register, launch, wait, kill, join, replay, confirm | engine process, solver thread, `findings/` |
| Seed reduction (`minimize.py`) | seed, cache of outcomes, position | delete, shrink, write metadata | replays of the target |
| Reports and package replay (`report.py`, `findings.py`, `replay.py`) | groups, status, package | collect, group, replay, persist | run directory |
| Pipeline and batch (`core.py`, `cli/batch.py`) | run directories, result files, summary | build, plan, campaign, report; start, wait, kill, resume | processes in sessions of their own |

What is hard: executions resume from snapshots and share a process; two threads
and a process work on the same lists and files without locks; any process may
crash, hang or be killed between two writes and its directory is used again;
answers come late, twice or not at all; attempts, queries, bytes, rounds and
tokens are counted by hand. `hazards` in `PROJECT.json` lists each place with
its line and the properties that would show it going wrong.

## 2. Modules

| Module | Models | Extends |
|---|---|---|
| `PrefixCache` | snapshot cache and one execution after another | |
| `Campaign` | main thread, solver thread and engine process, confirmation | |
| `SolverFiles`, `GoalStage`, `LiveSolver` | shared files, the engine's and the solver's side of the feedback loop | |
| `HybridLoop` | composition of the three | `GoalStage`, `LiveSolver` |
| `SeedValues`, `SeedReducer` | values and their simpler candidates; the reducer | |
| `Reduction` | abstract: a seed that only shrinks and still fails | |
| `TargetRun`, `Batch` | pipeline processes of targets; the batch around them | `TargetRun` |
| `Report` | the report of a run directory, made again and again | |
| `PackageReplay` | replay of a package, and the report beside it | `Report` |
| `TaskPlan` | tasks from the graph | |
| `GoalTasks`, `PlanBatches` | call effects and prefixes; frames and planned seeds | |
| `Preparation` | the three parts in the order of the pipeline | all of them |
| `LoopBudget`, `TargetIR`, `SymbolicBuild`, `SolverQuery` | loop ticks, instrumentation, bitcode, one query | |
| `TargetBuild` | builds in one directory and queries of the runs | the four |
| `UnitBuild`, `StubRounds` | build per unit, stubs | |
| `Intake` | the normaliser, and a library through all three | both |
| `Harness` | the generated harness in the fuzzer's loop and in the engine | |
| `MC*`, `*_proofs` | instances for TLC; theorems | the component |

Definitions keep the names of the code where they can; `map` in `PROJECT.json`
gives the lines of each. A definition whose comment begins with `Mutant:` is
not part of the model: it is a wrong variant of the definition after it, used
to show that a property notices the difference.

**PrefixCache.** The target is a parameter (`Boot`, `Step`, `Hits`,
`Checkpoint`, `Restore`); `Cold(r, p)`, the state of a cold run, occurs in
properties only. One testcase runs by steps in the order of
`execute_with_cache`: root and tree walk, restore or cold start, every
`ValidateEvery`-th use validated by a replay, frames with due snapshots,
eviction and export, and the ways out (`ReturnOk`, `ReturnCrash`, `Fault`,
`PreflightStop`). `born` remembers the prefix an id was given for.

**Campaign.** `main` is the program counter of `run_rust_engine` and
`_run_confirmation`. Registration is three steps per thread, where Python may
switch. A testcase is opaque; `Shows(t)` are the outcomes of its cold runs, so a
flaky one has several. Deadlines are choices at the step that reads the clock:
`join(timeout=2.0)` may return while a query is running (`late` remembers it),
and the solver thread then registers whenever it likes, also in the last pass
and after it. A confirmed finding is appended in one step and its replay
directory written in the next, which may fail and end the campaign. The journal
of the engine is truncated, written and removed in steps of their own; the
engine may be gone after each, a write may be cut, and a removal that fails is
not noticed.

**SolverFiles, GoalStage, LiveSolver, HybridLoop.** The engine selects, ingests
file by file, runs and credits; a queue line is visible torn until it is
finished; the solver claims, asks and publishes in two renames, either of which
may fail; `Collect` is the `finally` that stops the solver.

**SeedReducer, Reduction.** The passes of the reducer over the records of a
seed with the cache of outcomes. What is replayed is the normalized seed, with
blanks stripped from the ends of its values (`Replayed`), and outcomes are
remembered by that text; what is held and written is not stripped. The target
answers each text it has not seen in any way, so no monotonicity is assumed.
`IsReduction` is the refinement of `Reduction` through `INSTANCE ... WITH`, of
the text that is replayed.

**TargetRun, Batch.** Every pipeline is a process in a session of its own; the
batch writes result and summary, is interrupted at any step with its pipeline
left alive or not, and is started again with the same or another command line.

**Report, PackageReplay.** Groups are written file after file, under a name that
`SafeKey` makes of the key, so that two groups may share a file; a report may be
killed at any step and made again with or without the finding files, or with
inputs of them missing. `failure` is how the run ended; only some ends leave an
event (`Failures`). A package may be whole or lack what a killed campaign had
not written, `finding.json` being written twice.

**Preparation.** Every graph of the instance, its simple paths by bounded
search, candidates and waypoints; then the effects found through calls, and
rounds of plans that are judged one by one, expanded, built into a text, read
back as the engine reads it, run, and kept when they show something new. The
code checks values twice: `AcceptedOf` are the JSON values that the first check
(`plan.py:137-169`) lets a plan give a field, `TextOf` is the text such a value
is written as, and `DomainOf` are the texts that the second check
(`frames.py:343-397`) takes. A plan may pass the first and fail at the second,
an unhashable name ends the judging of its whole answer, and a null priority
ends the planning. `Trimmed` and `Reread` are what
reading does to a text: blanks at its ends go, and a value that spans lines
comes back as something else. A run may be in no state of its task and at no
distance from it (`None` in the code), so both are sets with at most one
element. A `repeat` holds simple actions: the code nests it to any depth, each
level being the same loop again.

**TargetBuild.** The loop pass as its depth-first search, which puts a tick
before everything else in a header, so that a block with a phi no longer
compiles; the memory pass as a walk over lines with sizes that must not outlive
a function; builds that fail, are killed at any step or leave symbolic execution
out (`SEMANTIST_SYMBOLIC=0`), in a directory that is used again; a query with
its driver, KLEE (external: exact on exact models, anything on others) and
native replay. The driver admits printable texts only. KLEE's log has the words
"completed paths" after a search of all inputs and after one that was cut short
(`log`), and also when the driver ended before the symbolic frames (`stops`, of
a request).

**Intake.** A library is a set of units with names, uses and faults that the
compiler reports at a stage, with or without a location. Rounds of type check,
code generation and panic search blank more of it (`Gone`: the names nothing
declares then); the code takes the names it has blanked from the text by
patterns (`Noted`), which miss the values of an enumeration, the further
variables of `a, b : T;` and variables that are not alone on their line. Rules
cure and break; stubs are asked for in batches that may time out or overdraw,
verified against the call sites outside the rejected units, repaired and frozen.

**Harness.** Process memory is the target's globals and the one state object of
the harness; a word is a number or an address, which is a place in a process. A
persistent loop takes texts record by record, any of which may be refused or
abort; the engine initialises, restores, gives frames and checkpoints. What the
table lists follows from what the optimizer left. `hist` records what an
execution was given and `Cold` is a new process given the same. The target is a
small program with a counting global, one that keeps an address, an instance
variable, an IN_OUT and a pointer parameter.

## 3. Runs

| Run | Question |
|---|---|
| `prefix_cache` | Is a resumed execution a cold one when the checkpoint is complete? |
| `prefix_cache_leaky` | What still holds when it is not: identity of prefixes, exact accounting, nothing old after a failed validation or a crash |
| `campaign` | Replay directories, repeated findings, no candidate lost, journal; and does `run()` end whatever the engine and the solver thread do? |
| `HybridLoop` | Origin and order of seeds, credit, budgets, counted reaches in a full prefix store |
| `HybridLive` | Is every queued prefix decided, and does the solver follow the engine's end? |
| `seed_reducer` | Is the reduced seed failing, minimal in records, explained by its metadata, and a `Reduction`? |
| `batch` | Does completed mean whole, is the summary true, does a hybrid batch end? |
| `report` | Do confirmed findings stay, is a clean status clean, does a package replay, does a report made again keep what there was? |
| `preparation` | Is the plan complete, are effects found, are seeds what their plans asked for and gains? |
| `target_build` | Are loops ticked and sizes local, is a bundle what its contract says, when is UNSAT a proof, and is SAT a fact? |
| `intake` | Are verdicts right, is what is called faithful whole, do frozen stubs fit their callers and stand alone? |
| `harness` | Is every execution that of a new process, and is a scan aborted for its own loops only? |

All twelve pass. Each property has a mutant in `PROJECT.json` that TLC finds.

### Bounds

- `prefix_cache`: three frames, three executions, two entries, checkpoint every
  second frame, validation every second use: a snapshot stored by a resumed run
  is restored and validated, and evictions happen. `prefix_cache_leaky`: two
  init profiles, checkpoints at every frame, one node per entry so that the
  tree is dropped, room for three bytes where a snapshot of depth two needs
  more. The intervals 16 and 32 of the code occur as moduli only.
- `campaign`: a flaky testcase and its shortened form that shows another crash;
  one testcase offered for registration and two executions, each of which may
  leave a candidate file: a race of registrations, a crash after a candidate, a
  second confirmation pass and a registration after it.
- `HybridLoop`: two tasks (wrong credit), two seeds (order), three executions
  and three prefixes, none of them planned (eviction), three queries at most
  shared by startup and thread.
  `HybridLive`: one task, seed and query, two executions and distances.
- `seed_reducer`: seeds of up to three records with every kind of type; three
  are needed for a deletion that makes another possible. One is a text with a
  blank where it may be cut.
- `batch`: three targets (a designed defect without its buggy source, a known
  defect, a benchmark target), three command lines, two starts, two pipeline
  processes at once.
  `report`: three reports, up to four findings in groups of two, two goals whose
  keys are cut to one file name, one seed each.
- `preparation`: every edge set on three nodes with at most two paths and five
  expansions, so searches are cut; call graphs of three POUs; three rounds of
  batches of two, of up to two frames or up to four (`FewFrames`, `ManyFrames`:
  4 and 128 in the code), with values that only one of the two checks takes,
  that lose a blank or that span lines.
- `target_build`: two builds and two queries over the programs of
  `MCTargetBuild`, functions of three blocks with 64 choices of jumps.
  `intake`: libraries with every pair of a pool of faults, one validation round
  and two stub rounds, budget and askers two, so the budget is overdrawn by one
  request.
- `harness`: texts of three scans or IN_OUT writes, three frames in the engine,
  limit one, three outcomes of the optimizer (nothing, one global split and the
  vtable gone, the other split and the vtable constant).

Names beginning with `Max` bound the model; the other limits are the code's own
with small values. Deadlock checking is off for `PrefixCache` only, whose
behaviours end at `MaxExecs`; elsewhere a final state stutters by an action of
its own and any other stop is an error.

### Fairness

`Campaign!FairSpec`: weak fairness of the main thread, whose waits all have
timeouts; nothing is assumed of the engine or of the solver thread, either of
which may hang.
`HybridLoop!FairSpec`: weak fairness of the engine's steps, of the solver thread
and of `Collect`; neither the end of the time budget nor a crash is fair.
`Batch!FairSpec`: weak fairness of the batch's own steps (`Work`) and of each
pipeline process, both of which have deadlines; none of interruptions. A
coverage engine is not fair, so `BatchEnds` is stated for hybrid batches.

## 4. Proofs

All theorems hold for every value of the constants that meets the named
assumptions of the module that declares them; TLC evaluates these in every run.

**PrefixCache_proofs.** `IdInv` joins the types with: an id in `born` is below
`nextId` and names one prefix; every tree node, id of the running testcase,
snapshot and export is known to `born` with its path. It is needed because a
snapshot is found by id alone, and gives `TypeCorrect` and
`PrefixIdentityHolds`. `ColdInv` adds: the target is in the cold state of the
prefix already run, observations, snapshots and exports are cold, and during a
validation replay the map holds only ids hit so far. Under `CheckpointComplete`
every step preserves it, and `ResumeIsSound` (`ResumeIsCold`) follows.
`Harness` is where that assumption is examined. `BooksAreExact`
(`AccountingIsExact`) needs the sum over the snapshots to be unfolded by one
element; `OldIsForgotten` (`NothingOldSurvives`) needs that after a fallback
every snapshot was stored by the execution at hand.

**Campaign_proofs.** `CampaignTypes`; nothing is assumed of the solver thread,
which may run on after its join. `IdsInv`: unless the join gave up (`late`) at
most one thread is inside a registration and an id is the position in the list;
a position still to be confirmed has no finding, and the finding whose directory
is being written is the last one. It gives `FindingIdsAreUnique` (two candidates
share an id only if the join gave up) and `ReplayDirectoriesAreKept`. `JournalInv`
says what the journal holds at each step of the engine, also after a removal
that failed, and gives `JournalNamesTheCrash`. `EvidenceInv` says that what a
confirmation pass has left behind is settled, `EndInv` that the engine's files
are fixed once it has exited; `NothingIsLost` follows for the candidates of the
last pass, which are all of them unless the join gave up.
`FindingsWereRepeated` needs none of these.

**HybridLoop_proofs.** `HybridTypes`; `SeedInv` relates the numbers on disk, the
seed being published and what the engine has read (`SeedsHaveTheirOrigin`,
`SeedNumbersAreDense`); `AskInv` relates asked queries to records seen
(`PrefixesAreAskedOnce`); `QueryBudgetsHold`, their conjunction
`SolvingStaysBounded`, `CreditIsRight`, `GoalsAreReportedOnce`, and
`HazardReachesAreKept`: the prefix of a counted reach is never the one to go, and
a store that is full of such prefixes stays so.

**Seeds_proofs.** Of the reducer: `Typed`, `Reproduces` (the text that the held
seed is replayed as was seen to fail, and the file written is that text unless a
shrunk value in it ends in a blank), `DeletionIsMinimal` (an action property),
`ImplementsReduction`, the refinement step by step, of the replayed text, and
`MetadataIsComplete`: the records held are those of the given seed that are not
removed, with the values of `changed`.

Of planned seeds: `SeedsHold` (`SeedsAreGains`). The two checks of values are
any; a value that the first one takes has a text. `ExpandIs` shows by induction
over actions and repetitions that a legal plan expands to as many frames as
`validate_plan` reckons it at; `ReadsBack` shows that what `TargetModel.build`
writes, which the second check has passed, is parsed as the same frames without
the blanks at the ends of their values, shared and in-out fields included,
unless a value spans lines. `GainInv` says that the books (`hits`, `states`,
`best`) hold what every seed showed and nothing that neither a seed nor the
default frame showed, and that what waits to be run was accepted.

**Pipeline_proofs.** Of the batch: `BatchInv` ties each result file to the
pipeline that gave it and says what a pipeline may still write when the batch
that started it is gone; `CompletedTargetsAreWhole` and `SummariesAreTrue`
follow.

Of the preparation, for any graph, call graph, targets and bounds:
- `PlanHolds` (`PlanIsComplete`). `TInv` is the invariant of Tarjan's algorithm
  as the code runs it: numbers rise along the active calls, the low link of a
  call is reached from it, and a component that was closed has no edge into one
  that is still open. So components are listed in an order that no edge
  ascends, and a path that left a component does not come back (`HomesDescend`).
  `HonestInv` then says of a search that has no reason to have stopped: every
  path is found or has a prefix in the queue. When the queue is empty all are
  found, and where the search was cut a reason is named. `PlanInv` accounts for
  each target whose turn is over.
- `EffectsHold` (`EffectsAreComplete`). `EffInv` follows the recursion of
  `cycle_effects` as a chain of calls with the POUs that were looked at and
  those that were left: every call of a POU that was left leads to one that was
  looked at, so at the end the set is closed; and a recursion is reported exactly
  when a call leads back into the chain. `Called` is stated without the walk.

**Reporting_proofs.** `RunInv`: the files of a run are of one mode
(`RunsAssumption`: a directory with results is refused by `create_layout`), the
records of a report follow from files and groups at each phase, and a package
that is written in order has the files before the last. It gives
`ConfirmationStays`, `CleanReportIsClean` (of the failures that leave a record)
and `WholePackagesReplay`. `RegenerationHolds` (`RegenerationKeeps`, an action
property) needs `KeepInv`: a group in memory counts the files before the
reporter's place that have its key and `raw` is the sum over the groups; a group
on disk is of a key with its file's name and counts all its files, torn or not;
groups that were loaded from disk count what is stored and are confirmed where
it is; so the numbers of the last report are those on disk as long as the files
are there or no group is torn, and where no two groups share a name none was
overwritten.

**Compiler_proofs.** Of the harness: `Cold` folds the events of a history; it is
unfolded event by event, and the memories a scan can produce are described by
their shape. The table holds every global that the target writes (`TableInv`),
so putting its globals back gives all of them. `ColdInv` of this module says of
every process that its memory is the cold one of its history, and of the
checkpoint that it is of the history stored with it: `ExecutionsStayCold`,
`AbortsStayOwed`.

Of the intake: `VerdictsHold` (`VerdictsAreRight`: what is accepted builds, and
what is turned away has a cause, of its own, excluded or missing, or one that
the patterns do not find), `SemanticHolds` (`SemanticIsWhole`), `FrozenStubsFit`
(`FrozenFitsItsCallers`) and `FrozenStubsStandAlone` (`FrozenStandsAlone`), for
any library, environment, answers of the model and budget. The invariant follows
a text through the rounds: what is blanked is no more than what was found at
fault or depends on it, what was checked is what is kept, and a stub is frozen
with the verdict of its callers outside the rejected units. `AloneInv` says of
the last checks that a stub which need not be built again mentions only what
passes or what no library misses together with it.

**TargetBuild_proofs.** `BuildInv` has these parts. `FilesAreNew`: which file of
the directory is of this build at which step. `SymbolicIsNew`: a symbolic build
that has cleaned and not ended has neither manifest nor refusal, one that ended
has everything of this build or nothing; its walk over calls is closed, so that
the manifest names every imprecise function that can run (`Reached`, stated
without the walk: what lies in every set that has the entry and is closed under
calls). `BundleInv`: a run has a whole bundle of this build, none, or, with
symbolic execution off, what an earlier build left, and its contract says which.
`QueryInv`: what makes an answer imprecise is collected before KLEE is asked,
and the directory of the query is empty then; a search of all inputs that found
no goal met none (`UnsatIsTrue`). `LoopInv`: edges that the
walk has followed lead to left blocks, to headers or to the block above on the
stack, and no set of left blocks that are not headers is closed under some
jump. `SizesUpTo`, by induction over the lines. They give `BundlesAreWhole`,
`AnswersStayFacts` and `InstrumentationStaysRight`.

*Induction.* The library's induction rules have an operator as parameter, which
the installed provers cannot instantiate. `SetInduction` states the same for a
set of numbers and follows from the well-foundedness of `<`; with it folds of
the community modules are unfolded: the recursion has a solution, two solutions
agree, hence one more element is one more step. `SelectSeq`, `:>` and `@@`
remain opaque to the provers, so definitions that proofs look into avoid them.

**Checked by TLC only.** Liveness (`Terminates`, `QueuedIsDecided`,
`SolverFollowsEngine`, `BatchEnds`), which needs `ENABLED`. Every other property
of a run is stated by a theorem.

*What proving changed in the models.* `RegenerationKeeps` used to claim that a
report never confirms less than the one before; with three reports this is
false, as an interrupted one may have stored what its own replay came to. It
now says what holds, and the run makes three reports. In
`Report` a run directory mixed findings of both engines, which `create_layout`
excludes. `CASE` arms that overlapped in `Batch`, `PackageReplay` and `Report`
are `IF` chains in the order of the code. `LoopBudget` passes over labels that
name no block, as the code does.

`SeedsAreGains` compared distances of seeds across tasks, which held by the
instance only; it is now stated for the seeds of one task. `expand_plan` checks
the number of frames itself (405-406); `RunPlan` has that check as a guard, and
the theorem shows that it never turns an accepted plan away. An empty list of
targets goes straight to a finished plan. What a rejected unit of `Intake`
suffers from is said as the code finds it: `_culprit_prefix` takes the empty
prefix to build without trying it, and `_exclusion_culprit` blames dependents
through declarations, so a unit may be rejected for what another one did.
Recursions of helper operators are functions over numbers (`Iterate`, `Halve`,
`Kept`), choices are made once (`Adjacency`, `Extensions`), and the assumptions
on sources, environments, targets, effect models, answers and runs say what the
code that makes them guarantees: lists are lists, numbers are numbers, names
are distinct.

## 5. Observations made while modelling

Behaviour of the code that a reader of its comments may not expect. Properties
above are stated so that they hold with it.
No run checks the items of this list: they were met while the definitions were
translated, and each names the line to read.

- *Cache and engine.* The validation replay does not clear the goal map before
  each frame (`v3.rs:873`, the comment at 906 asks for it); `restore_goal_map`
  keeps task goals only. A crash or timeout in the cold preflight leaves the
  exported snapshots active (`inprocess.rs:521-526` against `v3.rs:721`).
- *Campaign.* Candidate files of an engine that failed are never replayed
  (`campaign.py:1861`, docstring 1698). A query that outlives `join(timeout=2.0)`
  (1851) registers in a later phase or after the last pass (1942-1944), where
  nothing judges its candidate, and may share an id with another one (740); the
  properties name these cases. A crash may be confirmed by another crash (589).
  A replay directory that cannot be written ends the campaign with the finding
  already listed (1140-1141).
- *Live solving.* The solver learns of reached goals from events only (1586) and
  a seed published while the engine ends is not taken in (355). A task at its own
  limit is taken for the campaign's budget and ends live solving (1600). A hazard
  reach is counted although a store full of prefixes that are never given up
  turns its prefix away (`v3_stage.rs:480`); a record whose frames can never be
  read again is never decided.
- *Reducer.* `_shrink_values` stays at a record while some candidate value still
  fails (`minimize.py:451`), and the candidates of a Boolean are the other
  value, those of an integer 0 include 1 and -1. With a record whose value does
  not matter and that cannot be deleted the values alternate and the loop does
  not end; the attribution after it is then never reached. `replay_seed`
  normalizes what it runs (271) and strips the blanks at the ends of values, the
  seed that is held and written (348-350) keeps them: where a shrunk text ends in
  a blank the file itself was not run.
- *Batch and pipeline.* A resumed batch with other options is only refused once
  a summary exists (`batch.py:489`). The coverage engine is not told its time
  limit and keeps the pipes of a killed pipeline open, so `communicate()` may
  not return (`core.py:338-356`, `batch.py:197`); its failure is recorded as a
  missing bundle.
- *Reports.* A rebuilt target is never found again by the replay
  (`replay.py:148-151`). The file name of a group has its separators replaced and
  is cut to 160 characters (`findings.py:431`), so that two groups can share a
  file and only the second is left. Metadata of a reducer that failed is final. A
  failed coverage engine leaves no event (`core.py:642-646`) and neither does a
  killed campaign: both read as `no_confirmed_vulnerability`, which
  `report.py:893-895` means to exclude. A finding whose seed file is missing stays
  unchecked (594-595). `finding.json` is written a second time after the package
  beside it (`campaign.py:970`).
- *Build.* Switch cases on lines of their own are not read as successors, so a
  loop closed only by them has no tick (`loop_budget.py:68-69` against line 4); a
  tick is put before the phi nodes of its header, where LLVM does not take it
  (144-152), so that the build fails. A pointer to an array element is given the
  size of one element (`compile.py:577-582`). Concurrent pipelines share one
  build directory. With `SEMANTIST_SYMBOLIC=0` (`build_target.sh:238`) the
  contract says "not built", but the bitcode of an earlier build is copied
  (`core.py:208-209`) and the campaign queries it (`campaign.py:1361-1363`,
  `solver.py:242-254`).
- *Queries.* UNSAT is no proof by itself (against `solver.py:395-399`): the driver
  assumes printable bytes in texts (`driver.py:139-149`, 208-220), its exit codes 2
  to 4 and a search that was cut short count as completed paths, and the log is
  looked through for two words (`solver.py:441`). `AnswersAreFacts` names these
  conditions.
- *Planning.* A guide target claimed only by the path of a violation that has
  no probe gets no runnable task (`planning.py:731`); a pulse leaves its input
  high (`plan.py:391`). `validate_plan_batch` promises not to discard valid peers,
  but an operation or input name that is not hashable raises `TypeError` and
  discards the whole answer; a priority of null raises it where plans are sorted
  (`plan_batches.py:229`) and ends the campaign. A value of type STRING may hold
  line breaks and is then read back as other records.
- *Intake.* The names of what was excluded are taken from its text by patterns
  (`build.py:452-454`, 479-488), which find neither the values of an enumeration
  nor the second variable of `a, b : T;`: a unit that needs one of these is then
  called `type_error` with no fault of its own (179-184). Loose lines of
  dependencies do not count against a semantic report (`report.py:74`), and a
  dependency that was adapted and is only used as `ARRAY OF`, `REF_TO` or a value
  is not noticed (`dependencies.py:74-90`). The start of the panic search is kept
  across phases (`build.py:336`).
- *Stubs.* After a stub is dropped only stubs of the libraries that name it are
  checked again, not of those it was built into (`generate.py:307`; the comment at
  292 says the frozen set must pass on its own), and what is left is frozen at the
  limit of rounds whatever the last check found. A unit that fails for its gaps
  alone is passed over (`verify.py:170-171`), so its call sites count for nothing.
  The token budget can be overdrawn by requests in flight.
- *Harness.* An input refused between two scans never ends its line of the
  opt-in output trace, so the next input of a persistent loop continues it
  (`v3gen.py:565-592`; `generator.py:440` promises one line per input). A
  function has no state fields, so `shared_params` is empty for it: records of
  its IN_OUT and constant parameters are passed over (`abi.py:193`), and the
  generated code for a scalar output reads a field its frame does not have
  (`v3gen.py:1026`). The layout gives pointer storage alignment 8, the C
  declaration is a byte array (`contract.py:166-172`, `v3gen.py:100`); it lists the
  vtable of the instance and its own pointer fields, not the vtables of nested
  instances (199-210), so an exported checkpoint of a target with nested blocks
  cannot be relocated in full. The engine rewrites every IN_OUT parameter in each
  frame, a text only where it has a record.

## 6. Not modelled

- The LibAFL engine of the first format version with its task runtime, power
  schedule, observers and command line: the pipeline drives the version 3 path.
- Mutation and generation of bytes: the models take any testcase.
- The import of an exported checkpoint into another process
  (`semantist_import_state`, `snapshot_relocations`) and queries that start from a
  state file: no query of a campaign passes one (`campaign.py:1413-1422`, 1468,
  1612-1629).
- The ranking of tasks (`rank_tasks`, `refresh_task_runtime`, `defer_task`), which
  only tests call, and the corpus store, which is opened once, in a new run
  directory (`core.py:117-125`), so that its numbering against an earlier store is
  not reached.
- STG extraction, the Structured Text parser, the dialect rules
  (`normalize/rules/scl.py`), type reflection (`abi.py`, `llvm_ir.py`): pure
  functions from text to text, too large in data for TLC; what they hand on is
  an input of the models.
- The output trace, state dump and timing of the harness, report wording,
  prompts, probe audit, timer probe, benchmarks.

`PROJECT.json` gives the reason for each part.

## 7. What remains

1. `ColdExecutor`: an abstract executor that runs every testcase cold, with
   `PrefixCache` shown to implement it under `CheckpointComplete`.
2. `SemanticTasks` (`fuzzer/semantic/runtime.rs`): deferral and retry of tasks in
   the first engine.
3. The end of `_shrink_values` (`minimize.py:451`), see section 5: no property
   covers it, as it need not end.
