------------------------------- MODULE Batch -------------------------------
(***************************************************************************)
(* semantist-batch, fuzzer/cli/batch.py: the targets one after another,    *)
(* each in a pipeline process (TargetRun), one result file per target and  *)
(* a summary after each.  The batch may be interrupted at any step, with   *)
(* its pipeline left alive or not, and be started again with --resume.     *)
(***************************************************************************)
EXTENDS TargetRun, Sequences, SequencesExt, FiniteSets

CONSTANTS
  Defects,     \* the cases of the defect manifest, in order
  Benchmarks,  \* the target ids of each benchmark manifest, in order
  Options,     \* the command lines: suite, variant, manifest, budget and switches
  MaxStarts    \* how often the batch is started

ASSUME OptionsAssumption ==
  \A o \in Options :
    /\ {"suite", "variant", "manifest", "budget", "full", "coverage", "only", "skip"} = DOMAIN o
    /\ o.manifest \in DOMAIN Benchmarks
    /\ {o.full, o.coverage, o.only, o.skip} \subseteq BOOLEAN

VARIABLES
  pc,         \* the batch process
  starts,     \* how often it was started
  resume,     \* --resume was given
  options,    \* its options
  next,       \* the target it is at
  child,      \* the pipeline it waits for
  timedOut,   \* that pipeline exceeded its time
  code,       \* its return code, 127 where it could not be started
  results,    \* the results so far
  kept,       \* how many directories were renamed to .interrupted-n, by target
  summary     \* batch-summary.json

bvars == <<pc, starts, resume, options, next, child, timedOut, code, results, kept, summary>>
vars == <<tvars, bvars>>

-----------------------------------------------------------------------------
(* A designed case has a source file per variant, where it has one at all; *)
(* a known defect has no fixed variant.                                    *)
DefectTargets(variant) ==
  FlattenSeq([i \in DOMAIN Defects |->
    LET case == Defects[i]
        asked == IF variant = "both" THEN <<"buggy", "fixed">> ELSE <<variant>>
        given == IF case.designed THEN SelectSeq(asked, LAMBDA v : v \in case.files)
                 ELSE IF variant = "fixed" THEN <<>> ELSE <<"buggy">>
    IN [j \in DOMAIN given |-> <<case.id, given[j]>>]])

BenchmarkTargets(manifest) ==
  [i \in DOMAIN Benchmarks[manifest] |-> <<Benchmarks[manifest][i], "buggy">>]

(* The targets of a batch: the run directory of each is its id and variant.*)
List(o) ==
  (IF o.suite \in {"defects", "all"} THEN DefectTargets(o.variant) ELSE <<>>)
  \o (IF o.suite \in {"benchmarks", "all"} THEN BenchmarkTargets(o.manifest) ELSE <<>>)

(* One directory per target, all of them known to the pipelines.           *)
ASSUME ListAssumption ==
  \A o \in Options : List(o) \in Seq(Targets) /\ IsInjective(List(o))

(* What a resumed batch is compared with; the manifest only where it is    *)
(* used.                                                                   *)
BatchOptions(o) ==
  IF o.suite = "defects" THEN [o EXCEPT !.manifest = None] ELSE o

-----------------------------------------------------------------------------
Dead == {"off", "refused", "done", "interrupted"}
Fresh == {r \in Runs : run[r] = Idle}

Init ==
  /\ TInit
  /\ pc = "off" /\ starts = 0 /\ resume = FALSE /\ options = None
  /\ next = 1 /\ child = None /\ timedOut = FALSE /\ code = 0
  /\ results = <<>>
  /\ kept = [t \in Targets |-> 0]
  /\ summary = None

OutEmpty ==
  /\ summary = None
  /\ \A t \in Targets : ~dir[t].there /\ kept[t] = 0

(* main, up to the loop: a resumed batch is compared with the summary only *)
(* when there is one; any other batch needs an empty output directory.     *)
Accepts(o, again) ==
  IF again
  THEN summary # None => /\ summary.options = BatchOptions(o)
                         /\ summary.expected = Len(List(o))
  ELSE OutEmpty

Start(o, again) ==
  /\ pc \in Dead
  /\ starts < MaxStarts
  /\ starts' = starts + 1
  /\ resume' = again /\ options' = o
  /\ next' = 1 /\ results' = <<>> /\ child' = None /\ timedOut' = FALSE /\ code' = 0
  /\ pc' = IF Accepts(o, again) THEN "target" ELSE "refused"
  /\ UNCHANGED <<tvars, kept, summary>>

Here == List(options)[next]
More == next \in DOMAIN List(options)

Add(result, then) ==
  /\ results' = Append(results, result)
  /\ pc' = then

(* A result file of this target is taken as it is.                         *)
Reuse ==
  /\ pc = "target" /\ More
  /\ resume /\ dir[Here].result # None
  /\ Add(dir[Here].result, "summary")
  /\ UNCHANGED <<tvars, starts, resume, options, next, child, timedOut, code, kept, summary>>

(* What an interrupted run left is renamed, never written over.            *)
Preserve ==
  /\ pc = "target" /\ More
  /\ ~(resume /\ dir[Here].result # None)
  /\ pc' = "launch"
  /\ IF resume /\ dir[Here].there
     THEN /\ kept' = [kept EXCEPT ![Here] = @ + 1]
          /\ dir' = [dir EXCEPT ![Here] = Empty]
     ELSE UNCHANGED <<kept, dir>>
  /\ UNCHANGED <<run, starts, resume, options, next, child, timedOut, code, results, summary>>

(* _run_one removes what is in the run directory and starts the pipeline.  *)
Launch ==
  /\ pc = "launch"
  /\ dir' = [dir EXCEPT ![Here] = Empty]
  /\ \/ \E r \in Fresh :
          /\ r = Min(Fresh)
          /\ run' = [run EXCEPT ![r] = [Idle EXCEPT !.pc = "layout", !.target = Here,
                                                    !.coverage = options.coverage,
                                                    !.only = options.only, !.skip = options.skip]]
          /\ child' = r
          /\ pc' = "wait"
          /\ UNCHANGED code
     \/ /\ code' = 127
        /\ pc' = "judge"
        /\ UNCHANGED <<run, child>>
  /\ UNCHANGED <<starts, resume, options, next, timedOut, results, kept, summary>>

Exited ==
  /\ pc = "wait"
  /\ At(child, "exit")
  /\ code' = run[child].rc
  /\ pc' = "judge"
  /\ UNCHANGED <<tvars, starts, resume, options, next, child, timedOut, results, kept, summary>>

(* The time is over: the pipeline's own session is killed.                 *)
TimeOut ==
  /\ pc = "wait"
  /\ run[child].pc \in Working
  /\ run' = [run EXCEPT ![child].pc = "killed"]
  /\ timedOut' = TRUE
  /\ pc' = "drain"
  /\ UNCHANGED <<dir, starts, resume, options, next, child, code, results, kept, summary>>

\* Mutant: after the time is over the batch waits for the pipeline to end by itself.
DrainForever ==
  /\ pc = "drain"
  /\ At(child, "exit")
  /\ pc' = "judge"
  /\ UNCHANGED <<tvars, starts, resume, options, next, child, timedOut, code, results, kept, summary>>

(* The second communicate() reads to the end of the pipes, which a build   *)
(* script or the engine of the killed pipeline still holds.               *)
Drain ==
  /\ pc = "drain"
  /\ run[child].tool = None
  /\ pc' = "judge"
  /\ UNCHANGED <<tvars, starts, resume, options, next, child, timedOut, code, results, kept, summary>>

\* Mutant: the return code is not looked at.
StatusWithoutCode(d) ==
  IF timedOut \/ d.native = "TIMEOUT" THEN IF d.abi THEN "campaign_failed" ELSE "build_failed"
  ELSE IF d.public \in Failures \/ (options.full /\ ~d.full) THEN "campaign_failed"
  ELSE IF d.native # None \/ d.public # None THEN "completed" ELSE "build_failed"

(* The campaign's report.json, with the status of the public report where  *)
(* there is one.                                                           *)
ReadReport(d) ==
  [any |-> d.native # None \/ d.public # None, native |-> d.native, status |-> d.public]

(* The status _run_one derives from the return code and the run directory. *)
Late(d) == timedOut \/ ReadReport(d).native = "TIMEOUT"
Short(d) == options.full /\ ~d.full
Failed(d) == ReadReport(d).status \in Failures
StatusOf(d) ==
  LET failed == IF d.abi THEN "campaign_failed" ELSE "build_failed" IN
  IF Late(d) \/ code # 0 THEN failed
  ELSE IF Failed(d) \/ Short(d)
       THEN IF ReadReport(d).status = "build_failed" THEN failed ELSE "campaign_failed"
  ELSE IF ReadReport(d).any THEN "completed" ELSE failed

(* The parts of it; those of the symbolic work and the replay are copied   *)
(* from the reports.                                                       *)
ExecutionStatus(d) ==
  [build |-> IF d.abi THEN "completed" ELSE "FAILED",
   campaign |-> IF Late(d) THEN "TIMEOUT"
                ELSE IF code # 0 \/ Failed(d) \/ Short(d) \/ ~ReadReport(d).any THEN "FAILED"
                ELSE "completed"]

(* What a result file may hold; None stands for a missing file.            *)
Results ==
  [target : Targets, status : {"completed", "campaign_failed", "build_failed"},
   execution : [build : {"completed", "FAILED"}, campaign : {"completed", "FAILED", "TIMEOUT"}],
   options : Options, by : Runs \cup {None}]

ASSUME NoneIsNoResult == None \notin Results

Result(d) ==
  [target |-> Here, status |-> StatusOf(d), execution |-> ExecutionStatus(d),
   options |-> options, by |-> child]

\* Mutant: the temporary result file is never moved to its name.
SaveTemporary ==
  /\ pc = "judge"
  /\ dir' = [dir EXCEPT ![Here].there = TRUE]
  /\ Add(Result(dir[Here]), "summary")
  /\ UNCHANGED <<run, starts, resume, options, next, child, timedOut, code, kept, summary>>

(* The result is written to a file of another name that then replaces it,  *)
(* in a directory that error.log or the result itself makes non-empty.     *)
Save ==
  /\ pc = "judge"
  /\ dir' = [dir EXCEPT ![Here].there = TRUE, ![Here].result = Result(dir[Here])]
  /\ Add(Result(dir[Here]), "summary")
  /\ UNCHANGED <<run, starts, resume, options, next, child, timedOut, code, kept, summary>>

(* The counts over the results so far.                                     *)
Counts ==
  LET number(S) == Cardinality({i \in DOMAIN results : results[i].status \in S}) IN
  [all |-> Len(results), built |-> number({"completed", "campaign_failed"}),
   completed |-> number({"completed"})]

Summary ==
  [options |-> BatchOptions(options), expected |-> Len(List(options)),
   complete |-> Len(results) = Len(List(options)), counts |-> Counts, results |-> results]

WriteSummary ==
  /\ pc = "summary"
  /\ summary' = Summary
  /\ next' = next + 1
  /\ child' = None /\ timedOut' = FALSE /\ code' = 0
  /\ pc' = "target"
  /\ UNCHANGED <<tvars, starts, resume, options, results, kept>>

Finish ==
  /\ pc = "target" /\ ~More
  /\ summary' = Summary
  /\ pc' = "done"
  /\ UNCHANGED <<tvars, starts, resume, options, next, child, timedOut, code, results, kept>>

(* The batch is interrupted: its pipeline, in another session, is not; or  *)
(* the whole container stops.                                              *)
Interrupt ==
  /\ pc \notin Dead
  /\ pc' = "interrupted"
  /\ UNCHANGED <<tvars, starts, resume, options, next, child, timedOut, code, results, kept, summary>>

Halt ==
  /\ pc \notin Dead
  /\ pc' = "interrupted"
  /\ run' = [r \in Runs |-> IF run[r].pc \in Working
                            THEN [run[r] EXCEPT !.pc = "killed", !.tool = None]
                            ELSE [run[r] EXCEPT !.tool = None]]
  /\ UNCHANGED <<dir, starts, resume, options, next, child, timedOut, code, results, kept, summary>>

Work ==
  \/ Reuse \/ Preserve \/ Launch \/ Exited \/ TimeOut \/ Drain \/ Save
  \/ WriteSummary \/ Finish

Pipeline(r) == (Step(r) \/ ToolEnds(r, "script")) /\ UNCHANGED bvars
EngineEnds(r) == ToolEnds(r, "engine") /\ UNCHANGED bvars

(* Nothing is left to do.                                                  *)
Rest ==
  /\ pc \in Dead /\ starts = MaxStarts
  /\ \A r \in Runs : run[r].pc \notin Working /\ run[r].tool = None
  /\ UNCHANGED vars

Next ==
  \/ \E o \in Options, again \in BOOLEAN : Start(o, again)
  \/ Work
  \/ Interrupt
  \/ Halt
  \/ \E r \in Runs : Pipeline(r)
  \/ \E r \in Runs : EngineEnds(r)
  \/ Rest

Spec == Init /\ [][Next]_vars

(* The batch goes on while it lives; a pipeline either ends or is killed   *)
(* when its time is over, and a build script ends.                         *)
FairSpec == Spec /\ WF_vars(Work) /\ \A r \in Runs : WF_vars(Pipeline(r))

-----------------------------------------------------------------------------
(* A target that is reported as completed was run to its end by the        *)
(* pipeline the batch started for it: that process, not one left over from *)
(* an earlier batch, finished the campaign (or all of a build-only run)    *)
(* and exited with 0.                                                      *)
CompletedIsWhole ==
  \A t \in Targets :
    dir[t].result # None /\ dir[t].result.status = "completed" =>
      LET r == dir[t].result.by IN
      r \in Runs /\ run[r].target = t /\ run[r].pc = "exit" /\ run[r].rc = 0 /\ run[r].won

(* A summary that says it is complete gives every target's result file, in *)
(* the order of the targets, whatever was interrupted and resumed, and it  *)
(* counts as completed the targets whose campaign has that status.         *)
SummaryIsTrue ==
  summary # None /\ summary.complete =>
    \E o \in Options :
      /\ summary.options = BatchOptions(o)
      /\ summary.results = [i \in DOMAIN List(o) |-> dir[List(o)[i]].result]
      /\ summary.counts.completed =
           Cardinality({i \in DOMAIN List(o) :
                          dir[List(o)[i]].result.execution.campaign = "completed"})

(* Every batch that is started comes to an end, however its pipelines      *)
(* behave: they have a time limit, and so has whatever they started.  A    *)
(* batch in coverage mode is left out: see EngineEnds.                     *)
BatchEnds == [](pc \notin Dead /\ ~options.coverage => <>(pc \in Dead))
=============================================================================
