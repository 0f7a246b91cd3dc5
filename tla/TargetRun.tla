----------------------------- MODULE TargetRun -----------------------------
(***************************************************************************)
(* One target's pipeline, fuzzer/pipeline/core.py: the process that lays   *)
(* out a run directory, builds the target, plans, prepares the bundle,     *)
(* runs the campaign and writes the public report.  Several of these       *)
(* processes may be alive: a batch starts each in a session of its own, so *)
(* one outlives a batch that is interrupted and goes on writing to its run *)
(* directory by name, whoever uses that name by then.                      *)
(***************************************************************************)
EXTENDS Naturals

CONSTANTS
  Targets,    \* the run directories, a name each
  MaxRuns,    \* the number of pipeline processes that may be started
  None

ASSUME RunsAssumption == MaxRuns \in Nat \ {0}
ASSUME NoneAssumption == None \notin 1 .. MaxRuns

Runs == 1 .. MaxRuns

VARIABLES
  run,    \* the pipeline processes
  dir     \* the run directories

tvars == <<run, dir>>

Ended == {"exit", "killed"}
Working == {"layout", "build", "plan", "bundle", "campaign", "fuzz", "report"}

(* A run directory, as far as a batch reads it.  `failed' is the last      *)
(* failure event of events.jsonl, `native' the engine status in the        *)
(* campaign's report.json and `full' says that the engine summary has the  *)
(* whole duration; `public' is the status of the vulnerability report.     *)
Empty == [there |-> FALSE, planned |-> FALSE, abi |-> FALSE, failed |-> None,
          native |-> None, full |-> FALSE, public |-> None, result |-> None]

Failures == {"build_failed", "campaign_failed"}

(* `won' remembers that the campaign, or all of a build-only run, was done;*)
(* `tool' is the build script or the coverage engine it waits for, which   *)
(* run_command starts in a session of its own with the pipeline's output.  *)
Idle == [pc |-> "idle", target |-> None, coverage |-> FALSE, only |-> FALSE, skip |-> FALSE,
         rc |-> 0, won |-> FALSE, tool |-> None]

At(r, pc) == run[r].pc = pc
Where(r) == run[r].target

Goto(r, pc) == run' = [run EXCEPT ![r].pc = pc]
Fail(r, pc) == run' = [run EXCEPT ![r].pc = pc, ![r].rc = 1, ![r].tool = None]
Put(r, d) == dir' = [dir EXCEPT ![Where(r)] = d]

TInit ==
  /\ run = [r \in Runs |-> Idle]
  /\ dir = [t \in Targets |-> Empty]

(* create_layout refuses a directory with results; an unreadable source    *)
(* ends the process before there is anything to report.                    *)
CreateLayout(r) ==
  /\ At(r, "layout")
  /\ \/ /\ dir[Where(r)].there
        /\ Fail(r, "exit")
        /\ UNCHANGED dir
     \/ /\ ~dir[Where(r)].there
        /\ Put(r, [Empty EXCEPT !.there = TRUE])
        /\ \/ run' = [run EXCEPT ![r].pc = "build", ![r].tool = "script"]
           \/ Fail(r, "exit")

(* A failure is recorded as the last event and in campaign-status.json     *)
(* before the report is tried.  Both go to the run directory: where it is  *)
(* gone, recording fails as well and the process ends without a report.    *)
Record(r, event) ==
  \/ /\ dir[Where(r)].there
     /\ Put(r, [dir[Where(r)] EXCEPT !.failed = event])
     /\ Fail(r, "report")
  \/ /\ ~dir[Where(r)].there
     /\ UNCHANGED dir
     /\ Fail(r, "exit")

(* compile_st.sh and build_target.sh under one deadline, waited for by     *)
(* run_command, which ends them when it is over.                           *)
BuildTargets(r) ==
  /\ At(r, "build")
  /\ \/ /\ dir[Where(r)].there
        /\ run' = [run EXCEPT ![r].pc = "plan", ![r].tool = None]
        /\ UNCHANGED dir
     \/ Record(r, "build_failed")

(* Coverage mode has neither a bundle nor a campaign of its own.           *)
AfterPlan(p) ==
  IF ~p.coverage THEN [p EXCEPT !.pc = "bundle"]
  ELSE IF p.only THEN [p EXCEPT !.pc = "report", !.won = TRUE]
  ELSE [p EXCEPT !.pc = "fuzz", !.tool = "engine"]

Plan(r) ==
  /\ At(r, "plan")
  /\ \/ /\ dir[Where(r)].there
        /\ Put(r, [dir[Where(r)] EXCEPT !.planned = TRUE])
        /\ run' = [run EXCEPT ![r] = AfterPlan(@)]
     \/ Record(r, "campaign_failed")

(* prepare_bundle makes the bundle directory with its parents, so it works *)
(* on a name whose directory was moved away; the goal tasks then miss the  *)
(* plan that was written before.                                           *)
PrepareBundle(r) ==
  LET d == [dir[Where(r)] EXCEPT !.there = TRUE, !.abi = TRUE] IN
  /\ At(r, "bundle")
  /\ \/ /\ d.planned
        /\ Put(r, d)
        /\ run' = [run EXCEPT ![r].pc = IF run[r].only THEN "report" ELSE "campaign",
                              ![r].won = run[r].only]
     \/ /\ Put(r, [d EXCEPT !.failed = "campaign_failed"])
        /\ Fail(r, "report")

(* campaign.json first: where that fails nothing is recorded.  A campaign  *)
(* that fails may have written its report.json with the engine's status.   *)
RunCampaign(r) ==
  LET d == dir[Where(r)] IN
  /\ At(r, "campaign")
  /\ \/ /\ d.there
        /\ \E full \in BOOLEAN :
             Put(r, [d EXCEPT !.native = "completed", !.full = full])
        /\ run' = [run EXCEPT ![r].pc = "report", ![r].won = TRUE]
     \/ /\ d.there
        /\ \E native \in {d.native, "FAILED", "TIMEOUT"} :
             Put(r, [d EXCEPT !.native = native, !.failed = "campaign_failed"])
        /\ Fail(r, "report")
     \/ /\ ~d.there
        /\ UNCHANGED dir
        /\ Fail(r, "report")

(* Coverage mode: the engine ends, or run_command ends it when the time is *)
(* over.  An engine that fails is not recorded as a failure.               *)
LaunchFuzzer(r) ==
  /\ At(r, "fuzz")
  /\ \/ /\ dir[Where(r)].there
        /\ run' = [run EXCEPT ![r].pc = "report", ![r].won = TRUE, ![r].tool = None]
     \/ Fail(r, "report")
  /\ UNCHANGED dir

(* write_vulnerability_report: a failure of the build or the campaign      *)
(* decides the status.  The report directory too is made with its parents. *)
WriteReport(r) ==
  LET d == dir[Where(r)] IN
  /\ At(r, "report")
  /\ \/ /\ run[r].skip
        /\ UNCHANGED dir
        /\ Goto(r, "exit")
     \/ /\ ~run[r].skip
        /\ Put(r, [d EXCEPT !.there = TRUE,
                            !.public = IF d.failed # None THEN d.failed ELSE "reported"])
        /\ Goto(r, "exit")
     \/ /\ ~run[r].skip
        /\ UNCHANGED dir
        /\ Fail(r, "exit")

(* What a killed pipeline waited for lives on: a build script ends by      *)
(* itself, the coverage engine was not told its time limit and may not.    *)
ToolEnds(r, tool) ==
  /\ run[r].pc \in Ended
  /\ run[r].tool = tool
  /\ run' = [run EXCEPT ![r].tool = None]
  /\ UNCHANGED dir

Step(r) ==
  \/ CreateLayout(r) \/ BuildTargets(r) \/ Plan(r) \/ PrepareBundle(r)
  \/ RunCampaign(r) \/ LaunchFuzzer(r) \/ WriteReport(r)
=============================================================================
