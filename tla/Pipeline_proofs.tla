--------------------------- MODULE Pipeline_proofs ---------------------------
(***************************************************************************)
(* Proofs about the pipeline of a target.                                  *)
(*                                                                         *)
(* Of Batch, which runs it over many targets: whatever is interrupted,     *)
(* resumed or left running, a target reported as completed was run to its  *)
(* end by the pipeline started for it, and a complete summary is what the  *)
(* result files say.                                                       *)
(*                                                                         *)
(* Of Preparation, which is what it does before its search: a task is      *)
(* given one cycle only if nothing it calls could need more, a search that *)
(* is not marked as truncated has found every path, and no target is       *)
(* forgotten.                                                              *)
(***************************************************************************)
EXTENDS Batch, Preparation, NaturalsInduction, WellFoundedInduction, SequenceTheorems,
        FiniteSetTheorems, TLAPS


-----------------------------------------------------------------------------
(* Types.                                                                  *)

Process ==
  [pc : {"idle"} \cup Working \cup Ended, target : Targets \cup {None}, coverage : BOOLEAN,
   only : BOOLEAN, skip : BOOLEAN, rc : {0, 1}, won : BOOLEAN, tool : {None, "script", "engine"}]

Directory ==
  [there : BOOLEAN, planned : BOOLEAN, abi : BOOLEAN, failed : Failures \cup {None},
   native : {None, "completed", "FAILED", "TIMEOUT"}, full : BOOLEAN,
   public : Failures \cup {None, "reported"}, result : Results \cup {None}]

(* The pipelines and the run directories.  Where a result file is, the     *)
(* directory is; a pipeline that ends with 0 has done its work.            *)
TargetsInv ==
  /\ run \in [Runs -> Process]
  /\ dir \in [Targets -> Directory]
  /\ \A r \in Runs : run[r].pc \in Working => run[r].target \in Targets
  /\ \A r \in Runs : run[r].pc \in {"report", "exit"} /\ run[r].rc = 0 => run[r].won
  /\ \A t \in Targets : dir[t].result # None => dir[t].there

BatchPoints == Dead \cup {"target", "launch", "wait", "drain", "judge", "summary"}
Busy == {"launch", "wait", "drain", "judge"}

BatchTypes ==
  /\ pc \in BatchPoints
  /\ pc # "off" => options \in Options
  /\ next \in Nat \ {0}
  /\ child \in Runs \cup {None}
  /\ timedOut \in BOOLEAN
  /\ code \in {0, 1, 127}
  /\ results \in Seq(Results)
  /\ pc \in Busy \cup {"summary"} => More

(* The lists of targets are sequences without repetition. *)
LEMMA ListFacts ==
  ASSUME NEW o \in Options
  PROVE  /\ List(o) \in Seq(Targets) /\ Len(List(o)) \in Nat
         /\ DOMAIN List(o) = 1 .. Len(List(o))
         /\ \A i \in DOMAIN List(o) : List(o)[i] \in Targets
         /\ \A i, j \in DOMAIN List(o) : List(o)[i] = List(o)[j] => i = j
<1>1. List(o) \in Seq(Targets) /\ IsInjective(List(o)) BY ListAssumption
<1>2. \A i, j \in DOMAIN List(o) : List(o)[i] = List(o)[j] => i = j BY <1>1 DEF IsInjective
<1> QED BY <1>1, <1>2

(* The target a batch is at is one of its list. *)
LEMMA HereIsTarget ==
  ASSUME BatchTypes, pc # "off", More
  PROVE  Here \in Targets /\ options \in Options
BY ListFacts DEF BatchTypes, More, Here

-----------------------------------------------------------------------------
(* One step of a pipeline.                                                 *)

(* What a step of pipeline r leaves alone: the other pipelines, the target *)
(* it works for, and every result file.                                    *)
StepOf(r) ==
  /\ run[r].pc \in Working
  /\ run' \in [Runs -> Process]
  /\ \A q \in Runs : q # r => run'[q] = run[q]
  /\ run'[r].target = run[r].target /\ run'[r].pc # "idle"
  /\ run'[r].pc \in {"report", "exit"} /\ run'[r].rc = 0 => run'[r].won

(* A directory written to keeps its result file. *)
LEMMA PutFacts ==
  ASSUME TargetsInv, NEW r \in Runs, run[r].pc \in Working, NEW d \in Directory, Put(r, d),
         d.result = dir[Where(r)].result, d.result # None => d.there
  PROVE  /\ dir' \in [Targets -> Directory]
         /\ \A t \in Targets : dir'[t].result = dir[t].result
         /\ \A t \in Targets : dir'[t].result # None => dir'[t].there
<1>1. Where(r) \in Targets BY DEF TargetsInv, Where
<1>2. dir' = [dir EXCEPT ![Where(r)] = d] BY DEF Put
<1>3. dir \in [Targets -> Directory] BY DEF TargetsInv
<1>4. dir'[Where(r)] = d /\ \A t \in Targets \ {Where(r)} : dir'[t] = dir[t] BY <1>1, <1>2, <1>3
<1> QED BY <1>1, <1>2, <1>3, <1>4 DEF TargetsInv

(* A failing pipeline has a return code that is not 0. *)
LEMMA FailFacts ==
  ASSUME TargetsInv, NEW r \in Runs, run[r].pc \in Working, NEW p \in {"report", "exit"}, Fail(r, p)
  PROVE  StepOf(r)
<1>1. run[r] \in Process /\ run \in [Runs -> Process] BY DEF TargetsInv
<1>2. run' = [run EXCEPT ![r] = [run[r] EXCEPT !.pc = p, !.rc = 1, !.tool = None]]
  BY <1>1 DEF Fail, Process
<1>3. [run[r] EXCEPT !.pc = p, !.rc = 1, !.tool = None] \in Process BY <1>1 DEF Process, Working, Ended
<1>4. /\ [run[r] EXCEPT !.pc = p, !.rc = 1, !.tool = None].rc = 1
      /\ [run[r] EXCEPT !.pc = p, !.rc = 1, !.tool = None].pc = p
      /\ [run[r] EXCEPT !.pc = p, !.rc = 1, !.tool = None].target = run[r].target
  BY <1>1 DEF Process
<1> QED BY <1>1, <1>2, <1>3, <1>4 DEF StepOf

(* Any other step of a pipeline is described by what becomes of it. *)
LEMMA MoveFacts ==
  ASSUME TargetsInv, NEW r \in Runs, run[r].pc \in Working, NEW p \in Process,
         run' = [run EXCEPT ![r] = p], p.target = run[r].target, p.pc # "idle",
         p.pc \in {"report", "exit"} /\ p.rc = 0 => p.won
  PROVE  StepOf(r)
<1>1. run \in [Runs -> Process] BY DEF TargetsInv
<1>2. run'[r] = p /\ \A q \in Runs : q # r => run'[q] = run[q] BY <1>1
<1>3. run' \in [Runs -> Process] BY <1>1
<1> QED BY <1>2, <1>3 DEF StepOf

(* What a pipeline may do to the directories. *)
DirsKept ==
  /\ dir' \in [Targets -> Directory]
  /\ \A t \in Targets : dir'[t].result = dir[t].result
  /\ \A t \in Targets : dir'[t].result # None => dir'[t].there

(* No change is one of them. *)
LEMMA SameDirs ==
  ASSUME TargetsInv, UNCHANGED dir
  PROVE  DirsKept
BY DEF TargetsInv, DirsKept

(* Recording a failure. *)
LEMMA RecordFacts ==
  ASSUME TargetsInv, NEW r \in Runs, run[r].pc \in Working, NEW e \in Failures, Record(r, e)
  PROVE  StepOf(r) /\ DirsKept
<1>0. Where(r) \in Targets /\ dir[Where(r)] \in Directory BY DEF TargetsInv, Where
<1>1. StepOf(r) BY FailFacts DEF Record
<1>2. CASE dir[Where(r)].there /\ Put(r, [dir[Where(r)] EXCEPT !.failed = e])
  <2> DEFINE d == [dir[Where(r)] EXCEPT !.failed = e]
  <2>1. d \in Directory /\ d.result = dir[Where(r)].result /\ d.there = dir[Where(r)].there
    BY <1>0 DEF Directory
  <2> HIDE DEF d
  <2>2. DirsKept BY <1>2, <2>1, PutFacts DEF DirsKept, d
  <2> QED BY <1>1, <2>2
<1>3. CASE UNCHANGED dir BY <1>1, <1>3, SameDirs
<1> QED BY <1>2, <1>3 DEF Record

(* Every step of a pipeline. *)
LEMMA StepFacts ==
  ASSUME TargetsInv, NEW r \in Runs, Step(r)
  PROVE  StepOf(r) /\ DirsKept
<1> DEFINE p == run[r]
           d == dir[Where(r)]
<1>0. run[r].pc \in Working
  BY DEF Step, CreateLayout, BuildTargets, Plan, PrepareBundle, RunCampaign, LaunchFuzzer,
         WriteReport, At, Working
<1>1. p \in Process /\ d \in Directory /\ run \in [Runs -> Process] BY <1>0 DEF TargetsInv, Where
<1>2. d.result # None => d.there BY <1>0 DEF TargetsInv, Where
<1>3. CASE CreateLayout(r)
  <2>1. CASE Fail(r, "exit") /\ UNCHANGED dir BY <1>0, <2>1, FailFacts, SameDirs
  <2>2. CASE ~d.there /\ Put(r, [Empty EXCEPT !.there = TRUE])
    <3>1. d.result = None BY <1>2, <2>2
    <3> DEFINE e == [Empty EXCEPT !.there = TRUE]
    <3>2. e \in Directory /\ e.result = None BY DEF Empty, Directory
    <3> HIDE DEF e
    <3>3. DirsKept BY <1>0, <2>2, <3>1, <3>2, PutFacts DEF DirsKept, e
    <3>4. CASE Fail(r, "exit") BY <1>0, <3>3, <3>4, FailFacts
    <3>5. CASE run' = [run EXCEPT ![r].pc = "build", ![r].tool = "script"]
      <4> DEFINE q == [p EXCEPT !.pc = "build", !.tool = "script"]
      <4>1. q \in Process /\ q.target = p.target /\ q.pc = "build" BY <1>1 DEF Process, Working
      <4>2. run' = [run EXCEPT ![r] = q] BY <1>1, <3>5 DEF Process
      <4> HIDE DEF q
      <4> QED BY <1>0, <3>3, <4>1, <4>2, MoveFacts
    <3> QED BY <1>3, <2>2, <3>4, <3>5 DEF CreateLayout
  <2> QED BY <1>3, <2>1, <2>2 DEF CreateLayout
<1>4. CASE BuildTargets(r)
  <2>1. CASE Record(r, "build_failed") BY <1>0, <2>1, RecordFacts DEF Failures
  <2>2. CASE run' = [run EXCEPT ![r].pc = "plan", ![r].tool = None] /\ UNCHANGED dir
    <3> DEFINE q == [p EXCEPT !.pc = "plan", !.tool = None]
    <3>1. q \in Process /\ q.target = p.target /\ q.pc = "plan" BY <1>1 DEF Process, Working
    <3>2. run' = [run EXCEPT ![r] = q] BY <1>1, <2>2 DEF Process
    <3> HIDE DEF q
    <3> QED BY <1>0, <2>2, <3>1, <3>2, MoveFacts, SameDirs
  <2> QED BY <1>4, <2>1, <2>2 DEF BuildTargets
<1>5. CASE Plan(r)
  <2>1. CASE Record(r, "campaign_failed") BY <1>0, <2>1, RecordFacts DEF Failures
  <2>2. CASE /\ Put(r, [d EXCEPT !.planned = TRUE])
             /\ run' = [run EXCEPT ![r] = AfterPlan(run[r])]
    <3> DEFINE q == AfterPlan(p)
               e == [d EXCEPT !.planned = TRUE]
    <3>1. e \in Directory /\ e.result = d.result /\ e.there = d.there BY <1>1 DEF Directory
    <3>2. /\ q \in Process /\ q.target = p.target
          /\ q.pc \in {"bundle", "report", "fuzz"} /\ (q.pc = "report" => q.won)
      BY <1>1 DEF Process, Working, AfterPlan
    <3> HIDE DEF q, e
    <3>3. DirsKept BY <1>0, <1>2, <2>2, <3>1, PutFacts DEF DirsKept, e
    <3>4. run' = [run EXCEPT ![r] = q] BY <2>2 DEF q
    <3> QED BY <1>0, <3>2, <3>3, <3>4, MoveFacts
  <2> QED BY <1>1, <1>5, <2>1, <2>2 DEF Plan
<1>6. CASE PrepareBundle(r)
  <2> DEFINE e == [d EXCEPT !.there = TRUE, !.abi = TRUE]
             f == [e EXCEPT !.failed = "campaign_failed"]
  <2>1. /\ e \in Directory /\ e.result = d.result /\ e.there
        /\ f \in Directory /\ f.result = d.result /\ f.there
    BY <1>1 DEF Directory, Failures
  <2>2. CASE Put(r, f) /\ Fail(r, "report")
    <3> HIDE DEF e, f
    <3>1. DirsKept BY <1>0, <2>1, <2>2, PutFacts DEF DirsKept
    <3> QED BY <1>0, <2>2, <3>1, FailFacts
  <2>3. CASE /\ Put(r, e)
             /\ run' = [run EXCEPT ![r].pc = IF run[r].only THEN "report" ELSE "campaign",
                                   ![r].won = run[r].only]
    <3> DEFINE q == [p EXCEPT !.pc = IF p.only THEN "report" ELSE "campaign", !.won = p.only]
    <3>1. /\ q \in Process /\ q.target = p.target
          /\ q.pc \in {"report", "campaign"} /\ (q.pc = "report" => q.won)
      BY <1>1 DEF Process, Working
    <3>2. run' = [run EXCEPT ![r] = q] BY <1>1, <2>3 DEF Process
    <3> HIDE DEF e, f, q
    <3>3. DirsKept BY <1>0, <2>1, <2>3, PutFacts DEF DirsKept
    <3> QED BY <1>0, <3>1, <3>2, <3>3, MoveFacts
  <2> QED BY <1>6, <2>2, <2>3 DEF PrepareBundle
<1>7. CASE RunCampaign(r)
  <2>1. CASE UNCHANGED dir /\ Fail(r, "report") BY <1>0, <2>1, FailFacts, SameDirs
  <2>2. CASE /\ \E native \in {d.native, "FAILED", "TIMEOUT"} :
                  Put(r, [d EXCEPT !.native = native, !.failed = "campaign_failed"])
             /\ Fail(r, "report")
    <3>1. PICK native \in {d.native, "FAILED", "TIMEOUT"} :
            Put(r, [d EXCEPT !.native = native, !.failed = "campaign_failed"])
      BY <2>2
    <3> DEFINE e == [d EXCEPT !.native = native, !.failed = "campaign_failed"]
    <3>2. e \in Directory /\ e.result = d.result /\ e.there = d.there
      BY <1>1 DEF Directory, Failures
    <3> HIDE DEF e
    <3>3. DirsKept BY <1>0, <1>2, <3>1, <3>2, PutFacts DEF DirsKept, e
    <3> QED BY <1>0, <2>2, <3>3, FailFacts
  <2>3. CASE /\ \E full \in BOOLEAN : Put(r, [d EXCEPT !.native = "completed", !.full = full])
             /\ run' = [run EXCEPT ![r].pc = "report", ![r].won = TRUE]
    <3>1. PICK full \in BOOLEAN : Put(r, [d EXCEPT !.native = "completed", !.full = full])
      BY <2>3
    <3> DEFINE e == [d EXCEPT !.native = "completed", !.full = full]
               q == [p EXCEPT !.pc = "report", !.won = TRUE]
    <3>2. e \in Directory /\ e.result = d.result /\ e.there = d.there BY <1>1 DEF Directory
    <3>3. q \in Process /\ q.target = p.target /\ q.pc = "report" /\ q.won
      BY <1>1 DEF Process, Working
    <3>4. run' = [run EXCEPT ![r] = q] BY <1>1, <2>3 DEF Process
    <3> HIDE DEF e, q
    <3>5. DirsKept BY <1>0, <1>2, <3>1, <3>2, PutFacts DEF DirsKept, e
    <3> QED BY <1>0, <3>3, <3>4, <3>5, MoveFacts
  <2> QED BY <1>7, <2>1, <2>2, <2>3 DEF RunCampaign
<1>8. CASE LaunchFuzzer(r)
  <2>1. DirsKept BY <1>8, SameDirs DEF LaunchFuzzer
  <2>2. CASE Fail(r, "report") BY <1>0, <2>1, <2>2, FailFacts
  <2>3. CASE run' = [run EXCEPT ![r].pc = "report", ![r].won = TRUE, ![r].tool = None]
    <3> DEFINE q == [p EXCEPT !.pc = "report", !.won = TRUE, !.tool = None]
    <3>1. q \in Process /\ q.target = p.target /\ q.pc = "report" /\ q.won
      BY <1>1 DEF Process, Working
    <3>2. run' = [run EXCEPT ![r] = q] BY <1>1, <2>3 DEF Process
    <3> HIDE DEF q
    <3> QED BY <1>0, <2>1, <3>1, <3>2, MoveFacts
  <2> QED BY <1>8, <2>2, <2>3 DEF LaunchFuzzer
<1>9. CASE WriteReport(r)
  <2>0. p.pc = "report" BY <1>9 DEF WriteReport, At
  <2>1. p.rc = 0 => p.won BY <2>0 DEF TargetsInv
  <2>2. Goto(r, "exit") => StepOf(r)
    <3> SUFFICES ASSUME Goto(r, "exit") PROVE StepOf(r) OBVIOUS
    <3> DEFINE q == [p EXCEPT !.pc = "exit"]
    <3>1. q \in Process /\ q.target = p.target /\ q.pc = "exit" /\ q.rc = p.rc /\ q.won = p.won
      BY <1>1 DEF Process, Ended
    <3>2. run' = [run EXCEPT ![r] = q] BY <1>1 DEF Process, Goto
    <3> HIDE DEF q
    <3> QED BY <1>0, <2>1, <3>1, <3>2, MoveFacts
  <2>3. CASE UNCHANGED dir BY <1>0, <1>9, <2>2, <2>3, FailFacts, SameDirs DEF WriteReport
  <2>4. CASE /\ Goto(r, "exit")
             /\ Put(r, [d EXCEPT !.there = TRUE,
                                 !.public = IF d.failed # None THEN d.failed ELSE "reported"])
    <3> DEFINE e == [d EXCEPT !.there = TRUE,
                              !.public = IF d.failed # None THEN d.failed ELSE "reported"]
    <3>1. e \in Directory /\ e.result = d.result /\ e.there BY <1>1 DEF Directory
    <3> HIDE DEF e
    <3>2. DirsKept BY <1>0, <2>4, <3>1, PutFacts DEF DirsKept, e
    <3> QED BY <2>2, <2>4, <3>2
  <2> QED BY <1>9, <2>3, <2>4 DEF WriteReport
<1> QED BY <1>3, <1>4, <1>5, <1>6, <1>7, <1>8, <1>9 DEF Step
-----------------------------------------------------------------------------
(* The pipelines under every step of the system.                           *)

(* No step takes a pipeline's target away or revives one that has exited.  *)
RunsKept ==
  /\ run' \in [Runs -> Process]
  /\ \A r \in Runs : run'[r].pc \in Working => run'[r].target \in Targets
  /\ \A r \in Runs : run'[r].pc \in {"report", "exit"} /\ run'[r].rc = 0 => run'[r].won
  /\ \A r \in Runs : run[r].pc # "idle" => run'[r].pc # "idle" /\ run'[r].target = run[r].target
  /\ \A r \in Runs : run[r].pc = "exit" =>
       run'[r].pc = "exit" /\ run'[r].rc = run[r].rc /\ run'[r].won = run[r].won

(* Pipelines that are left alone. *)
LEMMA SameRuns ==
  ASSUME TargetsInv, UNCHANGED run
  PROVE  RunsKept
BY DEF TargetsInv, RunsKept

(* A pipeline or one of its tools moves on. *)
LEMMA PipelineFacts ==
  ASSUME TargetsInv, NEW r \in Runs, Step(r) \/ \E tool \in {"script", "engine"} : ToolEnds(r, tool)
  PROVE  RunsKept /\ DirsKept
<1>0. run \in [Runs -> Process] /\ run[r] \in Process BY DEF TargetsInv
<1>1. CASE Step(r)
  <2>1. StepOf(r) /\ DirsKept BY <1>1, StepFacts
  <2>2. run[r].pc # "exit" /\ run[r].pc # "idle" /\ run[r].target \in Targets
    BY <2>1 DEF StepOf, Working, TargetsInv
  <2>3. run'[r].target \in Targets BY <2>1, <2>2 DEF StepOf
  <2> QED BY <2>1, <2>2, <2>3 DEF StepOf, RunsKept, TargetsInv
<1>2. CASE \E tool \in {"script", "engine"} : ToolEnds(r, tool)
  <2> DEFINE q == [run[r] EXCEPT !.tool = None]
  <2>1. /\ q \in Process /\ q.pc = run[r].pc /\ q.target = run[r].target
        /\ q.rc = run[r].rc /\ q.won = run[r].won
    BY <1>0 DEF Process
  <2>2. run' = [run EXCEPT ![r] = q] BY <1>0, <1>2 DEF ToolEnds, Process
  <2>3. DirsKept BY <1>2, SameDirs DEF ToolEnds
  <2> HIDE DEF q
  <2>4. run'[r] = q /\ \A s \in Runs : s # r => run'[s] = run[s] BY <1>0, <2>2
  <2>5. run' \in [Runs -> Process] BY <1>0, <2>1, <2>2
  <2> QED BY <2>1, <2>3, <2>4, <2>5 DEF RunsKept, TargetsInv
<1> QED BY <1>1, <1>2

(* Every pipeline is stopped with its tools. *)
LEMMA HaltFacts ==
  ASSUME TargetsInv, Halt
  PROVE  RunsKept
<1> DEFINE F(r) == IF run[r].pc \in Working
                   THEN [run[r] EXCEPT !.pc = "killed", !.tool = None]
                   ELSE [run[r] EXCEPT !.tool = None]
<1>1. run' = [r \in Runs |-> F(r)] BY DEF Halt
<1>2. ASSUME NEW r \in Runs
      PROVE  /\ F(r) \in Process /\ F(r).target = run[r].target
             /\ run[r].pc \in Working => F(r).pc = "killed"
             /\ run[r].pc \notin Working => F(r).pc = run[r].pc /\ F(r).rc = run[r].rc
                                              /\ F(r).won = run[r].won
  <2>1. run[r] \in Process BY DEF TargetsInv
  <2> QED BY <2>1 DEF Process, Ended
<1> HIDE DEF F
<1>3. \A r \in Runs : run'[r] = F(r) BY <1>1
<1>4. run' \in [Runs -> Process] BY <1>1, <1>2
<1>5. "killed" \notin Working /\ "exit" \notin Working /\ "idle" \notin Working BY DEF Working
<1>6. ASSUME NEW r \in Runs
      PROVE  /\ run'[r].pc \notin Working
             /\ run'[r].pc \in {"report", "exit"} /\ run'[r].rc = 0 => run'[r].won
             /\ run[r].pc # "idle" => run'[r].pc # "idle" /\ run'[r].target = run[r].target
             /\ run[r].pc = "exit" => run'[r].pc = "exit" /\ run'[r].rc = run[r].rc
                                      /\ run'[r].won = run[r].won
  <2>1. CASE run[r].pc \in Working BY <1>2, <1>3, <1>5, <2>1
  <2>2. CASE run[r].pc \notin Working BY <1>2, <1>3, <1>5, <2>2 DEF TargetsInv
  <2> QED BY <2>1, <2>2
<1> QED BY <1>4, <1>6 DEF RunsKept

(* The pipeline whose time is over is killed. *)
LEMMA TimeOutFacts ==
  ASSUME TargetsInv, child \in Runs, TimeOut
  PROVE  RunsKept
<1> DEFINE q == [run[child] EXCEPT !.pc = "killed"]
<1>1. run \in [Runs -> Process] /\ run[child] \in Process /\ run[child].pc \in Working
  BY DEF TargetsInv, TimeOut
<1>2. q \in Process /\ q.pc = "killed" /\ q.target = run[child].target BY <1>1 DEF Process, Ended
<1>3. run' = [run EXCEPT ![child] = q] BY <1>1 DEF TimeOut, Process
<1> HIDE DEF q
<1>4. run'[child] = q /\ \A s \in Runs : s # child => run'[s] = run[s] BY <1>1, <1>3
<1>5. run' \in [Runs -> Process] BY <1>1, <1>2, <1>3
<1>6. run[child].pc # "exit" /\ "killed" \notin Working BY <1>1 DEF Working
<1> QED BY <1>2, <1>4, <1>5, <1>6 DEF RunsKept, TargetsInv

(* A new pipeline is started for the target the batch is at. *)
LEMMA LaunchFacts ==
  ASSUME TargetsInv, BatchTypes, Launch
  PROVE  /\ RunsKept
         /\ \/ /\ pc' = "wait" /\ child' \in Runs /\ code' = code
               /\ run'[child'].pc = "layout" /\ run'[child'].target = Here
            \/ pc' = "judge" /\ code' = 127 /\ child' = child
<1>1. run \in [Runs -> Process] /\ pc = "launch" BY DEF TargetsInv, Launch
<1>2. Here \in Targets /\ options \in Options BY <1>1, HereIsTarget DEF BatchTypes, Busy
<1>3. CASE run' = run /\ child' = child /\ code' = 127 /\ pc' = "judge" BY <1>3, SameRuns
<1>4. CASE \E r \in Fresh :
             /\ run' = [run EXCEPT ![r] = [Idle EXCEPT !.pc = "layout", !.target = Here,
                                                    !.coverage = options.coverage,
                                                    !.only = options.only, !.skip = options.skip]]
             /\ child' = r /\ pc' = "wait" /\ code' = code
  <2> DEFINE q == [Idle EXCEPT !.pc = "layout", !.target = Here, !.coverage = options.coverage,
                               !.only = options.only, !.skip = options.skip]
  <2>1. PICK r \in Fresh : run' = [run EXCEPT ![r] = q] /\ child' = r /\ pc' = "wait" /\ code' = code
    BY <1>4
  <2>2. r \in Runs /\ run[r] = Idle BY <2>1 DEF Fresh
  <2>3. options.coverage \in BOOLEAN /\ options.only \in BOOLEAN /\ options.skip \in BOOLEAN
    BY <1>2, OptionsAssumption
  <2>4. q \in Process /\ q.pc = "layout" /\ q.target = Here
    BY <1>2, <2>3 DEF Process, Idle, Working
  <2> HIDE DEF q
  <2>5. run'[r] = q /\ \A s \in Runs : s # r => run'[s] = run[s] BY <1>1, <2>1, <2>2
  <2>6. run' \in [Runs -> Process] BY <1>1, <2>1, <2>2, <2>4
  <2>7. run[r].pc = "idle" BY <2>2 DEF Idle
  <2>8. RunsKept BY <1>2, <2>4, <2>5, <2>6, <2>7 DEF RunsKept, TargetsInv
  <2> QED BY <2>1, <2>2, <2>4, <2>5, <2>8
<1> QED BY <1>3, <1>4 DEF Launch

-----------------------------------------------------------------------------
(* Completed targets.                                                      *)

(* The status of a result and that of its campaign agree; completed means  *)
(* that the pipeline was started, was in time and returned 0.              *)
LEMMA ResultFacts ==
  ASSUME BatchTypes, pc = "judge", NEW d \in Directory
  PROVE  /\ Result(d) \in Results /\ Result(d) # None /\ Result(d).by = child
         /\ Result(d).status = "completed" <=> Result(d).execution.campaign = "completed"
         /\ Result(d).status = "completed" => code = 0 /\ ~timedOut
<1>1. Here \in Targets /\ options \in Options BY HereIsTarget DEF BatchTypes, Busy
<1>2. StatusOf(d) \in {"completed", "campaign_failed", "build_failed"}
  BY DEF StatusOf
<1>3. ExecutionStatus(d) \in [build : {"completed", "FAILED"},
                             campaign : {"completed", "FAILED", "TIMEOUT"}]
  BY DEF ExecutionStatus
<1>4. child \in Runs \cup {None} BY DEF BatchTypes
<1>5. Result(d) \in Results BY <1>1, <1>2, <1>3, <1>4 DEF Result, Results
<1>6. StatusOf(d) = "completed" <=>
        ~Late(d) /\ code = 0 /\ ~Failed(d) /\ ~Short(d) /\ ReadReport(d).any
  BY DEF StatusOf
<1>7. ExecutionStatus(d).campaign = "completed" <=>
        ~Late(d) /\ code = 0 /\ ~Failed(d) /\ ~Short(d) /\ ReadReport(d).any
  BY DEF ExecutionStatus
<1>8. ~Late(d) => ~timedOut BY DEF Late
<1>9. /\ Result(d).status = StatusOf(d) /\ Result(d).execution = ExecutionStatus(d)
      /\ Result(d).by = child
  BY DEF Result
<1> QED BY <1>5, <1>6, <1>7, <1>8, <1>9, NoneIsNoResult

(* The pipeline the batch waits for, and the one it judges.                *)
WholeInv ==
  /\ pc \in {"wait", "drain"} =>
       child \in Runs /\ run[child].pc # "idle" /\ run[child].target = Here
  /\ pc = "drain" => timedOut
  /\ pc = "judge" /\ code = 0 /\ ~timedOut =>
       child \in Runs /\ run[child].target = Here /\ run[child].pc = "exit" /\ run[child].rc = 0
  /\ CompletedIsWhole

(* A finished pipeline stays as it is, so what is completed stays so. *)
LEMMA CompletedStays ==
  ASSUME TargetsInv, CompletedIsWhole, RunsKept,
         \A t \in Targets : dir'[t].result = dir[t].result \/ dir'[t].result = None
  PROVE  CompletedIsWhole'
<1> SUFFICES ASSUME NEW t \in Targets, dir'[t].result # None, dir'[t].result.status = "completed"
             PROVE  /\ dir'[t].result.by \in Runs /\ run'[dir'[t].result.by].target = t
                    /\ run'[dir'[t].result.by].pc = "exit" /\ run'[dir'[t].result.by].rc = 0
                    /\ run'[dir'[t].result.by].won
  BY DEF CompletedIsWhole
<1>1. dir'[t].result = dir[t].result OBVIOUS
<1>2. PICK r : r = dir[t].result.by OBVIOUS
<1>3. r \in Runs /\ run[r].target = t /\ run[r].pc = "exit" /\ run[r].rc = 0 /\ run[r].won
  BY <1>1, <1>2 DEF CompletedIsWhole
<1> QED BY <1>1, <1>2, <1>3 DEF RunsKept

(* The directories after the batch emptied the one it is at. *)
LEMMA EmptyFacts ==
  ASSUME TargetsInv, NEW h \in Targets, dir' = [dir EXCEPT ![h] = Empty]
  PROVE  /\ dir' \in [Targets -> Directory]
         /\ dir'[h].result = None
         /\ \A t \in Targets : t # h => dir'[t] = dir[t]
         /\ \A t \in Targets : dir'[t].result # None => dir'[t].there
<1>1. Empty \in Directory /\ Empty.result = None BY DEF Empty, Directory
<1>2. dir \in [Targets -> Directory] BY DEF TargetsInv
<1>3. dir'[h] = Empty /\ \A t \in Targets : t # h => dir'[t] = dir[t] BY <1>2
<1> QED BY <1>1, <1>2, <1>3 DEF TargetsInv

(* The directories after a result file was put in place. *)
LEMMA SaveFacts ==
  ASSUME TargetsInv, BatchTypes, Save
  PROVE  /\ Here \in Targets
         /\ dir' \in [Targets -> Directory]
         /\ dir'[Here].result = Result(dir[Here])
         /\ \A t \in Targets : t # Here => dir'[t] = dir[t]
         /\ \A t \in Targets : dir'[t].result # None => dir'[t].there
<1>1. pc = "judge" BY DEF Save
<1>2. Here \in Targets BY <1>1, HereIsTarget DEF BatchTypes, Busy
<1>3. dir \in [Targets -> Directory] /\ dir[Here] \in Directory BY <1>2 DEF TargetsInv
<1>4. Result(dir[Here]) \in Results BY <1>1, <1>3, ResultFacts
<1> DEFINE e == [dir[Here] EXCEPT !.there = TRUE, !.result = Result(dir[Here])]
<1>5. e \in Directory /\ e.there /\ e.result = Result(dir[Here]) BY <1>3, <1>4 DEF Directory
<1>6. dir' = [dir EXCEPT ![Here] = e] BY <1>2, <1>3 DEF Save, Directory
<1> HIDE DEF e
<1>7. dir'[Here] = e /\ \A t \in Targets : t # Here => dir'[t] = dir[t] BY <1>2, <1>3, <1>6
<1> QED BY <1>2, <1>3, <1>5, <1>6, <1>7 DEF TargetsInv

(* Every step keeps what is known of the pipelines and the directories. *)
LEMMA NextTargets ==
  ASSUME TargetsInv, BatchTypes, WholeInv, [Next]_vars
  PROVE  TargetsInv' /\ RunsKept
<1>1. RunsKept /\ DirsKept => TargetsInv' BY DEF RunsKept, DirsKept, TargetsInv
<1>2. ASSUME RunsKept, dir' \in [Targets -> Directory],
             \A t \in Targets : dir'[t].result # None => dir'[t].there
      PROVE  TargetsInv'
  BY <1>2 DEF RunsKept, TargetsInv
<1>3. CASE UNCHANGED tvars BY <1>1, <1>3, SameRuns, SameDirs DEF tvars
<1>4. ASSUME NEW r \in Runs, Pipeline(r) \/ EngineEnds(r) PROVE TargetsInv' /\ RunsKept
  BY <1>1, <1>4, PipelineFacts DEF Pipeline, EngineEnds
<1>5. CASE Halt BY <1>1, <1>5, HaltFacts, SameDirs DEF Halt
<1>6. CASE TimeOut
  <2>1. child \in Runs BY <1>6 DEF TimeOut, WholeInv
  <2> QED BY <1>1, <1>6, <2>1, TimeOutFacts, SameDirs DEF TimeOut
<1>7. CASE Launch
  <2>1. Here \in Targets BY <1>7, HereIsTarget DEF Launch, BatchTypes, Busy
  <2>2. dir' = [dir EXCEPT ![Here] = Empty] BY <1>7 DEF Launch
  <2>3. RunsKept BY <1>7, LaunchFacts
  <2> QED BY <1>2, <2>1, <2>2, <2>3, EmptyFacts
<1>8. CASE Preserve
  <2>1. Here \in Targets BY <1>8, HereIsTarget DEF Preserve
  <2>2. dir' = [dir EXCEPT ![Here] = Empty] \/ dir' = dir BY <1>8 DEF Preserve
  <2>3. RunsKept BY <1>8, SameRuns DEF Preserve
  <2>4. CASE dir' = [dir EXCEPT ![Here] = Empty] BY <1>2, <2>1, <2>3, <2>4, EmptyFacts
  <2>5. CASE dir' = dir BY <1>1, <2>3, <2>5, SameDirs
  <2> QED BY <2>2, <2>4, <2>5
<1>9. CASE Save
  <2>1. RunsKept BY <1>9, SameRuns DEF Save
  <2> QED BY <1>2, <1>9, <2>1, SaveFacts
<1>10. CASE \E o \in Options, again \in BOOLEAN : Start(o, again) BY <1>3, <1>10 DEF Start
<1>11. CASE Reuse \/ Exited \/ Drain \/ WriteSummary \/ Finish \/ Interrupt
  BY <1>3, <1>11 DEF Reuse, Exited, Drain, WriteSummary, Finish, Interrupt
<1>12. CASE UNCHANGED vars BY <1>3, <1>12 DEF vars
<1> QED BY <1>4, <1>5, <1>6, <1>7, <1>8, <1>9, <1>10, <1>11, <1>12 DEF Next, Work, Rest

(* The batch's own variables are well typed. *)
LEMMA NextTypes ==
  ASSUME TargetsInv, BatchTypes, WholeInv, [Next]_vars
  PROVE  BatchTypes'
<1> USE DEF BatchTypes, BatchPoints, Dead, Busy
<1>0. ASSUME UNCHANGED <<options, next>> PROVE More' = More BY <1>0 DEF More
<1>1. ASSUME NEW o \in Options, NEW again \in BOOLEAN, Start(o, again) PROVE BatchTypes'
  <2>1. /\ pc' \in {"target", "refused"} /\ options' = o /\ next' = 1 /\ child' = None
        /\ timedOut' = FALSE /\ code' = 0 /\ results' = <<>>
    BY <1>1 DEF Start
  <2>2. results' \in Seq(Results) BY <2>1
  <2>3. timedOut' \in BOOLEAN BY <2>1
  <2> QED BY <2>1, <2>2, <2>3
<1>2. CASE Reuse
  <2>1. dir[Here].result \in Results
    BY <1>2, HereIsTarget DEF Reuse, TargetsInv, Directory
  <2>2. results' \in Seq(Results) BY <1>2, <2>1 DEF Reuse, Add
  <2> QED BY <1>0, <1>2, <2>2 DEF Reuse, Add
<1>3. CASE Preserve BY <1>0, <1>3 DEF Preserve
<1>4. CASE Launch BY <1>0, <1>4, LaunchFacts DEF Launch
<1>5. CASE Exited
  <2>1. run[child].rc \in {0, 1} BY <1>5 DEF Exited, WholeInv, TargetsInv, Process
  <2> QED BY <1>0, <1>5, <2>1 DEF Exited
<1>6. CASE TimeOut BY <1>0, <1>6 DEF TimeOut
<1>7. CASE Drain BY <1>0, <1>7 DEF Drain
<1>8. CASE Save
  <2>1. pc = "judge" BY <1>8 DEF Save
  <2>2. dir[Here] \in Directory BY <2>1, HereIsTarget DEF TargetsInv
  <2>3. Result(dir[Here]) \in Results BY <2>1, <2>2, ResultFacts
  <2>4. results' \in Seq(Results) BY <1>8, <2>3 DEF Save, Add
  <2> QED BY <1>0, <1>8, <2>4 DEF Save, Add
<1>9. CASE WriteSummary
  <2>1. timedOut' \in BOOLEAN BY <1>9 DEF WriteSummary
  <2>2. next' \in Nat \ {0} BY <1>9 DEF WriteSummary
  <2> QED BY <1>9, <2>1, <2>2 DEF WriteSummary
<1>10. CASE Finish BY <1>10 DEF Finish
<1>11. CASE Interrupt \/ Halt BY <1>11 DEF Interrupt, Halt
<1>12. CASE UNCHANGED bvars BY <1>0, <1>12 DEF bvars
<1>13. ASSUME NEW r \in Runs, Pipeline(r) \/ EngineEnds(r) PROVE BatchTypes'
  BY <1>12, <1>13 DEF Pipeline, EngineEnds
<1>14. CASE UNCHANGED vars BY <1>12, <1>14 DEF vars
<1> QED BY <1>1, <1>2, <1>3, <1>4, <1>5, <1>6, <1>7, <1>8, <1>9, <1>10, <1>11, <1>13, <1>14
       DEF Next, Work, Rest

(* Every step keeps what is known of the pipeline that is waited for. *)
LEMMA NextWhole ==
  ASSUME TargetsInv, BatchTypes, WholeInv, [Next]_vars, RunsKept
  PROVE  WholeInv'
<1>0. ASSUME UNCHANGED <<options, next>> PROVE Here' = Here BY <1>0 DEF Here
<1>1. ASSUME \A t \in Targets : dir'[t].result = dir[t].result \/ dir'[t].result = None
      PROVE  CompletedIsWhole'
  BY <1>1, CompletedStays DEF WholeInv
<1>2. ASSUME UNCHANGED dir, pc' \notin {"wait", "drain", "judge"} PROVE WholeInv'
  BY <1>1, <1>2 DEF WholeInv
<1>3. CASE \E o \in Options, again \in BOOLEAN : Start(o, again)
  BY <1>2, <1>3 DEF Start, tvars
<1>4. CASE Reuse \/ WriteSummary \/ Finish \/ Interrupt \/ Halt
  BY <1>2, <1>4 DEF Reuse, Add, WriteSummary, Finish, Interrupt, Halt, tvars
<1>5. CASE Preserve
  <2>1. Here \in Targets BY <1>5, HereIsTarget DEF Preserve
  <2>2. \A t \in Targets : dir'[t].result = dir[t].result \/ dir'[t].result = None
    BY <1>5, <2>1, EmptyFacts DEF Preserve
  <2> QED BY <1>1, <1>5, <2>2 DEF Preserve, WholeInv
<1>6. CASE Launch
  <2>1. Here \in Targets BY <1>6, HereIsTarget DEF Launch, BatchTypes, Busy
  <2>2. \A t \in Targets : dir'[t].result = dir[t].result \/ dir'[t].result = None
    <3>1. dir' = [dir EXCEPT ![Here] = Empty]  BY <1>6 DEF Launch
    <3>2. dir'[Here].result = None /\ \A t \in Targets : t # Here => dir'[t] = dir[t]
      BY <2>1, <3>1, EmptyFacts
    <3> QED  BY <3>2
  <2>3. Here' = Here BY <1>0, <1>6 DEF Launch
  <2> QED BY <1>1, <1>6, <2>2, <2>3, LaunchFacts DEF WholeInv
<1>7. CASE Exited
  <2>1. Here' = Here /\ CompletedIsWhole' BY <1>0, <1>1, <1>7 DEF Exited, tvars
  <2>2. child' = child /\ run' = run /\ pc = "wait" /\ pc' = "judge" /\ code' = run[child].rc
        /\ run[child].pc = "exit"
    BY <1>7 DEF Exited, tvars, At
  <2> QED BY <2>1, <2>2 DEF WholeInv
<1>8. CASE TimeOut
  <2>1. Here' = Here /\ CompletedIsWhole' BY <1>0, <1>1, <1>8 DEF TimeOut
  <2>2. child' = child /\ pc = "wait" /\ pc' = "drain" /\ timedOut' BY <1>8 DEF TimeOut
  <2> QED BY <2>1, <2>2 DEF WholeInv, RunsKept
<1>9. CASE Drain
  <2>1. CompletedIsWhole' BY <1>1, <1>9 DEF Drain, tvars
  <2>2. pc' = "judge" /\ timedOut' = timedOut /\ timedOut BY <1>9 DEF Drain, WholeInv
  <2> QED BY <2>1, <2>2 DEF WholeInv
<1>10. CASE Save
  <2>1. pc = "judge" /\ pc' = "summary" /\ run' = run BY <1>10 DEF Save, Add
  <2>2. Here \in Targets BY <1>10, SaveFacts
  <2>3. dir[Here] \in Directory BY <2>2 DEF TargetsInv
  <2>4. /\ dir'[Here].result = Result(dir[Here])
        /\ \A t \in Targets : t # Here => dir'[t] = dir[t]
    BY <1>10, SaveFacts
  <2>5. /\ Result(dir[Here]).by = child
        /\ Result(dir[Here]).status = "completed" => code = 0 /\ ~timedOut
    BY <2>1, <2>3, ResultFacts
  <2>6. Result(dir[Here]).status = "completed" =>
          /\ child \in Runs /\ run[child].target = Here /\ run[child].pc = "exit"
          /\ run[child].rc = 0 /\ run[child].won
    BY <2>1, <2>5 DEF WholeInv, TargetsInv
  <2>7. CompletedIsWhole'
    <3> SUFFICES ASSUME NEW t \in Targets, dir'[t].result # None, dir'[t].result.status = "completed"
                 PROVE  /\ dir'[t].result.by \in Runs /\ run'[dir'[t].result.by].target = t
                        /\ run'[dir'[t].result.by].pc = "exit" /\ run'[dir'[t].result.by].rc = 0
                        /\ run'[dir'[t].result.by].won
      BY DEF CompletedIsWhole
    <3>1. CASE t = Here BY <2>1, <2>4, <2>5, <2>6, <3>1
    <3>2. CASE t # Here BY <2>1, <2>4, <3>2 DEF WholeInv, CompletedIsWhole
    <3> QED BY <3>1, <3>2
  <2> QED BY <2>1, <2>7 DEF WholeInv
<1>11. ASSUME NEW r \in Runs, Pipeline(r) \/ EngineEnds(r) PROVE WholeInv'
  <2>1. DirsKept BY <1>11, PipelineFacts DEF Pipeline, EngineEnds
  <2>2. CompletedIsWhole' BY <1>1, <2>1 DEF DirsKept
  <2>3. UNCHANGED bvars BY <1>11 DEF Pipeline, EngineEnds
  <2>4. Here' = Here BY <1>0, <2>3 DEF bvars
  <2> QED BY <2>2, <2>3, <2>4 DEF WholeInv, bvars, RunsKept
<1>12. CASE UNCHANGED vars
  <2>1. Here' = Here /\ CompletedIsWhole' BY <1>0, <1>1, <1>12 DEF vars, bvars, tvars
  <2> QED BY <1>12, <2>1 DEF WholeInv, vars, bvars, tvars
<1> QED BY <1>3, <1>4, <1>5, <1>6, <1>7, <1>8, <1>9, <1>10, <1>11, <1>12 DEF Next, Work, Rest

(* The invariant behind both theorems.                                     *)
BatchInv == TargetsInv /\ BatchTypes /\ WholeInv

(* It holds in every reachable state. *)
THEOREM BatchInvariant == Spec => []BatchInv
<1>1. Init => BatchInv
  <2> SUFFICES ASSUME Init PROVE BatchInv OBVIOUS
  <2>1. Idle \in Process /\ Idle.pc = "idle" BY DEF Idle, Process
  <2>2. Empty \in Directory /\ Empty.result = None BY DEF Empty, Directory
  <2>3. /\ run \in [Runs -> Process] /\ \A r \in Runs : run[r].pc = "idle"
        /\ dir \in [Targets -> Directory] /\ \A t \in Targets : dir[t].result = None
    BY <2>1, <2>2 DEF Init, TInit
  <2>4. TargetsInv BY <2>3 DEF TargetsInv, Working
  <2>5. BatchTypes
    <3>1. timedOut \in BOOLEAN BY DEF Init
    <3>2. results \in Seq(Results) BY DEF Init
    <3> QED BY <3>1, <3>2 DEF Init, BatchTypes, BatchPoints, Dead, Busy
  <2>6. WholeInv BY <2>3 DEF Init, WholeInv, CompletedIsWhole
  <2> QED BY <2>4, <2>5, <2>6 DEF BatchInv
<1>2. BatchInv /\ [Next]_vars => BatchInv'
  BY NextTargets, NextTypes, NextWhole DEF BatchInv
<1> QED BY <1>1, <1>2, PTL DEF Spec

(* A target reported as completed was run to its end, and successfully, by *)
(* the pipeline its own batch started, though pipelines of interrupted     *)
(* batches may still write to the same directory (_run_one).               *)
THEOREM CompletedTargetsAreWhole == Spec => []CompletedIsWhole
<1>1. BatchInv => CompletedIsWhole BY DEF BatchInv, WholeInv
<1> QED BY <1>1, BatchInvariant, PTL
-----------------------------------------------------------------------------
(* Complete summaries.                                                     *)

(* What a summary and the result files have in common when it is complete  *)
(* for the targets of o.                                                   *)
SummaryOf(o) ==
  /\ summary.options = BatchOptions(o)
  /\ summary.results = [i \in DOMAIN List(o) |-> dir[List(o)[i]].result]
  /\ \A i \in DOMAIN List(o) : dir[List(o)[i]].result # None
  /\ summary.counts.completed =
       Cardinality({i \in DOMAIN List(o) :
                      dir[List(o)[i]].result.execution.campaign = "completed"})

Complete == summary # None /\ summary.complete

(* The results of a living batch are those of the first targets of its     *)
(* list, and are on disk; the summary it finds is one of the same list; and *)
(* no target is run while the summary is complete.                         *)
SummaryInv ==
  /\ \A t \in Targets : dir[t].result # None =>
       (dir[t].result.status = "completed" <=> dir[t].result.execution.campaign = "completed")
  /\ pc \notin Dead =>
       /\ Len(results) = IF pc = "summary" THEN next ELSE next - 1
       /\ \A i \in DOMAIN results :
            i \in DOMAIN List(options) /\ results[i] = dir[List(options)[i]].result
       /\ summary # None => summary.options = BatchOptions(options)
       /\ Complete => resume \/ ~More
  /\ pc \in Busy => ~Complete
  /\ Complete => \E o \in Options : SummaryOf(o)

(* Two command lines a resumed batch does not tell apart have the same     *)
(* targets. *)
LEMMA SameOptions ==
  ASSUME NEW o \in Options, NEW p \in Options, BatchOptions(o) = BatchOptions(p)
  PROVE  List(o) = List(p)
<1>1. /\ BatchOptions(o).suite = o.suite /\ BatchOptions(o).variant = o.variant
      /\ BatchOptions(p).suite = p.suite /\ BatchOptions(p).variant = p.variant
      /\ o.suite # "defects" => BatchOptions(o).manifest = o.manifest
      /\ p.suite # "defects" => BatchOptions(p).manifest = p.manifest
  BY OptionsAssumption DEF BatchOptions
<1>2. o.suite = p.suite /\ o.variant = p.variant /\ (o.suite # "defects" => o.manifest = p.manifest)
  BY <1>1
<1>3. CASE o.suite = "defects" BY <1>2, <1>3 DEF List
<1>4. CASE o.suite # "defects" BY <1>2, <1>4 DEF List
<1> QED BY <1>3, <1>4

(* A summary is about the result files only. *)
LEMMA SummaryKept ==
  ASSUME NEW o \in Options, SummaryOf(o), UNCHANGED summary,
         \A t \in Targets : dir'[t].result = dir[t].result
  PROVE  SummaryOf(o)'
<1>1. \A i \in DOMAIN List(o) : dir'[List(o)[i]].result = dir[List(o)[i]].result BY ListFacts
<1>2. [i \in DOMAIN List(o) |-> dir'[List(o)[i]].result] = [i \in DOMAIN List(o) |-> dir[List(o)[i]].result]
  BY <1>1
<1>3. {i \in DOMAIN List(o) : dir'[List(o)[i]].result.execution.campaign = "completed"}
        = {i \in DOMAIN List(o) : dir[List(o)[i]].result.execution.campaign = "completed"}
  BY <1>1
<1> QED BY <1>1, <1>2, <1>3 DEF SummaryOf

(* Steps that leave the result files, the summary and the batch alone, or  *)
(* end the batch. *)
LEMMA QuietSummary ==
  ASSUME BatchTypes, SummaryInv, UNCHANGED summary,
         \A t \in Targets : dir'[t].result = dir[t].result,
         pc' \in Dead \/ UNCHANGED <<options, next, results, resume>>,
         pc' \in Dead \/ (pc \notin Dead /\ (pc' = "summary" <=> pc = "summary")),
         pc' \in Busy => ~Complete
  PROVE  SummaryInv'
<1>1. \A t \in Targets : dir'[t].result # None =>
        (dir'[t].result.status = "completed" <=> dir'[t].result.execution.campaign = "completed")
  BY DEF SummaryInv
<1>2. Complete' => \E o \in Options : SummaryOf(o)' BY SummaryKept DEF SummaryInv, Complete
<1>3. pc' \in Busy => ~Complete' BY DEF Complete
<1>4. CASE pc' \in Dead BY <1>1, <1>2, <1>3, <1>4 DEF SummaryInv
<1>5. CASE pc' \notin Dead
  <2>1. pc \notin Dead /\ UNCHANGED <<options, next, results, resume>>
        /\ (pc' = "summary" <=> pc = "summary")
    BY <1>5
  <2>2. options \in Options BY <2>1 DEF BatchTypes, Dead
  <2>3. Len(results') = IF pc' = "summary" THEN next' ELSE next' - 1 BY <2>1 DEF SummaryInv
  <2>4. \A i \in DOMAIN results' :
          i \in DOMAIN List(options') /\ results'[i] = dir'[List(options')[i]].result
    <3>1. \A i \in DOMAIN List(options) : List(options)[i] \in Targets BY <2>2, ListFacts
    <3> QED BY <2>1, <3>1 DEF SummaryInv
  <2>5. summary' # None => summary'.options = BatchOptions(options') BY <2>1 DEF SummaryInv
  <2>6. Complete' => resume' \/ ~More' BY <2>1 DEF SummaryInv, Complete, More
  <2> QED BY <1>1, <1>2, <1>3, <2>3, <2>4, <2>5, <2>6 DEF SummaryInv
<1> QED BY <1>4, <1>5

(* Steps that empty the directory the batch is at: nothing is complete.    *)
LEMMA EmptySummary ==
  ASSUME TargetsInv, BatchTypes, SummaryInv, pc \in {"target", "launch"}, More, ~Complete,
         dir' = [dir EXCEPT ![Here] = Empty], UNCHANGED <<summary, options, next, results, resume>>,
         pc' \in Busy
  PROVE  SummaryInv'
<1>0. pc \notin Dead /\ pc' \notin Dead /\ pc # "off" /\ pc # "summary" /\ pc' # "summary"
  BY DEF Dead, Busy
<1>1. Here \in Targets /\ options \in Options BY <1>0, HereIsTarget
<1>2. /\ dir'[Here].result = None
      /\ \A t \in Targets : t # Here => dir'[t] = dir[t]
  BY <1>1, EmptyFacts
<1>3. \A t \in Targets : dir'[t].result # None =>
        (dir'[t].result.status = "completed" <=> dir'[t].result.execution.campaign = "completed")
  BY <1>2 DEF SummaryInv
<1>4. ~Complete' BY DEF Complete
<1>5. Len(results) = next - 1 /\ next \in DOMAIN List(options) /\ next \in Nat \ {0}
      /\ DOMAIN results = 1 .. Len(results)
  BY <1>0 DEF SummaryInv, More, BatchTypes
<1>6. \A i \in DOMAIN results : i \in DOMAIN List(options) /\ i # next BY <1>0, <1>5 DEF SummaryInv
<1>7. \A i \in DOMAIN results : List(options)[i] \in Targets /\ List(options)[i] # Here
  BY <1>1, <1>5, <1>6, ListFacts DEF Here
<1>8. \A i \in DOMAIN results : results[i] = dir'[List(options)[i]].result
  BY <1>0, <1>2, <1>7 DEF SummaryInv
<1>9. summary' # None => summary'.options = BatchOptions(options') BY <1>0 DEF SummaryInv
<1> QED BY <1>0, <1>3, <1>4, <1>5, <1>6, <1>8, <1>9 DEF SummaryInv

(* A batch that finds a complete summary finds every result file.          *)
LEMMA CompleteMeansReuse ==
  ASSUME BatchTypes, SummaryInv, pc = "target", More, Complete
  PROVE  resume /\ dir[Here].result # None
<1>0. pc \notin Dead /\ pc # "off" BY DEF Dead
<1>1. PICK o \in Options : SummaryOf(o) BY DEF SummaryInv
<1>2. options \in Options /\ summary.options = BatchOptions(options) /\ resume
  BY <1>0 DEF BatchTypes, SummaryInv, Complete
<1>3. List(o) = List(options) BY <1>1, <1>2, SameOptions DEF SummaryOf
<1> QED BY <1>1, <1>2, <1>3 DEF SummaryOf, More, Here

(* A result is appended that is the one on disk. *)
LEMMA AddSummary ==
  ASSUME BatchTypes, SummaryInv, pc \in {"target", "judge"}, More,
         NEW x \in Results, results' = Append(results, x), pc' = "summary",
         UNCHANGED <<summary, options, next, resume>>,
         x = dir'[Here].result,
         \A t \in Targets : t # Here => dir'[t].result = dir[t].result,
         dir'[Here].result = dir[Here].result \/ ~Complete,
         x.status = "completed" <=> x.execution.campaign = "completed"
  PROVE  SummaryInv'
<1>0. pc \notin Dead /\ pc' \notin Dead /\ pc # "off" /\ pc # "summary" /\ pc' \notin Busy
  BY DEF Dead, Busy
<1>1. Here \in Targets /\ options \in Options BY <1>0, HereIsTarget
<1>2. \A t \in Targets : dir'[t].result # None =>
        (dir'[t].result.status = "completed" <=> dir'[t].result.execution.campaign = "completed")
  BY <1>1 DEF SummaryInv
<1>3. /\ Len(results) = next - 1 /\ next \in DOMAIN List(options) /\ next \in Nat \ {0}
      /\ results \in Seq(Results) /\ DOMAIN results = 1 .. Len(results)
  BY <1>0 DEF SummaryInv, More, BatchTypes
<1>4. /\ Len(results') = next /\ DOMAIN results' = 1 .. next /\ results'[next] = x
      /\ \A i \in DOMAIN results : results'[i] = results[i]
  BY <1>3
<1>5. \A i \in DOMAIN results : i \in DOMAIN List(options) /\ i # next BY <1>0, <1>3 DEF SummaryInv
<1>6. \A i \in DOMAIN results : List(options)[i] \in Targets /\ List(options)[i] # Here
  BY <1>1, <1>3, <1>5, ListFacts DEF Here
<1>7. \A i \in DOMAIN results : results'[i] = dir'[List(options)[i]].result
  BY <1>0, <1>4, <1>6 DEF SummaryInv
<1>8. results'[next] = dir'[List(options)[next]].result BY <1>4 DEF Here
<1>9. \A i \in DOMAIN results' : i \in DOMAIN results \/ i = next BY <1>3, <1>4
<1>10. \A i \in DOMAIN results' :
         i \in DOMAIN List(options) /\ results'[i] = dir'[List(options)[i]].result
  BY <1>3, <1>5, <1>7, <1>8, <1>9
<1>11. summary' # None => summary'.options = BatchOptions(options') BY <1>0 DEF SummaryInv
<1>12. Complete' => resume' \/ ~More' BY <1>0 DEF SummaryInv, Complete, More
<1>13. Complete' => \E o \in Options : SummaryOf(o)'
  <2> SUFFICES ASSUME Complete' PROVE \E o \in Options : SummaryOf(o)' OBVIOUS
  <2>1. Complete BY DEF Complete
  <2>2. \A t \in Targets : dir'[t].result = dir[t].result BY <2>1
  <2> QED BY <2>1, <2>2, SummaryKept DEF SummaryInv
<1> QED BY <1>0, <1>2, <1>4, <1>10, <1>11, <1>12, <1>13 DEF SummaryInv

(* A summary of all results is complete and true. *)
LEMMA WrittenSummary ==
  ASSUME BatchTypes, SummaryInv, pc \notin Dead, summary' = Summary, UNCHANGED <<dir, options>>,
         Len(results) = Len(List(options))
  PROVE  SummaryOf(options)'
<1>0. options \in Options BY DEF BatchTypes, Dead
<1>1. /\ DOMAIN List(options) = 1 .. Len(List(options))
      /\ results \in Seq(Results) /\ DOMAIN results = 1 .. Len(results)
      /\ \A i \in DOMAIN List(options) : List(options)[i] \in Targets
  BY <1>0, ListFacts DEF BatchTypes
<1>2. DOMAIN results = DOMAIN List(options) BY <1>1
<1>3. \A i \in DOMAIN List(options) : results[i] = dir[List(options)[i]].result /\ results[i] \in Results
  BY <1>1, <1>2 DEF SummaryInv
<1>4. results = [i \in DOMAIN List(options) |-> dir[List(options)[i]].result]
  <2>1. results = [i \in DOMAIN List(options) |-> results[i]] BY <1>1, <1>2
  <2> QED BY <1>3, <2>1
<1>5. \A i \in DOMAIN List(options) : dir[List(options)[i]].result # None BY <1>3, NoneIsNoResult
<1>6. {i \in DOMAIN results : results[i].status \in {"completed"}}
        = {i \in DOMAIN List(options) : dir[List(options)[i]].result.execution.campaign = "completed"}
  BY <1>1, <1>2, <1>3, <1>5 DEF SummaryInv
<1>7. Counts.completed = Cardinality({i \in DOMAIN results : results[i].status \in {"completed"}})
  BY DEF Counts
<1>8. /\ summary'.options = BatchOptions(options) /\ summary'.results = results
      /\ summary'.counts = Counts
  BY DEF Summary
<1> QED BY <1>4, <1>5, <1>6, <1>7, <1>8 DEF SummaryOf

(* Every step keeps the summary true. *)
LEMMA NextSummary ==
  ASSUME TargetsInv, BatchTypes, SummaryInv, [Next]_vars
  PROVE  SummaryInv'
<1>1. ASSUME NEW o \in Options, NEW again \in BOOLEAN, Start(o, again) PROVE SummaryInv'
  <2>0. UNCHANGED <<run, dir, summary>> /\ options' = o /\ next' = 1 /\ results' = <<>> /\ resume' = again
        /\ pc' = IF Accepts(o, again) THEN "target" ELSE "refused"
    BY <1>1 DEF Start, tvars
  <2>1. CASE ~Accepts(o, again)
    <3>1. pc' \in Dead BY <2>0, <2>1 DEF Dead
    <3>2. pc' \notin Busy BY <3>1 DEF Dead, Busy
    <3> QED BY <2>0, <3>1, <3>2, QuietSummary
  <2>2. CASE Accepts(o, again)
    <3>1. pc' = "target" /\ pc' \notin Busy BY <2>0, <2>2 DEF Busy
    <3>2. summary # None => again /\ summary.options = BatchOptions(o)
      BY <2>2 DEF Accepts, OutEmpty
    <3>3. Complete' => \E p \in Options : SummaryOf(p)' BY <2>0, SummaryKept DEF SummaryInv, Complete
    <3>4. \A t \in Targets : dir'[t].result # None =>
            (dir'[t].result.status = "completed" <=> dir'[t].result.execution.campaign = "completed")
      BY <2>0 DEF SummaryInv
    <3>5. Len(results') = next' - 1 /\ DOMAIN results' = {} BY <2>0
    <3> QED BY <2>0, <3>1, <3>2, <3>3, <3>4, <3>5 DEF SummaryInv, Complete
  <2> QED BY <2>1, <2>2
<1>2. CASE Reuse
  <2>0. /\ pc = "target" /\ More /\ dir[Here].result # None
        /\ results' = Append(results, dir[Here].result) /\ pc' = "summary"
        /\ UNCHANGED <<dir, summary, options, next, resume>>
    BY <1>2 DEF Reuse, Add, tvars
  <2>1. Here \in Targets BY <2>0, HereIsTarget
  <2>2. Here' = Here BY <2>0 DEF Here
  <2>3. dir[Here].result \in Results BY <2>0, <2>1 DEF TargetsInv, Directory
  <2>4. dir[Here].result.status = "completed" <=> dir[Here].result.execution.campaign = "completed"
    BY <2>0, <2>1 DEF SummaryInv
  <2> QED BY <2>0, <2>2, <2>3, <2>4, AddSummary
<1>3. CASE Preserve
  <2>0. /\ pc = "target" /\ More /\ pc' = "launch" /\ UNCHANGED <<summary, options, next, results, resume>>
        /\ ~(resume /\ dir[Here].result # None)
        /\ dir' = dir \/ dir' = [dir EXCEPT ![Here] = Empty]
    BY <1>3 DEF Preserve
  <2>1. ~Complete BY <2>0, CompleteMeansReuse
  <2>2. pc \notin Dead /\ pc' \in Busy BY <2>0 DEF Dead, Busy
  <2>3. CASE dir' = dir BY <2>0, <2>1, <2>2, <2>3, QuietSummary
  <2>4. CASE dir' = [dir EXCEPT ![Here] = Empty] BY <2>0, <2>1, <2>2, <2>4, EmptySummary
  <2> QED BY <2>0, <2>3, <2>4
<1>4. CASE Launch
  <2>0. /\ pc = "launch" /\ pc' \in {"wait", "judge"}
        /\ UNCHANGED <<summary, options, next, results, resume>>
        /\ dir' = [dir EXCEPT ![Here] = Empty]
    BY <1>4 DEF Launch
  <2>1. ~Complete /\ More /\ pc' \in Busy BY <2>0 DEF SummaryInv, BatchTypes, Busy
  <2> QED BY <2>0, <2>1, EmptySummary
<1>5. CASE Exited \/ TimeOut \/ Drain
  <2>0. /\ pc \in {"wait", "drain"} /\ pc' \in {"drain", "judge"}
        /\ UNCHANGED <<dir, summary, options, next, results, resume>>
    BY <1>5 DEF Exited, TimeOut, Drain, tvars
  <2>1. ~Complete /\ pc \notin Dead BY <2>0 DEF SummaryInv, Busy, Dead
  <2> QED BY <2>0, <2>1, QuietSummary
<1>6. CASE Save
  <2>0. /\ pc = "judge" /\ pc' = "summary" /\ results' = Append(results, Result(dir[Here]))
        /\ UNCHANGED <<summary, options, next, resume>>
    BY <1>6 DEF Save, Add
  <2>1. ~Complete /\ More BY <2>0 DEF SummaryInv, BatchTypes, Busy
  <2>2. /\ Here \in Targets /\ dir'[Here].result = Result(dir[Here])
        /\ \A t \in Targets : t # Here => dir'[t] = dir[t]
    BY <1>6, SaveFacts
  <2>3. dir[Here] \in Directory BY <2>2 DEF TargetsInv
  <2>4. /\ Result(dir[Here]) \in Results
        /\ Result(dir[Here]).status = "completed" <=> Result(dir[Here]).execution.campaign = "completed"
    BY <2>0, <2>3, ResultFacts
  <2> QED BY <2>0, <2>1, <2>2, <2>4, AddSummary
<1>7. CASE WriteSummary \/ Finish
  <2>0. /\ pc \in {"summary", "target"} /\ summary' = Summary
        /\ UNCHANGED <<dir, options, results, resume>>
        /\ \/ pc = "summary" /\ pc' = "target" /\ next' = next + 1
           \/ pc = "target" /\ pc' = "done" /\ next' = next
    BY <1>7 DEF WriteSummary, Finish, tvars
  <2>1. pc \notin Dead /\ pc' \notin Busy BY <2>0 DEF Dead, Busy
  <2>2. \A t \in Targets : dir'[t].result # None =>
          (dir'[t].result.status = "completed" <=> dir'[t].result.execution.campaign = "completed")
    BY <2>0 DEF SummaryInv
  <2>3. summary'.complete = (Len(results) = Len(List(options)))
        /\ summary'.options = BatchOptions(options)
    BY <2>0 DEF Summary
  <2>4. Complete' => Len(results) = Len(List(options)) BY <2>3 DEF Complete
  <2>5. options \in Options BY <2>1 DEF BatchTypes, Dead
  <2>6. Complete' => \E o \in Options : SummaryOf(o)'
    BY <2>0, <2>1, <2>4, <2>5, WrittenSummary
  <2>7. CASE pc' = "done"
    <3>1. pc' \in Dead BY <2>7 DEF Dead
    <3> QED BY <2>1, <2>2, <2>6, <3>1 DEF SummaryInv
  <2>8. CASE pc' = "target"
    <3>1. pc = "summary" /\ next' = next + 1 /\ next \in Nat BY <2>0, <2>8 DEF BatchTypes
    <3>2. Len(results) = next BY <2>1, <3>1 DEF SummaryInv
    <3>3. Len(results') = next' - 1 BY <2>0, <3>1, <3>2
    <3>4. \A i \in DOMAIN results' :
            i \in DOMAIN List(options') /\ results'[i] = dir'[List(options')[i]].result
      BY <2>0, <2>1 DEF SummaryInv
    <3>5. Complete' => ~More'
      <4>1. DOMAIN List(options) = 1 .. Len(List(options)) /\ Len(List(options)) \in Nat
        BY <2>5, ListFacts
      <4>2. Complete' => next' \notin DOMAIN List(options) BY <2>4, <3>1, <3>2, <4>1
      <4> QED BY <2>0, <4>2 DEF More
    <3>6. summary' # None => summary'.options = BatchOptions(options') BY <2>0, <2>3
    <3> QED BY <2>1, <2>2, <2>6, <2>8, <3>3, <3>4, <3>5, <3>6 DEF SummaryInv
  <2> QED BY <2>0, <2>7, <2>8
<1>8. CASE Interrupt \/ Halt
  <2>0. pc' = "interrupted" /\ UNCHANGED <<dir, summary>> BY <1>8 DEF Interrupt, Halt, tvars
  <2>1. pc' \in Dead /\ pc' \notin Busy BY <2>0 DEF Dead, Busy
  <2> QED BY <2>0, <2>1, QuietSummary
<1>9. ASSUME UNCHANGED bvars, \A t \in Targets : dir'[t].result = dir[t].result
      PROVE  SummaryInv'
  <2>1. UNCHANGED <<pc, summary, options, next, results, resume>> BY <1>9 DEF bvars
  <2>2. pc' \in Busy => ~Complete BY <2>1 DEF SummaryInv
  <2> QED BY <1>9, <2>1, <2>2, QuietSummary
<1>10. ASSUME NEW r \in Runs, Pipeline(r) \/ EngineEnds(r) PROVE SummaryInv'
  <2>1. DirsKept /\ UNCHANGED bvars BY <1>10, PipelineFacts DEF Pipeline, EngineEnds
  <2> QED BY <1>9, <2>1 DEF DirsKept
<1>11. CASE UNCHANGED vars BY <1>9, <1>11 DEF vars, tvars
<1> QED BY <1>1, <1>2, <1>3, <1>4, <1>5, <1>6, <1>7, <1>8, <1>10, <1>11 DEF Next, Work, Rest

(* A summary that says it is complete lists the result file of every       *)
(* target and counts them rightly, and stays true whatever is interrupted, *)
(* resumed or still running afterwards (main of fuzzer/cli/batch.py).      *)
THEOREM SummariesAreTrue == Spec => []SummaryIsTrue
<1>1. Init => SummaryInv
  <2> SUFFICES ASSUME Init PROVE SummaryInv OBVIOUS
  <2>1. \A t \in Targets : dir[t].result = None BY DEF Init, TInit, Empty
  <2> QED BY <2>1 DEF Init, SummaryInv, Dead, Busy, Complete
<1>2. BatchInv /\ SummaryInv /\ [Next]_vars => SummaryInv' BY NextSummary DEF BatchInv
<1>3. SummaryInv => SummaryIsTrue BY DEF SummaryInv, SummaryIsTrue, SummaryOf, Complete
<1> QED BY <1>1, <1>2, <1>3, BatchInvariant, PTL DEF Spec

(***************************************************************************)
(* The preparation. First what finite sets, recursive functions and lists  *)
(* need.                                                                   *)
(***************************************************************************)

(* The order of the natural numbers, as a set of pairs.                    *)
Below == {ss \in Nat \X Nat : ss[1] < ss[2]}
(* It is well-founded.                                                     *)
LEMMA BelowWF == IsWellFoundedOn(Below, Nat)
  BY NatLessThanWellFounded, Zenon DEF OpToRel, Below

(* A function on an initial segment is a sequence.                         *)
LEMMA FunctionIsSeq ==
  ASSUME NEW S, NEW n \in Nat, NEW f \in [1 .. n -> S]
  PROVE  f \in Seq(S) /\ Len(f) = n
  BY SeqDef

(* A set with 0 that is closed under successor has every number.           *)
LEMMA SetInduction ==
  ASSUME NEW S, 0 \in S, \A n \in Nat : n \in S => n + 1 \in S
  PROVE  \A n \in Nat : n \in S
<1> DEFINE T == Nat \ S
<1>1. SUFFICES ASSUME T # {} PROVE FALSE OBVIOUS
<1>2. \E x \in T : \A y \in T : ~ (<<y, x>> \in Below)
  <2> HIDE DEF T
  <2>1. T \subseteq Nat BY DEF T
  <2> QED BY <1>1, BelowWF, <2>1, WFMin, Zenon
<1>3. PICK x \in T : \A y \in T : ~ (<<y, x>> \in Below) BY <1>2
<1>4. \A y \in T : ~(y < x) BY <1>3 DEF Below
<1>5. x # 0 /\ x - 1 \in Nat /\ x - 1 \notin T BY <1>4
<1> QED BY <1>5

(* f has the first m results of the step g from a.                         *)
IsIteration(f, D, a, g, m) ==
  f \in [0 .. m -> D] /\ f[0] = a /\ \A i \in 1 .. m : f[i] = g[<<i, f[i - 1]>>]

(* So m steps from a have results.                                         *)
LEMMA Iterates ==
  ASSUME NEW D, NEW a \in D, NEW g \in [Nat \X D -> D], NEW m \in Nat
  PROVE  \E f : IsIteration(f, D, a, g, m)
<1> USE DEF IsIteration
<1> DEFINE Good == {k \in Nat : \E f \in [0 .. k -> D] :
                      f[0] = a /\ \A i \in 1 .. k : f[i] = g[<<i, f[i - 1]>>]}
<1>1. 0 \in Good
  <2> DEFINE f == [i \in 0 .. 0 |-> a]
  <2>1. f \in [0 .. 0 -> D] /\ f[0] = a /\ \A i \in 1 .. 0 : f[i] = g[<<i, f[i - 1]>>]  OBVIOUS
  <2> QED  BY <2>1
<1>2. ASSUME NEW k \in Nat, k \in Good PROVE k + 1 \in Good
  <2>1. PICK f \in [0 .. k -> D] : f[0] = a /\ \A i \in 1 .. k : f[i] = g[<<i, f[i - 1]>>]  BY <1>2
  <2> DEFINE h == [i \in 0 .. k + 1 |-> IF i = k + 1 THEN g[<<k + 1, f[k]>>] ELSE f[i]]
  <2>2. h \in [0 .. k + 1 -> D]
    <3>1. f[k] \in D /\ <<k + 1, f[k]>> \in Nat \X D  BY <2>1
    <3>2. g[<<k + 1, f[k]>>] \in D  BY <3>1
    <3>3. \A i \in 0 .. k + 1 : i # k + 1 => i \in 0 .. k  OBVIOUS
    <3>4. \A i \in 0 .. k + 1 : (IF i = k + 1 THEN g[<<k + 1, f[k]>>] ELSE f[i]) \in D
      BY <2>1, <3>2, <3>3
    <3> QED  BY <3>4
  <2>3. h[0] = a  BY <2>1
  <2>4. ASSUME NEW i \in 1 .. k + 1 PROVE h[i] = g[<<i, h[i - 1]>>]
    <3>1. CASE i = k + 1
      <4>1. i - 1 = k /\ k \in 0 .. k + 1 /\ k # k + 1  BY <3>1
      <4>2. h[i - 1] = f[k]  BY <4>1
      <4>3. h[i] = g[<<i, f[k]>>]  BY <3>1
      <4> HIDE DEF h
      <4> QED  BY <4>2, <4>3
    <3>2. CASE i # k + 1
      <4>1. i \in 1 .. k /\ i - 1 \in 0 .. k  BY <3>2
      <4>2. h[i] = f[i] /\ h[i - 1] = f[i - 1]  BY <4>1
      <4> QED  BY <4>1, <4>2, <2>1
    <3> QED  BY <3>1, <3>2
  <2> HIDE DEF h
  <2> QED  BY <2>2, <2>3, <2>4
<1>3. m \in Good
  <2> HIDE DEF Good
  <2> QED  BY <1>1, <1>2, SetInduction
<1> QED  BY <1>3

(* A set of numbers has a smallest one.                                    *)
LEMMA Smallest ==
  ASSUME NEW S \in SUBSET Nat, S # {}
  PROVE  \E x \in S : \A y \in S : x <= y
<1>1. PICK x \in S : \A y \in S : ~ (<<y, x>> \in Below)
  BY BelowWF, WFMin, Zenon
<1>2. \A y \in S : ~(y < x)  BY <1>1 DEF Below
<1> QED  BY <1>2

(* A finite set whose elements have distinct numbers can be listed in the  *)
(* order of these.                                                         *)
Lists(s, S, key, m) ==
  s \in [1 .. m -> S] /\ \A i, j \in 1 .. m : i < j => key[s[i]] < key[s[j]]

(* A finite set whose elements have distinct keys can be listed by rising  *)
(* key.                                                                    *)
LEMMA Enumeration ==
  ASSUME NEW S, IsFiniteSet(S), NEW key \in [S -> Nat],
         \A x, y \in S : key[x] = key[y] => x = y
  PROVE  \E s : Lists(s, S, key, Cardinality(S))
<1> DEFINE Good == {k \in Nat : \A T \in SUBSET S :
                      Cardinality(T) = k => \E s : Lists(s, T, key, k)}
<1>1. 0 \in Good
  <2> SUFFICES ASSUME NEW T \in SUBSET S, Cardinality(T) = 0 PROVE \E s : Lists(s, T, key, 0)
    OBVIOUS
  <2>1. Lists(<<>>, T, key, 0)  BY DEF Lists
  <2> QED  BY <2>1
<1>2. ASSUME NEW k \in Nat, k \in Good PROVE k + 1 \in Good
  <2> SUFFICES ASSUME NEW T \in SUBSET S, Cardinality(T) = k + 1
               PROVE  \E s : Lists(s, T, key, k + 1)
    OBVIOUS
  <2>1. IsFiniteSet(T) /\ T # {}  BY FS_Subset, FS_EmptySet
  <2>2. PICK x \in T : \A y \in T : key[x] <= key[y]
    <3> DEFINE K == {key[y] : y \in T}
    <3>1. K \in SUBSET Nat /\ K # {}  BY <2>1
    <3>2. PICK z \in K : \A y \in K : z <= y
      <4> HIDE DEF K
      <4> QED  BY <3>1, Smallest
    <3> QED  BY <3>2
  <2> DEFINE U == T \ {x}
  <2>3. U \in SUBSET S /\ Cardinality(U) = k
    <3>1. Cardinality(U) = Cardinality(T) - 1  BY <2>1, FS_RemoveElement
    <3>2. Cardinality(T) - 1 = k  OBVIOUS
    <3> QED  BY <3>1, <3>2
  <2>4. PICK s : Lists(s, U, key, k)
    <3> HIDE DEF U
    <3> QED  BY <1>2, <2>3
  <2> DEFINE r == [i \in 1 .. k + 1 |-> IF i = 1 THEN x ELSE s[i - 1]]
  <2>5. \A i \in 1 .. k + 1 : i # 1 => i - 1 \in 1 .. k /\ r[i] = s[i - 1] /\ r[i] \in U
    BY <2>4 DEF Lists
  <2>6. r \in [1 .. k + 1 -> T] /\ r[1] = x
    <3>1. \A i \in 1 .. k + 1 : r[i] \in T  BY <2>5
    <3> QED  BY <3>1
  <2>7. \A y \in U : key[x] < key[y]
    BY <2>2
  <2>8. ASSUME NEW i \in 1 .. k + 1, NEW j \in 1 .. k + 1, i < j PROVE key[r[i]] < key[r[j]]
    <3>1. j # 1  BY <2>8
    <3>2. CASE i = 1
      <4> HIDE DEF r, U
      <4> QED  BY <3>1, <3>2, <2>5, <2>6, <2>7
    <3>3. CASE i # 1
      <4>1. i - 1 < j - 1 /\ i - 1 \in 1 .. k /\ j - 1 \in 1 .. k  BY <2>8, <3>3
      <4>2. key[s[i - 1]] < key[s[j - 1]]  BY <4>1, <2>4 DEF Lists
      <4> HIDE DEF r
      <4> QED  BY <3>1, <3>3, <4>2, <2>5
    <3> QED  BY <3>2, <3>3
  <2> HIDE DEF r
  <2> QED  BY <2>6, <2>8 DEF Lists
<1>3. Cardinality(S) \in Nat  BY FS_CardinalityType
<1>4. Cardinality(S) \in Good
  <2> HIDE DEF Good
  <2> QED  BY <1>1, <1>2, <1>3, SetInduction
<1> QED  BY <1>4

(* Such a list has every element.                                          *)
LEMMA ListIsAll ==
  ASSUME NEW S, IsFiniteSet(S), NEW key \in [S -> Nat], NEW s, Lists(s, S, key, Cardinality(S))
  PROVE  /\ s \in Seq(S) /\ Len(s) = Cardinality(S)
         /\ \A x \in S : \E i \in 1 .. Len(s) : s[i] = x
<1> DEFINE m == Cardinality(S)
<1>1. m \in Nat  BY FS_CardinalityType
<1>2. IsFiniteSet(1 .. m) /\ Cardinality(1 .. m) = m  BY <1>1, FS_Interval
<1>3. s \in [1 .. m -> S]  BY DEF Lists
<1>4. \A i, j \in 1 .. m : s[i] = s[j] => i = j
  <2> SUFFICES ASSUME NEW i \in 1 .. m, NEW j \in 1 .. m, s[i] = s[j], i # j PROVE FALSE
    OBVIOUS
  <2>1. key[s[i]] \in Nat  BY <1>3
  <2>2. i < j \/ j < i  BY <1>1
  <2> QED  BY <2>1, <2>2 DEF Lists
<1>5. s \in Injection(1 .. m, S)  BY <1>3, <1>4 DEF Injection, IsInjective
<1>6. s \in Surjection(1 .. m, S)  BY <1>2, <1>5, FS_Injection
<1>7. s \in Seq(S) /\ Len(s) = m
  <2> HIDE DEF m
  <2> QED  BY <1>1, <1>3, SeqDef
<1> QED  BY <1>6, <1>7 DEF Surjection

(* A sequence over a set is one over a larger set.                         *)
LEMMA SeqMonotone ==
  ASSUME NEW S, NEW T, S \subseteq T, NEW s \in Seq(S)
  PROVE  s \in Seq(T)
<1>1. s \in [1 .. Len(s) -> S] /\ Len(s) \in Nat  OBVIOUS
<1>2. s \in [1 .. Len(s) -> T]  BY <1>1
<1> QED  BY <1>1, <1>2, SeqDef

(* The image of a finite set is finite.                                    *)
LEMMA FiniteImage ==
  ASSUME NEW S, IsFiniteSet(S), NEW f, DOMAIN f = S
  PROVE  IsFiniteSet({f[x] : x \in S})
<1> DEFINE T == {f[x] : x \in S}
           g == [x \in S |-> f[x]]
<1>1. g \in Surjection(S, T)  BY DEF Surjection
<1> HIDE DEF T, g
<1> QED  BY <1>1, FS_Surjection DEF T

(***************************************************************************)
(* The goal tasks: the effects that are derived for a target are complete. *)
(***************************************************************************)

(***************************************************************************)
(* The cycle effects.                                                      *)
(***************************************************************************)

(* What is called from p directly or through others, by number of calls.   *)
CallsGrow(far, p, K) ==
  /\ far[0] = CalledBy(p)
  /\ \A i \in 1 .. K : far[i] = far[i - 1] \cup {c[2] : c \in {d \in graph : d[1] \in far[i - 1]}}

(* Called(p) is what is called in as many calls as there are POUs.         *)
LEMMA CalledGrows ==
  ASSUME NEW p
  PROVE  \E far : CallsGrow(far, p, Cardinality(Pous)) /\ Called(p) = far[Cardinality(Pous)]
<1> DEFINE D == SUBSET (CalledBy(p) \cup {c[2] : c \in graph})
           card == Cardinality(Pous)
           grow(x) == x \cup {c[2] : c \in {d \in graph : d[1] \in x}}
           first == CalledBy(p)
           g == [q \in Nat \X D |-> grow(q[2])]
           R(f) == f = [i \in 0 .. card |-> IF i = 0 THEN first ELSE grow(f[i - 1])]
           far == CHOOSE f : R(f)
<1>0. card \in Nat  BY EffectModel, FS_CardinalityType
<1>1. g \in [Nat \X D -> D]
  <2>1. ASSUME NEW q \in Nat \X D PROVE grow(q[2]) \in D
    <3>1. q[2] \in D  OBVIOUS
    <3>2. \A x \in D : grow(x) \in D  OBVIOUS
    <3> HIDE DEF grow, D
    <3> QED  BY <3>1, <3>2
  <2> HIDE DEF grow
  <2> QED  BY <2>1
<1>2. PICK f : IsIteration(f, D, first, g, card)
  <2>1. first \in D  OBVIOUS
  <2> HIDE DEF g, D, card, first
  <2> QED  BY <1>0, <1>1, <2>1, Iterates
<1>3. R(f)
  <2>1. ASSUME NEW i \in 0 .. card, i # 0 PROVE f[i] = grow(f[i - 1])
    <3>1. i \in 1 .. card /\ i \in Nat /\ i - 1 \in 0 .. card  BY <1>0, <2>1
    <3>2. f[i - 1] \in D  BY <3>1, <1>2 DEF IsIteration
    <3>3. <<i, f[i - 1]>> \in Nat \X D  BY <3>1, <3>2
    <3>4. g[<<i, f[i - 1]>>] = grow(f[i - 1])
      <4> HIDE DEF grow, D
      <4> QED  BY <3>3
    <3> HIDE DEF grow, D, g
    <3> QED  BY <1>2, <3>1, <3>4 DEF IsIteration
  <2> HIDE DEF grow, card, D
  <2> QED  BY <1>2, <2>1 DEF IsIteration
<1>4. R(far)
  <2> HIDE DEF R
  <2> QED  BY <1>3
<1>5. far[0] = first /\ \A i \in 0 .. card : i # 0 => far[i] = grow(far[i - 1])
  <2> HIDE DEF grow, card, far, first
  <2>1. far = [i \in 0 .. card |-> IF i = 0 THEN first ELSE grow(far[i - 1])]
    BY <1>4
  <2>2. 0 \in 0 .. card  BY <1>0
  <2> QED  BY <2>1, <2>2
<1>6. Called(p) = far[card]  BY DEF Called
<1>7. CallsGrow(far, p, card)
  <2>1. \A i \in 1 .. card : far[i] = grow(far[i - 1])
    <3>1. \A i \in 1 .. card : i \in 0 .. card /\ i # 0  BY <1>0
    <3> HIDE DEF grow, far
    <3> QED  BY <1>5, <3>1
  <2> HIDE DEF far
  <2> QED  BY <1>5, <2>1 DEF CallsGrow
<1> HIDE DEF far
<1> QED  BY <1>6, <1>7

(* The calls stop to grow.                                                 *)
LEMMA CallsSaturate ==
  ASSUME graph \subseteq Pous \X Nat, NEW p, NEW far, CallsGrow(far, p, Cardinality(Pous))
  PROVE  LET K == Cardinality(Pous)
         IN {c[2] : c \in {d \in graph : d[1] \in far[K]}} \subseteq far[K]
<1> DEFINE K == Cardinality(Pous)
           after(x) == {c[2] : c \in {d \in graph : d[1] \in x}}
<1>0. K \in Nat /\ IsFiniteSet(Pous)  BY EffectModel, FS_CardinalityType
<1>1. \A i \in 1 .. K : far[i] = far[i - 1] \cup after(far[i - 1])  BY DEF CallsGrow
<1>2. \A x, y : x \cap Pous \subseteq y => after(x) \subseteq after(y)  OBVIOUS
<1> DEFINE Stable(i) == after(far[i]) \subseteq far[i]
           Good == {i \in Nat : i <= K => Stable(i) \/ Cardinality(far[i] \cap Pous) >= i + 1}
<1> HIDE DEF after
<1>3. 0 \in Good
  <2>1. CASE far[0] \cap Pous = {}
    <3>1. after(far[0]) \subseteq after({})  BY <2>1, <1>2
    <3>2. after({}) = {}  BY DEF after
    <3> QED  BY <3>1, <3>2
  <2>2. CASE far[0] \cap Pous # {}
    <3>1. IsFiniteSet(far[0] \cap Pous)  BY <1>0, FS_Subset
    <3>2. Cardinality(far[0] \cap Pous) \in Nat /\ Cardinality(far[0] \cap Pous) # 0
      BY <3>1, <2>2, FS_CardinalityType, FS_EmptySet
    <3> QED  BY <3>2
  <2> QED  BY <2>1, <2>2
<1>4. ASSUME NEW i \in Nat, i \in Good PROVE i + 1 \in Good
  <2> SUFFICES ASSUME i + 1 <= K
               PROVE  Stable(i + 1) \/ Cardinality(far[i + 1] \cap Pous) >= (i + 1) + 1
    OBVIOUS
  <2>1. i + 1 \in 1 .. K /\ (i + 1) - 1 = i /\ i <= K  BY <1>0
  <2>2. far[i + 1] = far[i] \cup after(far[i])  BY <1>1, <2>1
  <2>3. CASE far[i + 1] \cap Pous = far[i] \cap Pous
    <3>1. after(far[i + 1]) \subseteq after(far[i])  BY <2>3, <1>2
    <3> QED  BY <3>1, <2>2
  <2>4. CASE far[i + 1] \cap Pous # far[i] \cap Pous
    <3>1. ~Stable(i)  BY <2>2, <2>4
    <3>2. Cardinality(far[i] \cap Pous) >= i + 1  BY <3>1, <1>4, <2>1
    <3>3. far[i] \cap Pous \subseteq far[i + 1] \cap Pous  BY <2>2
    <3>4. IsFiniteSet(far[i + 1] \cap Pous) /\ IsFiniteSet(far[i] \cap Pous)  BY <1>0, FS_Subset
    <3>5. /\ Cardinality(far[i] \cap Pous) <= Cardinality(far[i + 1] \cap Pous)
          /\ Cardinality(far[i] \cap Pous) # Cardinality(far[i + 1] \cap Pous)
      BY <3>3, <3>4, <2>4, FS_Subset
    <3>6. Cardinality(far[i] \cap Pous) \in Nat /\ Cardinality(far[i + 1] \cap Pous) \in Nat
      BY <3>4, FS_CardinalityType
    <3> QED  BY <3>2, <3>5, <3>6
  <2> QED  BY <2>3, <2>4
<1>5. K \in Good
  <2> HIDE DEF Good, K
  <2> QED  BY <1>0, <1>3, <1>4, SetInduction
<1>6. ~(Cardinality(far[K] \cap Pous) >= K + 1)
  <2>1. IsFiniteSet(far[K] \cap Pous) /\ Cardinality(far[K] \cap Pous) <= K
    BY <1>0, FS_Subset
  <2>2. Cardinality(far[K] \cap Pous) \in Nat  BY <2>1, FS_CardinalityType
  <2> HIDE DEF K
  <2> QED  BY <2>1, <2>2, <1>0
<1>7. Stable(K)  BY <1>5, <1>6, <1>0
<1> QED  BY <1>7 DEF after

(* Called is the smallest set with the callees of p that is closed.        *)
LEMMA CalledIs ==
  ASSUME graph \subseteq Pous \X Nat, NEW p
  PROVE  /\ CalledBy(p) \subseteq Called(p)
         /\ \A x \in Called(p) : CalledBy(x) \subseteq Called(p)
         /\ \A S : CalledBy(p) \subseteq S /\ (\A x \in S : CalledBy(x) \subseteq S) => Called(p) \subseteq S
<1> DEFINE K == Cardinality(Pous)
           after(x) == {c[2] : c \in {d \in graph : d[1] \in x}}
<1>0. K \in Nat  BY EffectModel, FS_CardinalityType
<1>1. PICK far : CallsGrow(far, p, K) /\ Called(p) = far[K]  BY CalledGrows
<1>2. /\ far[0] = CalledBy(p)
      /\ \A i \in 1 .. K : far[i] = far[i - 1] \cup after(far[i - 1])
  BY <1>1 DEF CallsGrow
<1>3. after(far[K]) \subseteq far[K]  BY <1>1, CallsSaturate
<1>4. \A x : \A y \in x : CalledBy(y) \subseteq after(x)  BY DEF CalledBy
<1>5. \A S : (\A x \in S : CalledBy(x) \subseteq S) => after(S) \subseteq S  BY DEF CalledBy
<1>6. \A x, y : x \subseteq y => after(x) \subseteq after(y)  OBVIOUS
<1> HIDE DEF after, K
<1>7. CalledBy(p) \subseteq Called(p)
  <2> DEFINE Good == {i \in Nat : i <= K => CalledBy(p) \subseteq far[i]}
  <2>1. 0 \in Good  BY <1>2
  <2>2. ASSUME NEW i \in Nat, i \in Good PROVE i + 1 \in Good
    <3> SUFFICES ASSUME i + 1 <= K PROVE CalledBy(p) \subseteq far[i + 1]  OBVIOUS
    <3>1. i + 1 \in 1 .. K /\ (i + 1) - 1 = i /\ i <= K  BY <1>0
    <3> QED  BY <3>1, <2>2, <1>2
  <2>3. K \in Good
    <3> HIDE DEF Good
    <3> QED  BY <1>0, <2>1, <2>2, SetInduction
  <2> QED  BY <2>3, <1>0, <1>1
<1>8. \A x \in Called(p) : CalledBy(x) \subseteq Called(p)  BY <1>1, <1>3, <1>4
<1>9. ASSUME NEW S, CalledBy(p) \subseteq S, \A x \in S : CalledBy(x) \subseteq S
      PROVE  Called(p) \subseteq S
  <2>0. after(S) \subseteq S  BY <1>5, <1>9
  <2> DEFINE Good == {i \in Nat : i <= K => far[i] \subseteq S}
  <2>1. 0 \in Good  BY <1>2, <1>9
  <2>2. ASSUME NEW i \in Nat, i \in Good PROVE i + 1 \in Good
    <3> SUFFICES ASSUME i + 1 <= K PROVE far[i + 1] \subseteq S  OBVIOUS
    <3>1. i + 1 \in 1 .. K /\ (i + 1) - 1 = i /\ i <= K  BY <1>0
    <3>2. far[i + 1] = far[i] \cup after(far[i]) /\ far[i] \subseteq S  BY <3>1, <2>2, <1>2
    <3>3. after(far[i]) \subseteq after(S)  BY <3>2, <1>6
    <3> QED  BY <3>2, <3>3, <2>0
  <2>3. K \in Good
    <3> HIDE DEF Good
    <3> QED  BY <1>0, <2>1, <2>2, SetInduction
  <2> QED  BY <2>3, <1>0, <1>1
<1> QED  BY <1>7, <1>8, <1>9

(* The callees of a callee are called.                                     *)
LEMMA CalledTransitive ==
  ASSUME graph \subseteq Pous \X Nat, NEW p, NEW c \in Called(p)
  PROVE  Called(c) \subseteq Called(p)
BY CalledIs

(* The callees of a POU are listed once each.                              *)
LEMMA CalleesAre ==
  ASSUME graph \subseteq Pous \X Nat, IsFiniteSet(graph), NEW p
  PROVE  /\ Callees(p) \in Seq(Nat)
         /\ \A x : x \in CalledBy(p) <=> \E k \in DOMAIN Callees(p) : Callees(p)[k] = x
<1> DEFINE C == CalledBy(p)
           m == Cardinality(C)
<1>1. C \in SUBSET Nat /\ IsFiniteSet(C)
  <2> DEFINE sd == {d \in graph : d[1] = p}
             f == [x \in sd |-> x[2]]
  <2>1. C = {f[x] : x \in sd} /\ DOMAIN f = sd  BY DEF CalledBy
  <2>2. IsFiniteSet(sd)
    <3>1. sd \subseteq graph  OBVIOUS
    <3> HIDE DEF sd
    <3> QED  BY <3>1, FS_Subset
  <2>3. IsFiniteSet({f[x] : x \in sd})
    <3> HIDE DEF f, sd
    <3> QED  BY <2>1, <2>2, FiniteImage
  <2>4. C \in SUBSET Nat  BY DEF CalledBy
  <2> QED  BY <2>1, <2>3, <2>4
<1> HIDE DEF C
<1>2. m \in Nat  BY <1>1, FS_CardinalityType
<1> DEFINE key == [x \in C |-> x]
<1>3. key \in [C -> Nat] /\ \A x, y \in C : key[x] = key[y] => x = y
  <2>1. \A x \in C : x \in Nat  BY <1>1
  <2> QED  BY <2>1
<1>4. PICK s : Lists(s, C, key, m)
  <2> HIDE DEF key
  <2> QED  BY <1>1, <1>3, Enumeration
<1>5. \E t \in [1 .. m -> C] : \A i, j \in DOMAIN t : i < j => t[i] < t[j]
  BY <1>4 DEF Lists
<1>6. Callees(p) = CHOOSE t \in [1 .. m -> C] : \A i, j \in DOMAIN t : i < j => t[i] < t[j]
  BY DEF Callees, C
<1> HIDE DEF m
<1>7. Callees(p) \in [1 .. m -> C] /\ \A i, j \in DOMAIN Callees(p) : i < j => Callees(p)[i] < Callees(p)[j]
  BY <1>5, <1>6
<1>8. Lists(Callees(p), C, key, m)
  <2>1. DOMAIN Callees(p) = 1 .. m /\ \A i \in 1 .. m : key[Callees(p)[i]] = Callees(p)[i]  BY <1>7
  <2> HIDE DEF key
  <2> QED  BY <1>7, <2>1 DEF Lists
<1>9. /\ Callees(p) \in Seq(C) /\ Len(Callees(p)) = m
      /\ \A x \in C : \E i \in 1 .. Len(Callees(p)) : Callees(p)[i] = x
  <2> HIDE DEF key
  <2> DEFINE t == Callees(p)
  <2>1. Lists(t, C, key, Cardinality(C))  BY <1>8 DEF m
  <2>2. t \in Seq(C) /\ Len(t) = Cardinality(C) /\ \A x \in C : \E i \in 1 .. Len(t) : t[i] = x
    <3> HIDE DEF t
    <3>1. C \in SUBSET Nat /\ IsFiniteSet(C) /\ key \in [C -> Nat]  BY <1>1, <1>3
    <3>2. PICK S : S = C  OBVIOUS
    <3>3. IsFiniteSet(S) /\ key \in [S -> Nat] /\ Lists(t, S, key, Cardinality(S))  BY <2>1, <3>1, <3>2
    <3>4. t \in Seq(S) /\ Len(t) = Cardinality(S) /\ \A x \in S : \E i \in 1 .. Len(t) : t[i] = x  BY <3>3, ListIsAll
    <3> QED  BY <3>2, <3>4
  <2> QED  BY <2>2 DEF m
<1>10. Callees(p) \in Seq(Nat)
  <2>1. C \subseteq Nat /\ Callees(p) \in Seq(C)  BY <1>1, <1>9
  <2> QED  BY <2>1, SeqMonotone
<1>11. DOMAIN Callees(p) = 1 .. Len(Callees(p)) /\ \A k \in DOMAIN Callees(p) : Callees(p)[k] \in C
  BY <1>7, <1>9
<1> QED  BY <1>9, <1>10, <1>11 DEF C

(* The program is one that the effect model may hold.                      *)
ProgramType ==
  /\ stage = "goals" => graph \in CallGraphs /\ facts \in PouFacts
  /\ gphase \in {"walk", "written"} => stage = "goals"

(* The calls that an active call of inspect() has still to follow.         *)
InRest(i) == {walk[i].rest[k] : k \in DOMAIN walk[i].rest}

(* The active calls of inspect() are a chain of calls from the target.     *)
WalkChain ==
  /\ walk \in Seq([pou : Pous, rest : Seq(Nat)])
  /\ \A i, j \in DOMAIN walk : walk[i].pou = walk[j].pou => i = j
  /\ walk # <<>> => walk[1].pou = 1
  /\ \A i \in DOMAIN walk : i + 1 \in DOMAIN walk => walk[i + 1].pou \in CalledBy(walk[i].pou)
  /\ \A i \in DOMAIN walk : InRest(i) \subseteq CalledBy(walk[i].pou)

(* A callee was looked at, or is no POU of the model and was said to be    *)
(* unavailable.                                                            *)
Handled(c, V) == c \in V \/ (c \notin Pous /\ "unavailable" \in unknown)

(* V are the POUs that were looked at: what their facts say was found, and *)
(* their callees were looked at too, except those still to come.           *)
Explored(V) ==
  /\ V \subseteq Pous /\ 1 \in V /\ Visiting \subseteq V
  /\ \A v \in V : facts[v] \cap StateFacts \subseteq reasons /\ facts[v] \cap UnknownFacts \subseteq unknown
  /\ \A v \in V \ Visiting : \A c \in CalledBy(v) : Handled(c, V)
  /\ \A i \in DOMAIN walk : \A c \in CalledBy(walk[i].pou) : Handled(c, V) \/ c \in InRest(i)

(* F are the POUs whose calls were followed to their end: as long as no    *)
(* recursion was reported, none of them calls itself.                      *)
Acyclic(F) ==
  "recursive" \notin unknown =>
    /\ F \subseteq Pous
    /\ \A v \in F : CalledBy(v) \cap Pous \subseteq F /\ v \notin Called(v)
    /\ \A i \in DOMAIN walk : \A c \in CalledBy(walk[i].pou) \cap Pous :
         c \in F \/ c \in InRest(i) \/ (i + 1 \in DOMAIN walk /\ c = walk[i + 1].pou)
    /\ walk = <<>> => 1 \in F

(* A recursion that was reported is one.                                   *)
RecursionIsReal == "recursive" \in unknown => \E p \in ({1} \cup Called(1)) \cap Pous : p \in Called(p)

(* The walk over the calls, while it goes on and after it: V has every POU *)
(* that it looked at, F those whose calls it has followed to their end.    *)
Walked ==
  gphase \in {"walk", "written"} =>
    /\ WalkChain /\ RecursionIsReal
    /\ \E V \in SUBSET Pous : Explored(V)
    /\ \E F \in SUBSET Pous : Acyclic(F)

(* The goals have the mode that the effects say.                           *)
ModeIsDerived ==
  gphase = "written" =>
    /\ walk = <<>>
    /\ \A g \in Range(goals) : g.mode = "single_cycle" => reasons = {} /\ unknown = {}

(* The invariant of the effect derivation.                                 *)
EffInv == ProgramType /\ Walked /\ ModeIsDerived

(* The calls change only with the program.                                 *)
LEMMA SameCalls ==
  ASSUME graph' = graph, NEW p
  PROVE  CalledBy(p)' = CalledBy(p) /\ Called(p)' = Called(p)
<1>1. CalledBy(p)' = CalledBy(p)  BY DEF CalledBy
<1> DEFINE card == Cardinality(Pous)
           Now(f) == f = [k \in 0 .. card |-> IF k = 0 THEN CalledBy(p)
              ELSE f[k - 1] \cup {c[2] : c \in {d \in graph : d[1] \in f[k - 1]}}]
<1>2. Called(p) = (CHOOSE f : Now(f))[card]  BY DEF Called
<1>3. Called(p)' = (CHOOSE f : Now(f))[card]
  <2>1. Called(p)' = (CHOOSE f : f = [k \in 0 .. card |-> IF k = 0 THEN CalledBy(p)'
              ELSE f[k - 1] \cup {c[2] : c \in {d \in graph' : d[1] \in f[k - 1]}}])[card]
    BY DEF Called
  <2> QED  BY <2>1, <1>1
<1> QED  BY <1>1, <1>2, <1>3

(* What follows for the program while it is walked.                        *)
LEMMA ProgramIs ==
  ASSUME ProgramType, stage = "goals"
  PROVE  /\ graph \subseteq Pous \X Nat /\ IsFiniteSet(graph)
         /\ facts \in [Pous -> SUBSET (StateFacts \cup UnknownFacts)]
         /\ \A p : CalledBy(p) \subseteq Nat
         /\ \A p : p \notin Pous => CalledBy(p) = {}
<1>1. graph \subseteq Pous \X Nat /\ IsFiniteSet(graph)  BY EffectModel DEF ProgramType
<1>2. facts \in [Pous -> SUBSET (StateFacts \cup UnknownFacts)]  BY EffectModel DEF ProgramType
<1>3. \A c \in graph : c[1] \in Pous /\ c[2] \in Nat  BY <1>1
<1>4. \A p : CalledBy(p) \subseteq Nat /\ (p \notin Pous => CalledBy(p) = {})
  BY <1>3 DEF CalledBy
<1> QED  BY <1>1, <1>2, <1>4

(* The property at the end of the walk.                                    *)
LEMMA WalkedIsComplete == ASSUME EffInv PROVE EffectsAreComplete
<1> SUFFICES ASSUME gphase = "written" PROVE EffectsAreComplete  BY DEF EffectsAreComplete
<1> DEFINE reached == {1} \cup Called(1)
           known == reached \cap Pous
<1>1. /\ graph \subseteq Pous \X Nat
      /\ facts \in [Pous -> SUBSET (StateFacts \cup UnknownFacts)]
      /\ \A p : CalledBy(p) \subseteq Nat
      /\ \A p : p \notin Pous => CalledBy(p) = {}
  BY ProgramIs DEF EffInv, ProgramType
<1>2. walk = <<>> /\ RecursionIsReal  BY DEF EffInv, ModeIsDerived, Walked
<1>3. DOMAIN walk = {} /\ Visiting = {}  BY <1>2 DEF Visiting
<1>4. PICK V \in SUBSET Pous : Explored(V)  BY DEF EffInv, Walked
<1>5. PICK F \in SUBSET Pous : Acyclic(F)  BY DEF EffInv, Walked
<1>6. \A v \in V : \A c \in CalledBy(v) : Handled(c, V)  BY <1>3, <1>4 DEF Explored
<1>7. ASSUME NEW S, 1 \in S, S \subseteq Pous, \A v \in S : CalledBy(v) \cap Pous \subseteq S
      PROVE  known \subseteq S
  <2> DEFINE T == S \cup (Nat \ Pous)
  <2>1. CalledBy(1) \subseteq T  BY <1>1, <1>7
  <2>2. \A x \in T : CalledBy(x) \subseteq T  BY <1>1, <1>7
  <2>3. Called(1) \subseteq T
    <3> HIDE DEF T
    <3> QED  BY <1>1, <2>1, <2>2, CalledIs
  <2> QED  BY <2>3, <1>7
<1>8. known \subseteq V
  <2>1. \A v \in V : CalledBy(v) \cap Pous \subseteq V  BY <1>6 DEF Handled
  <2>2. 1 \in V  BY <1>4 DEF Explored
  <2> HIDE DEF known
  <2> QED  BY <2>1, <2>2, <1>4, <1>7
<1>9. \A p \in known : facts[p] \cap StateFacts \subseteq reasons  BY <1>8, <1>4 DEF Explored
<1>10. "recursive" \in unknown => \E p \in known : p \in Called(p)  BY <1>2 DEF RecursionIsReal
<1>11. ASSUME "recursive" \notin unknown PROVE ~ \E p \in known : p \in Called(p)
  <2>1. 1 \in F /\ F \subseteq Pous /\ \A v \in F : CalledBy(v) \cap Pous \subseteq F /\ v \notin Called(v)
    BY <1>5, <1>2, <1>11 DEF Acyclic
  <2>2. known \subseteq F
    <3> HIDE DEF known
    <3> QED  BY <2>1, <1>7
  <2> QED  BY <2>1, <2>2
<1>12. ASSUME NEW g \in Range(goals), g.mode = "single_cycle"
       PROVE  known = reached /\ \A p \in known : facts[p] = {}
  <2>1. reasons = {} /\ unknown = {}  BY <1>12 DEF EffInv, ModeIsDerived
  <2>2. \A v \in V : CalledBy(v) \subseteq V  BY <1>6, <2>1 DEF Handled
  <2>3. 1 \in V  BY <1>4 DEF Explored
  <2>4. Called(1) \subseteq V
    <3>1. CalledBy(1) \subseteq V  BY <2>2, <2>3
    <3> QED  BY <1>1, <2>2, <3>1, CalledIs
  <2>5. known = reached  BY <2>3, <2>4, <1>4
  <2>6. ASSUME NEW p \in known PROVE facts[p] = {}
    <3>1. p \in V /\ p \in Pous  BY <1>8
    <3>2. facts[p] \cap StateFacts = {} /\ facts[p] \cap UnknownFacts = {}
      BY <3>1, <1>4, <2>1 DEF Explored
    <3>3. facts[p] \subseteq StateFacts \cup UnknownFacts  BY <3>1, <1>1
    <3> QED  BY <3>2, <3>3
  <2> QED  BY <2>5, <2>6
<1> HIDE DEF known
<1>13. "recursive" \in unknown <=> \E p \in known : p \in Called(p)  BY <1>10, <1>11
<1> QED  BY <1>9, <1>12, <1>13 DEF EffectsAreComplete, known

(* The first call.                                                         *)
LEMMA StartKeeps ==
  ASSUME EffInv, NEW own \in SUBSET {"state", "instance"}, StartEffects(own), stage = "goals", stage' = stage
  PROVE  EffInv'
<1> DEFINE frame == [pou |-> 1, rest |-> Callees(1)]
<1>1. /\ graph \subseteq Pous \X Nat /\ IsFiniteSet(graph)
      /\ facts \in [Pous -> SUBSET (StateFacts \cup UnknownFacts)]
      /\ \A p : CalledBy(p) \subseteq Nat
  BY ProgramIs DEF EffInv
<1>2. /\ walk' = <<frame>> /\ gphase' = "walk" /\ graph' = graph /\ facts' = facts
      /\ reasons' = (own \cup facts[1]) \cap StateFacts
      /\ unknown' = (own \cup facts[1]) \cap UnknownFacts
  BY DEF StartEffects
<1>3. 1 \in Pous  BY PrefixLimits
<1>4. /\ Callees(1) \in Seq(Nat)
      /\ \A x : x \in CalledBy(1) <=> \E k \in DOMAIN Callees(1) : Callees(1)[k] = x
  BY <1>1, CalleesAre
<1>5. /\ DOMAIN walk' = {1} /\ walk'[1] = frame /\ walk' # <<>>
      /\ frame \in [pou : Pous, rest : Seq(Nat)] /\ frame.pou = 1 /\ frame.rest = Callees(1)
  BY <1>2, <1>3, <1>4
<1> HIDE DEF frame
<1>6. InRest(1)' = CalledBy(1)
  <2>1. InRest(1)' = {Callees(1)[k] : k \in DOMAIN Callees(1)}  BY <1>5 DEF InRest
  <2> QED  BY <2>1, <1>4
<1>7. \A p : CalledBy(p)' = CalledBy(p) /\ Called(p)' = Called(p)  BY <1>2, SameCalls
<1>8. WalkChain'
  <2>1. walk' \in Seq([pou : Pous, rest : Seq(Nat)])
    <3> DEFINE X == [pou : Pous, rest : Seq(Nat)]
    <3>1. frame \in X  BY <1>5
    <3> HIDE DEF X
    <3>2. <<frame>> \in Seq(X)  BY <3>1
    <3> QED  BY <3>2, <1>2 DEF X
  <2>2. \A i \in DOMAIN walk' : i = 1 /\ i + 1 \notin DOMAIN walk'  BY <1>5
  <2> QED  BY <2>1, <2>2, <1>5, <1>6, <1>7 DEF WalkChain
<1>9. "recursive" \notin unknown'  BY <1>2 DEF UnknownFacts
<1>10. RecursionIsReal'  BY <1>9 DEF RecursionIsReal
<1>11. Explored({1})'
  <2>1. Visiting' = {1}  BY <1>5 DEF Visiting
  <2>2. \A i \in DOMAIN walk' : \A c \in CalledBy(walk[i].pou)' : c \in InRest(i)'
    <3>1. CalledBy(walk[1].pou)' = InRest(1)'
      <4>1. walk'[1].pou = 1  BY <1>5
      <4>2. CalledBy(walk[1].pou)' = {c[2] : c \in {d \in graph : d[1] = 1}}  BY <4>1, <1>2 DEF CalledBy
      <4> QED  BY <4>2, <1>6, Zenon DEF CalledBy
    <3>2. \A c \in CalledBy(walk[1].pou)' : c \in InRest(1)'  BY <3>1
    <3> QED  BY <3>2, <1>5
  <2>3. facts'[1] \cap StateFacts \subseteq reasons' /\ facts'[1] \cap UnknownFacts \subseteq unknown'
    BY <1>2
  <2> QED  BY <2>1, <2>2, <2>3, <1>3 DEF Explored
<1>12. Acyclic({})'
  <2>1. \A i \in DOMAIN walk' : \A c \in CalledBy(walk[i].pou)' : c \in InRest(i)'
    <3>1. CalledBy(walk[1].pou)' = InRest(1)'
      <4>1. walk'[1].pou = 1  BY <1>5
      <4>2. CalledBy(walk[1].pou)' = {c[2] : c \in {d \in graph : d[1] = 1}}  BY <4>1, <1>2 DEF CalledBy
      <4> QED  BY <4>2, <1>6, Zenon DEF CalledBy
    <3>2. \A c \in CalledBy(walk[1].pou)' : c \in InRest(1)'  BY <3>1
    <3> QED  BY <3>2, <1>5
  <2> QED  BY <2>1, <1>5 DEF Acyclic
<1>13. Walked'  BY <1>3, <1>8, <1>10, <1>11, <1>12 DEF Walked
<1>14. ProgramType' /\ ModeIsDerived'  BY <1>2 DEF EffInv, ProgramType, ModeIsDerived
<1> QED  BY <1>13, <1>14 DEF EffInv

(* The calls u with the next callee p taken from the innermost of n.       *)
IsUnder(u, n, p) ==
  /\ u \in Seq([pou : Pous, rest : Seq(Nat)])
  /\ n \in Nat /\ n # 0 /\ Len(u) = n /\ DOMAIN u = 1 .. n /\ DOMAIN walk = 1 .. n
  /\ \A i \in 1 .. n : u[i].pou = walk[i].pou /\ (i # n => u[i].rest = walk[i].rest)
  /\ p \in InRest(n)
  /\ InRest(n) = {p} \cup {u[n].rest[k] : k \in DOMAIN u[n].rest}

(* Taking the next callee leaves such calls.                               *)
LEMMA UnderIs ==
  ASSUME WalkChain, walk # <<>>, Last(walk).rest # <<>>,
         NEW under, under = [walk EXCEPT ![Len(walk)].rest = Tail(@)],
         NEW n0, n0 = Len(walk), NEW p0, p0 = Head(Last(walk).rest)
  PROVE  IsUnder(under, n0, p0)
<1> DEFINE X == [pou : Pous, rest : Seq(Nat)]
           n == Len(walk)
           r == walk[n].rest
<1>1. walk \in Seq(X)  BY DEF WalkChain
<1>2. n \in Nat /\ n # 0 /\ DOMAIN walk = 1 .. n /\ n \in 1 .. n
  <2> HIDE DEF X
  <2>1. n \in Nat /\ DOMAIN walk = 1 .. n  BY <1>1
  <2>2. n # 0  BY <1>1, EmptySeq
  <2> QED  BY <2>1, <2>2
<1>3. \A i \in 1 .. n : walk[i] \in X  BY <1>1, <1>2, ElementOfSeq
<1>4. Last(walk) = walk[n]  BY DEF Last
<1>5. r \in Seq(Nat) /\ r # <<>>  BY <1>2, <1>3, <1>4
<1>6. Tail(r) \in Seq(Nat) /\ Len(r) \in Nat /\ Len(r) # 0 /\ Len(Tail(r)) = Len(r) - 1
      /\ \A k \in 1 .. Len(Tail(r)) : Tail(r)[k] = r[k + 1]
  BY <1>5, HeadTailProperties, EmptySeq
<1>7. Head(r) = r[1] /\ DOMAIN r = 1 .. Len(r) /\ DOMAIN Tail(r) = 1 .. Len(r) - 1
  BY <1>5, <1>6
<1>8. under = [i \in 1 .. n |-> IF i = n THEN [walk[n] EXCEPT !.rest = Tail(r)] ELSE walk[i]]
  BY <1>2
<1>9. [walk[n] EXCEPT !.rest = Tail(r)] = [pou |-> walk[n].pou, rest |-> Tail(r)]
  <2>1. walk[n] \in X  BY <1>2, <1>3
  <2>2. \A w \in X : \A t : [w EXCEPT !.rest = t] = [pou |-> w.pou, rest |-> t]  OBVIOUS
  <2> HIDE DEF n, r, X
  <2> QED  BY <2>1, <2>2
<1>10. /\ under[n] = [pou |-> walk[n].pou, rest |-> Tail(r)]
       /\ \A i \in 1 .. n : i # n => under[i] = walk[i]
       /\ DOMAIN under = 1 .. n
  <2> HIDE DEF n, r
  <2> QED  BY <1>2, <1>8, <1>9
<1>11. under \in Seq(X)
  <2>1. walk[n].pou \in Pous  BY <1>2, <1>3
  <2>2. under[n] \in X
    <3> HIDE DEF n, r
    <3>1. under[n] = [pou |-> walk[n].pou, rest |-> Tail(r)] /\ Tail(r) \in Seq(Nat)  BY <1>6, <1>10
    <3>2. \A x \in Pous, y \in Seq(Nat) : [pou |-> x, rest |-> y] \in X  OBVIOUS
    <3> HIDE DEF X
    <3> QED  BY <3>1, <3>2, <2>1
  <2> HIDE DEF X, n, r
  <2>3. under \in [1 .. n -> X]
    <3>1. \A i \in 1 .. n : under[i] \in X  BY <1>3, <1>10, <2>2
    <3>2. DOMAIN under = 1 .. n  BY <1>10
    <3>3. under = [i \in 1 .. n |-> IF i = n THEN [walk[n] EXCEPT !.rest = Tail(r)] ELSE walk[i]]
      BY <1>8
    <3> QED  BY <3>1, <3>2, <3>3
  <2>4. \A f \in [1 .. n -> X] : f \in Seq(X)
    <3>1. n \in Nat  BY <1>2
    <3> QED  BY <3>1, FunctionIsSeq
  <2> QED  BY <2>3, <2>4
<1>12. Len(under) = n
  <2> HIDE DEF X
  <2>1. Len(under) \in Nat /\ DOMAIN under = 1 .. Len(under)  BY <1>11
  <2> HIDE DEF n
  <2> QED  BY <1>2, <1>10, <2>1
<1>13. InRest(n) = {r[k] : k \in 1 .. Len(r)}  BY <1>7 DEF InRest
<1>14. {under[n].rest[k] : k \in DOMAIN under[n].rest} = {r[k + 1] : k \in 1 .. Len(r) - 1}
  <2>1. under[n].rest = Tail(r)
    <3> HIDE DEF n, r
    <3>1. under[n] = [pou |-> walk[n].pou, rest |-> Tail(r)]  BY <1>10
    <3>2. \A x, y : [pou |-> x, rest |-> y].rest = y  OBVIOUS
    <3> QED  BY <3>1, <3>2
  <2> HIDE DEF n, r
  <2>2. \A k \in 1 .. Len(r) - 1 : Tail(r)[k] = r[k + 1]  BY <1>6
  <2>3. {Tail(r)[k] : k \in 1 .. Len(r) - 1} = {r[k + 1] : k \in 1 .. Len(r) - 1}  BY <2>2
  <2>4. DOMAIN Tail(r) = 1 .. Len(r) - 1  BY <1>7
  <2> QED  BY <2>1, <2>3, <2>4
<1>15. {r[k] : k \in 1 .. Len(r)} = {r[1]} \cup {r[k + 1] : k \in 1 .. Len(r) - 1}
  <2> HIDE DEF n, r
  <2>1. ASSUME NEW k \in 1 .. Len(r) PROVE k = 1 \/ (k - 1 \in 1 .. Len(r) - 1 /\ (k - 1) + 1 = k)
    BY <1>6
  <2>2. \A k \in 1 .. Len(r) - 1 : k + 1 \in 1 .. Len(r)  BY <1>6
  <2>3. 1 \in 1 .. Len(r)  BY <1>6
  <2>4. ASSUME NEW k \in 1 .. Len(r) PROVE r[k] \in {r[1]} \cup {r[l + 1] : l \in 1 .. Len(r) - 1}
    <3>1. CASE k = 1  BY <3>1
    <3>2. CASE k # 1
      <4>1. k - 1 \in 1 .. Len(r) - 1 /\ r[k] = r[(k - 1) + 1]  BY <3>2, <2>1
      <4> QED  BY <4>1
    <3> QED  BY <3>1, <3>2
  <2> QED  BY <2>2, <2>3, <2>4
<1>16. Head(Last(walk).rest) = r[1]  BY <1>4, <1>7
<1>17. \A i \in 1 .. n : under[i].pou = walk[i].pou /\ (i # n => under[i].rest = walk[i].rest)
  <2> HIDE DEF n, r
  <2> QED  BY <1>10
<1>18. InRest(n) = {r[1]} \cup {under[n].rest[k] : k \in DOMAIN under[n].rest}
  <2> HIDE DEF n, r
  <2> QED  BY <1>13, <1>14, <1>15
<1>19. n0 = n /\ p0 = r[1]  BY <1>16
<1>20. r[1] \in InRest(n)  BY <1>18
<1> HIDE DEF n, r
<1>21. /\ n \in Nat /\ n # 0 /\ DOMAIN walk = 1 .. n /\ DOMAIN under = 1 .. n
       /\ under \in Seq([pou : Pous, rest : Seq(Nat)])
  BY <1>2, <1>10, <1>11
<1>22. IsUnder(under, n, r[1])
  BY <1>12, <1>17, <1>18, <1>20, <1>21, Zenon DEF IsUnder
<1> QED  BY <1>19, <1>22, Zenon

(* Later calls of the chain are called by the earlier ones.                *)
LEMMA ChainCalls ==
  ASSUME graph \subseteq Pous \X Nat, WalkChain, NEW j \in DOMAIN walk
  PROVE  \A i \in DOMAIN walk : j <= i => walk[i].pou \in {walk[j].pou} \cup Called(walk[j].pou)
<1> DEFINE n == Len(walk)
           q == walk[j].pou
           Good == {k \in Nat : j <= k /\ k <= n => walk[k].pou \in {q} \cup Called(q)}
<1>1. n \in Nat /\ DOMAIN walk = 1 .. n  BY DEF WalkChain
<1>2. 0 \in Good  BY <1>1
<1>3. ASSUME NEW k \in Nat, k \in Good PROVE k + 1 \in Good
  <2> SUFFICES ASSUME j <= k + 1, k + 1 <= n PROVE walk[k + 1].pou \in {q} \cup Called(q)
    OBVIOUS
  <2>1. CASE j = k + 1  BY <2>1
  <2>2. CASE j # k + 1
    <3>1. j <= k /\ k <= n /\ k \in DOMAIN walk /\ k + 1 \in DOMAIN walk  BY <1>1, <2>2
    <3>2. walk[k].pou \in {q} \cup Called(q)  BY <3>1, <1>3
    <3>3. walk[k + 1].pou \in CalledBy(walk[k].pou)  BY <3>1 DEF WalkChain
    <3> QED  BY <3>2, <3>3, CalledIs
  <2> QED  BY <2>1, <2>2
<1>4. \A k \in Nat : k \in Good
  <2> HIDE DEF Good
  <2> QED  BY <1>2, <1>3, SetInduction
<1> QED  BY <1>1, <1>4

(* A call that was cut short or cannot be followed.                        *)
LEMMA CutKeeps ==
  ASSUME EffInv, stage = "goals", gphase = "walk", walk # <<>>, Last(walk).rest # <<>>,
         walk' = [walk EXCEPT ![Len(walk)].rest = Tail(@)],
         UNCHANGED <<graph, facts, gphase, goals, stage, reasons>>,
         NEW mark, unknown' = unknown \cup {mark},
         LET p == Head(Last(walk).rest)
         IN \/ p \notin Pous /\ mark = "unavailable"
            \/ p \in Visiting /\ mark = "recursive"
  PROVE  EffInv'
<1>n. PICK n : n = Len(walk)  OBVIOUS
<1>p. PICK p : p = Head(Last(walk).rest)  OBVIOUS
<1>g. graph' = graph /\ facts' = facts /\ reasons' = reasons  OBVIOUS
<1>0. /\ graph \subseteq Pous \X Nat
      /\ \A q : CalledBy(q)' = CalledBy(q) /\ Called(q)' = Called(q)
  BY ProgramIs, SameCalls DEF EffInv
<1>1. WalkChain /\ RecursionIsReal  BY DEF EffInv, Walked
<1>2. /\ walk' \in Seq([pou : Pous, rest : Seq(Nat)])
      /\ n \in Nat /\ n # 0 /\ Len(walk') = n /\ DOMAIN walk' = 1 .. n /\ DOMAIN walk = 1 .. n
      /\ \A i \in 1 .. n : walk'[i].pou = walk[i].pou /\ (i # n => walk'[i].rest = walk[i].rest)
      /\ p \in InRest(n)
      /\ InRest(n) = {p} \cup {walk'[n].rest[k] : k \in DOMAIN walk'[n].rest}
  <2> DEFINE under == [walk EXCEPT ![Len(walk)].rest = Tail(@)]
  <2>1. walk' = under  OBVIOUS
  <2>2. IsUnder(under, n, p)
    <3>1. under = [walk EXCEPT ![Len(walk)].rest = Tail(@)]  OBVIOUS
    <3> HIDE DEF under
    <3> QED  BY <1>1, <1>n, <1>p, <3>1, UnderIs
  <2> HIDE DEF under
  <2>3. IsUnder(walk', n, p)  BY <2>1, <2>2
  <2> QED  BY <2>3 DEF IsUnder
<1>3. p \in CalledBy(walk[n].pou)
  <2>1. n \in DOMAIN walk  BY <1>2
  <2> QED  BY <1>1, <1>2, <2>1 DEF WalkChain
<1>4. \A i \in 1 .. n : (i # n => InRest(i)' = InRest(i))
  BY <1>2 DEF InRest
<1>5. InRest(n)' = {walk'[n].rest[k] : k \in DOMAIN walk'[n].rest}
  BY DEF InRest
<1>6. \A i \in 1 .. n : InRest(i)' \subseteq InRest(i) /\ InRest(i) \subseteq InRest(i)' \cup {p}
                        /\ (i # n => InRest(i)' = InRest(i))
  BY <1>2, <1>4, <1>5
<1>7. Visiting' = Visiting  BY <1>2 DEF Visiting
<1>8. WalkChain'
  <2>1. \A i, j \in DOMAIN walk' : walk'[i].pou = walk'[j].pou => i = j  BY <1>1, <1>2 DEF WalkChain
  <2>2. walk'[1].pou = 1  BY <1>1, <1>2 DEF WalkChain
  <2>3. \A i \in DOMAIN walk' : i + 1 \in DOMAIN walk' => walk'[i + 1].pou \in CalledBy(walk'[i].pou)
    BY <1>1, <1>2 DEF WalkChain
  <2>4. \A i \in DOMAIN walk' : InRest(i)' \subseteq CalledBy(walk'[i].pou)
    BY <1>1, <1>2, <1>6 DEF WalkChain
  <2>5. \A q : (CalledBy(q))' = CalledBy(q)  BY <1>0
  <2> QED  BY <1>2, <2>1, <2>2, <2>3, <2>4, <1>g DEF WalkChain, CalledBy
<1>9. PICK V \in SUBSET Pous : Explored(V)  BY DEF EffInv, Walked
<1>10. p \in V \/ (p \notin Pous /\ "unavailable" \in unknown')  BY <1>9, <1>p DEF Explored
<1>11. \A c : Handled(c, V) => Handled(c, V)'  BY DEF Handled
<1>12. Handled(p, V)'  BY <1>10 DEF Handled
<1>13. Explored(V)'
  <2>1. \A v \in V \ Visiting' : \A c \in CalledBy(v) : Handled(c, V)'
    BY <1>7, <1>9, <1>11 DEF Explored
  <2>2. \A i \in DOMAIN walk' : \A c \in CalledBy(walk'[i].pou) : Handled(c, V)' \/ c \in InRest(i)'
    BY <1>2, <1>6, <1>9, <1>11, <1>12 DEF Explored
  <2>3. \A v \in V : facts'[v] \cap StateFacts \subseteq reasons' /\ facts'[v] \cap UnknownFacts \subseteq unknown'
    BY <1>9, <1>g DEF Explored
  <2>4. V \subseteq Pous /\ 1 \in V /\ Visiting' \subseteq V  BY <1>7, <1>9 DEF Explored
  <2> QED  BY <2>1, <2>2, <2>3, <2>4, <1>0, <1>g DEF Explored, CalledBy
<1>14. PICK F \in SUBSET Pous : Acyclic(F)  BY DEF EffInv, Walked
<1>15. walk' # <<>>
  <2>1. 1 \in DOMAIN walk'  BY <1>2
  <2> QED  BY <2>1
<1>16. Acyclic(F)'
  <2> SUFFICES ASSUME "recursive" \notin unknown' PROVE Acyclic(F)'  BY DEF Acyclic
  <2>1. mark # "recursive" /\ "recursive" \notin unknown  OBVIOUS
  <2>2. p \notin Pous  BY <2>1, <1>p
  <2>3. F \subseteq Pous /\ \A v \in F : CalledBy(v) \cap Pous \subseteq F /\ v \notin Called(v)
    BY <1>14, <2>1 DEF Acyclic
  <2>4. ASSUME NEW i \in DOMAIN walk', NEW c \in CalledBy(walk'[i].pou) \cap Pous
        PROVE  c \in F \/ c \in InRest(i)' \/ (i + 1 \in DOMAIN walk' /\ c = walk'[i + 1].pou)
    <3>1. i \in DOMAIN walk /\ c \in CalledBy(walk[i].pou) /\ c # p  BY <1>2, <2>2, <2>4
    <3>2. c \in F \/ c \in InRest(i) \/ (i + 1 \in DOMAIN walk /\ c = walk[i + 1].pou)
      BY <1>14, <2>1, <3>1, <2>4 DEF Acyclic
    <3> QED  BY <3>1, <3>2, <1>2, <1>6
  <2>5. \A v \in F : (CalledBy(v) \cap Pous \subseteq F /\ v \notin Called(v))'
    BY <2>3, <1>0
  <2> QED  BY <2>3, <2>4, <2>5, <1>15, <1>g DEF Acyclic, CalledBy
<1>17. RecursionIsReal'
  <2>1. CASE mark = "recursive"
    <3>1. PICK j \in 1 .. n : walk[j].pou = p  BY <2>1, <1>2, <1>p DEF Visiting
    <3>2. n \in DOMAIN walk /\ 1 \in DOMAIN walk /\ 1 <= j /\ j <= n /\ j \in DOMAIN walk  BY <1>2
    <3>3. walk[n].pou \in {p} \cup Called(p)  BY <1>0, <1>1, <3>1, <3>2, ChainCalls
    <3>4. p \in Called(p)  BY <1>0, <1>3, <3>3, CalledIs
    <3>5. walk[1].pou = 1  BY <1>1 DEF WalkChain
    <3>6. p \in {1} \cup Called(1)
      <4>1. walk[j].pou \in {walk[1].pou} \cup Called(walk[1].pou)  BY <1>0, <1>1, <3>2, ChainCalls
      <4> QED  BY <4>1, <3>1, <3>5
    <3>7. p \in Pous
      <4> DEFINE X == [pou : Pous, rest : Seq(Nat)]
      <4>1. walk \in Seq(X)  BY <1>1 DEF WalkChain
      <4>2. walk[j] \in X
        <5> HIDE DEF X
        <5> QED  BY <4>1, <3>2, <1>2, <1>n, ElementOfSeq
      <4> QED  BY <4>2, <3>1
    <3>8. p \in Called(p)' /\ p \in ({1} \cup Called(1)')  BY <3>4, <3>6, <1>0
    <3> QED  BY <3>7, <3>8 DEF RecursionIsReal
  <2>2. CASE mark # "recursive"
    <3>1. "recursive" \in unknown' => "recursive" \in unknown  BY <2>2
    <3>2. \A q : Called(q)' = Called(q)  BY <1>0
    <3> QED  BY <3>1, <3>2, <1>1 DEF RecursionIsReal
  <2> QED  BY <2>1, <2>2
<1>18. Walked'  BY <1>8, <1>9, <1>13, <1>14, <1>16, <1>17 DEF Walked
<1>19. ProgramType' /\ ModeIsDerived'  BY DEF EffInv, ProgramType, ModeIsDerived
<1> QED  BY <1>18, <1>19 DEF EffInv

(* A callee is looked at.                                                  *)
LEMMA PushKeeps ==
  ASSUME EffInv, stage = "goals", gphase = "walk", walk # <<>>, Last(walk).rest # <<>>,
         NEW p, p = Head(Last(walk).rest), p \in Pous, p \notin Visiting,
         NEW under, under = [walk EXCEPT ![Len(walk)].rest = Tail(@)],
         walk' = Append(under, [pou |-> p, rest |-> Callees(p)]),
         UNCHANGED <<graph, facts, gphase, goals, stage>>,
         reasons' = reasons \cup (facts[p] \cap StateFacts),
         unknown' = unknown \cup (facts[p] \cap UnknownFacts)
  PROVE  EffInv'
<1>n. PICK n : n = Len(walk)  OBVIOUS
<1>g. graph' = graph /\ facts' = facts  OBVIOUS
<1>0. /\ graph \subseteq Pous \X Nat /\ IsFiniteSet(graph)
      /\ \A q : CalledBy(q)' = CalledBy(q) /\ Called(q)' = Called(q)
  BY ProgramIs, SameCalls DEF EffInv
<1>1. WalkChain /\ RecursionIsReal  BY DEF EffInv, Walked
<1>2. IsUnder(under, n, p)  BY <1>1, <1>n, UnderIs
<1>3. p \in CalledBy(walk[n].pou)
  <2>1. n \in DOMAIN walk /\ p \in InRest(n)  BY <1>2 DEF IsUnder
  <2> QED  BY <1>1, <2>1 DEF WalkChain
<1>4. /\ Callees(p) \in Seq(Nat)
      /\ \A x : x \in CalledBy(p) <=> \E k \in DOMAIN Callees(p) : Callees(p)[k] = x
  BY <1>0, CalleesAre
<1> DEFINE X == [pou : Pous, rest : Seq(Nat)]
           frame == [pou |-> p, rest |-> Callees(p)]
<1>5. frame \in X /\ frame.pou = p /\ frame.rest = Callees(p)  BY <1>4
<1>6. /\ walk' \in Seq(X) /\ DOMAIN walk' = 1 .. (n + 1) /\ n \in Nat /\ n # 0
      /\ walk'[n + 1] = frame /\ \A i \in 1 .. n : walk'[i] = under[i]
  <2>1. under \in Seq(X) /\ Len(under) = n /\ n \in Nat /\ n # 0  BY <1>2 DEF IsUnder
  <2> HIDE DEF X
  <2>2. walk' = Append(under, frame)  OBVIOUS
  <2> HIDE DEF frame
  <2>3. /\ walk' \in Seq(X) /\ Len(walk') = n + 1
        /\ \A i \in 1 .. n : walk'[i] = under[i] /\ walk'[n + 1] = frame
    BY <1>5, <2>1, <2>2, AppendProperties
  <2>4. DOMAIN walk' = 1 .. Len(walk')  BY <2>3
  <2>5. 1 \in 1 .. n  BY <2>1
  <2> QED  BY <2>1, <2>3, <2>4, <2>5
<1> HIDE DEF X, frame
<1>7. /\ DOMAIN walk = 1 .. n
      /\ \A i \in 1 .. n : walk'[i].pou = walk[i].pou /\ (i # n => walk'[i].rest = walk[i].rest)
      /\ walk'[n + 1].pou = p /\ walk'[n + 1].rest = Callees(p)
      /\ InRest(n) = {p} \cup {walk'[n].rest[k] : k \in DOMAIN walk'[n].rest}
  <2>1. n \in 1 .. n  BY <1>6
  <2>2. walk'[n] = under[n]  BY <1>6, <2>1
  <2>3. InRest(n) = {p} \cup {walk'[n].rest[k] : k \in DOMAIN walk'[n].rest}
    BY <2>2, <1>2 DEF IsUnder
  <2>4. \A i \in 1 .. n : walk'[i].pou = walk[i].pou /\ (i # n => walk'[i].rest = walk[i].rest)
    BY <1>2, <1>6 DEF IsUnder
  <2>5. DOMAIN walk = 1 .. n  BY <1>2 DEF IsUnder
  <2> QED  BY <2>3, <2>4, <2>5, <1>5, <1>6
<1>8. \A i \in 1 .. n : InRest(i)' \subseteq InRest(i) /\ InRest(i) \subseteq InRest(i)' \cup {p}
                        /\ (i # n => InRest(i)' = InRest(i))
  <2>1. ASSUME NEW i \in 1 .. n, i # n PROVE InRest(i)' = InRest(i)
    <3>1. walk'[i].rest = walk[i].rest  BY <1>7, <2>1
    <3> QED  BY <3>1 DEF InRest
  <2>2. InRest(n)' = {walk'[n].rest[k] : k \in DOMAIN walk'[n].rest}  BY DEF InRest
  <2> QED  BY <2>1, <2>2, <1>7
<1>9. InRest(n + 1)' = CalledBy(p)
  <2>0. walk'[n + 1].rest = Callees(p)  BY <1>7
  <2>1. InRest(n + 1)' = {walk'[n + 1].rest[k] : k \in DOMAIN walk'[n + 1].rest}  BY DEF InRest
  <2>2. InRest(n + 1)' = {Callees(p)[k] : k \in DOMAIN Callees(p)}  BY <2>0, <2>1
  <2>3. {Callees(p)[k] : k \in DOMAIN Callees(p)} = CalledBy(p)  BY <1>4
  <2> QED  BY <2>2, <2>3
<1>10. Visiting' = Visiting \cup {p} /\ \A i \in 1 .. n : walk[i].pou # p
  <2>1. Visiting = {walk[i].pou : i \in 1 .. n}  BY <1>7 DEF Visiting
  <2>2. Visiting' = {walk'[i].pou : i \in 1 .. (n + 1)}  BY <1>6 DEF Visiting
  <2>3. \A i \in 1 .. (n + 1) : i \in 1 .. n \/ i = n + 1  BY <1>6
  <2>4. n + 1 \in 1 .. (n + 1) /\ \A i \in 1 .. n : i \in 1 .. (n + 1)  BY <1>6
  <2>5. \A i \in 1 .. (n + 1) : walk'[i].pou \in Visiting \cup {p}  BY <2>1, <2>3, <1>7
  <2>6. p \in Visiting'  BY <2>2, <2>4, <1>7
  <2>7. Visiting \subseteq Visiting'
    <3> SUFFICES ASSUME NEW i \in 1 .. n PROVE walk[i].pou \in Visiting'  BY <2>1
    <3>1. walk'[i].pou = walk[i].pou  BY <1>7
    <3>2. i \in 1 .. (n + 1)  BY <2>4
    <3> QED  BY <2>2, <3>1, <3>2
  <2>8. Visiting' \subseteq Visiting \cup {p}  BY <2>2, <2>5
  <2>9. \A i \in 1 .. n : walk[i].pou # p  BY <2>1
  <2> QED  BY <2>6, <2>7, <2>8, <2>9
<1>11. \A i \in 1 .. (n + 1) : i \in 1 .. n \/ i = n + 1  BY <1>6
<1>12. WalkChain'
  <2>1. ASSUME NEW i \in DOMAIN walk', NEW j \in DOMAIN walk', walk'[i].pou = walk'[j].pou PROVE i = j
    <3>1. (i \in 1 .. n \/ i = n + 1) /\ (j \in 1 .. n \/ j = n + 1)  BY <1>6, <1>11
    <3> QED  BY <3>1, <2>1, <1>1, <1>7, <1>10 DEF WalkChain
  <2>2. walk'[1].pou = 1
    <3>1. 1 \in 1 .. n  BY <1>6
    <3> QED  BY <3>1, <1>1, <1>7 DEF WalkChain
  <2>3. ASSUME NEW i \in DOMAIN walk', i + 1 \in DOMAIN walk'
        PROVE  walk'[i + 1].pou \in CalledBy(walk'[i].pou)
    <3>1. i \in 1 .. n /\ (i + 1 \in 1 .. n \/ i = n)  BY <1>6, <2>3
    <3>2. CASE i = n  BY <3>1, <3>2, <1>3, <1>7
    <3>3. CASE i + 1 \in 1 .. n  BY <3>1, <3>3, <1>1, <1>7 DEF WalkChain
    <3> QED  BY <3>1, <3>2, <3>3
  <2>4. ASSUME NEW i \in DOMAIN walk' PROVE InRest(i)' \subseteq CalledBy(walk'[i].pou)
    <3>1. CASE i \in 1 .. n  BY <3>1, <1>1, <1>7, <1>8 DEF WalkChain
    <3>2. CASE i = n + 1  BY <3>2, <1>7, <1>9
    <3> QED  BY <3>1, <3>2, <1>6, <1>11
  <2>5. walk' \in Seq([pou : Pous, rest : Seq(Nat)])  BY <1>6 DEF X
  <2> QED  BY <2>1, <2>2, <2>3, <2>4, <2>5, <1>g DEF WalkChain, CalledBy
<1>13. PICK V \in SUBSET Pous : Explored(V)  BY DEF EffInv, Walked
<1> DEFINE W == V \cup {p}
<1>14. \A c : Handled(c, V) => Handled(c, W)'  BY DEF Handled
<1>15. Handled(p, W)'  BY DEF Handled
<1>16. Explored(W)'
  <2>1. \A v \in W \ Visiting' : \A c \in CalledBy(v) : Handled(c, W)'
    <3>1. W \ Visiting' \subseteq V \ Visiting  BY <1>10
    <3> HIDE DEF W
    <3> QED  BY <3>1, <1>13, <1>14 DEF Explored
  <2>2. ASSUME NEW i \in DOMAIN walk', NEW c \in CalledBy(walk'[i].pou)
        PROVE  Handled(c, W)' \/ c \in InRest(i)'
    <3>1. CASE i \in 1 .. n
      <4>1. Handled(c, V) \/ c \in InRest(i)  BY <3>1, <2>2, <1>7, <1>13 DEF Explored
      <4> HIDE DEF W
      <4> QED  BY <4>1, <3>1, <1>8, <1>14, <1>15
    <3>2. CASE i = n + 1  BY <3>2, <2>2, <1>7, <1>9
    <3> QED  BY <3>1, <3>2, <1>6, <1>11
  <2>3. \A v \in W : facts'[v] \cap StateFacts \subseteq reasons' /\ facts'[v] \cap UnknownFacts \subseteq unknown'
    BY <1>13, <1>g DEF Explored
  <2>4. W \subseteq Pous /\ 1 \in W /\ Visiting' \subseteq W  BY <1>10, <1>13 DEF Explored
  <2> HIDE DEF W
  <2> QED  BY <2>1, <2>2, <2>3, <2>4, <1>g DEF Explored, CalledBy
<1>17. PICK F \in SUBSET Pous : Acyclic(F)  BY DEF EffInv, Walked
<1>18. walk' # <<>>
  <2>1. 1 \in DOMAIN walk'  BY <1>6
  <2> QED  BY <2>1
<1>19. "recursive" \in unknown' <=> "recursive" \in unknown  BY DEF UnknownFacts
<1>20. Acyclic(F)'
  <2> SUFFICES ASSUME "recursive" \notin unknown' PROVE Acyclic(F)'  BY DEF Acyclic
  <2>1. "recursive" \notin unknown  BY <1>19
  <2>3. F \subseteq Pous /\ \A v \in F : CalledBy(v) \cap Pous \subseteq F /\ v \notin Called(v)
    BY <1>17, <2>1 DEF Acyclic
  <2>4. ASSUME NEW i \in DOMAIN walk', NEW c \in CalledBy(walk'[i].pou) \cap Pous
        PROVE  c \in F \/ c \in InRest(i)' \/ (i + 1 \in DOMAIN walk' /\ c = walk'[i + 1].pou)
    <3>1. CASE i \in 1 .. n /\ i # n
      <4>1. i \in DOMAIN walk /\ c \in CalledBy(walk[i].pou) /\ i + 1 \in 1 .. n  BY <1>6, <1>7, <3>1, <2>4
      <4>2. c \in F \/ c \in InRest(i) \/ (i + 1 \in DOMAIN walk /\ c = walk[i + 1].pou)
        BY <1>17, <2>1, <4>1, <2>4 DEF Acyclic
      <4>3. i + 1 \in DOMAIN walk'  BY <4>1, <1>6
      <4> QED  BY <4>1, <4>2, <4>3, <3>1, <1>7, <1>8
    <3>2. CASE i = n
      <4>1. n \in DOMAIN walk /\ c \in CalledBy(walk[n].pou) /\ n + 1 \in DOMAIN walk' /\ n + 1 \notin DOMAIN walk
        BY <1>6, <1>7, <3>2, <2>4
      <4>2. c \in F \/ c \in InRest(n)
        BY <1>17, <2>1, <4>1, <2>4 DEF Acyclic
      <4>3. c \in F \/ c \in InRest(n)' \/ c = p  BY <4>1, <4>2, <1>7, <1>8
      <4> QED  BY <4>1, <4>3, <3>2, <1>7
    <3>3. CASE i = n + 1  BY <3>3, <2>4, <1>7, <1>9
    <3> QED  BY <3>1, <3>2, <3>3, <1>6, <1>11
  <2>5. \A v \in F : (CalledBy(v) \cap Pous \subseteq F /\ v \notin Called(v))'
    BY <2>3, <1>0
  <2> QED  BY <2>3, <2>4, <2>5, <1>18, <1>g DEF Acyclic, CalledBy
<1>21. RecursionIsReal'
  <2>1. \A q : Called(q)' = Called(q)  BY <1>0
  <2> QED  BY <2>1, <1>19, <1>1 DEF RecursionIsReal
<1>22. W \in SUBSET Pous  OBVIOUS
<1> HIDE DEF W
<1>23. Walked'  BY <1>12, <1>16, <1>17, <1>20, <1>21, <1>22 DEF Walked
<1>24. ProgramType' /\ ModeIsDerived'  BY DEF EffInv, ProgramType, ModeIsDerived
<1> QED  BY <1>23, <1>24 DEF EffInv

(* A call is at its end.                                                   *)
LEMMA PopKeeps ==
  ASSUME EffInv, stage = "goals", gphase = "walk", walk # <<>>, Last(walk).rest = <<>>,
         walk' = Front(walk),
         UNCHANGED <<graph, facts, gphase, goals, stage, reasons, unknown>>
  PROVE  EffInv'
<1>n. PICK n : n = Len(walk)  OBVIOUS
<1>g. graph' = graph /\ facts' = facts /\ reasons' = reasons /\ unknown' = unknown  OBVIOUS
<1>0. /\ graph \subseteq Pous \X Nat
      /\ \A q : CalledBy(q)' = CalledBy(q) /\ Called(q)' = Called(q)
      /\ \A q : CalledBy(q) \subseteq Nat
      /\ \A q : q \notin Pous => CalledBy(q) = {}
  BY ProgramIs, SameCalls DEF EffInv
<1>1. WalkChain /\ RecursionIsReal  BY DEF EffInv, Walked
<1> DEFINE X == [pou : Pous, rest : Seq(Nat)]
<1>2. walk \in Seq(X) /\ n \in Nat /\ n # 0 /\ DOMAIN walk = 1 .. n /\ n \in 1 .. n
  <2>1. walk \in Seq(X)  BY <1>1 DEF WalkChain
  <2> HIDE DEF X
  <2>2. n \in Nat /\ DOMAIN walk = 1 .. n  BY <2>1, <1>n
  <2>3. n # 0  BY <2>1, <1>n, EmptySeq
  <2> QED  BY <2>1, <2>2, <2>3
<1>3. PICK v : v = walk[n].pou  OBVIOUS
<1>4. v \in Pous
  <2>1. walk[n] \in X
    <3> HIDE DEF X
    <3> QED  BY <1>2, <1>n, ElementOfSeq
  <2> QED  BY <2>1, <1>3
<1> HIDE DEF X
<1>5. InRest(n) = {}
  <2>1. walk[n].rest = <<>>  BY <1>n DEF Last
  <2> QED  BY <2>1 DEF InRest
<1>6. /\ walk' \in Seq(X) /\ DOMAIN walk' = 1 .. (n - 1)
      /\ \A i \in 1 .. (n - 1) : walk'[i] = walk[i] /\ i \in DOMAIN walk /\ i # n
  <2>0. walk' = SubSeq(walk, 1, n - 1)  BY <1>n DEF Front
  <2>1. /\ walk' \in Seq(X) /\ Len(walk') = n - 1
        /\ \A i \in 1 .. (n - 1) : walk'[i] = walk[i]
    <3>1. n - 1 \in Nat /\ 1 \in 1 .. n + 1 /\ n - 1 \in 0 .. Len(walk)  BY <1>2, <1>n
    <3>2. \A i \in 1 .. (n - 1) : i \in 1 .. Len(walk)  BY <1>2, <1>n
    <3> QED  BY <2>0, <3>1, <3>2, <1>2, <1>n, SubSeqProperties
  <2>2. DOMAIN walk' = 1 .. Len(walk')  BY <2>1
  <2>3. \A i \in 1 .. (n - 1) : i \in 1 .. n /\ i # n  BY <1>2
  <2> QED  BY <2>1, <2>2, <2>3, <1>2
<1>7. \A i \in 1 .. (n - 1) : InRest(i)' = InRest(i)  BY <1>6 DEF InRest
<1>8. Visiting = Visiting' \cup {v} /\ v \notin Visiting'
  <2>1. Visiting = {walk[i].pou : i \in 1 .. n}  BY <1>2 DEF Visiting
  <2>2. Visiting' = {walk'[i].pou : i \in 1 .. (n - 1)}  BY <1>6 DEF Visiting
  <2>3. \A i \in 1 .. n : i \in 1 .. (n - 1) \/ i = n  BY <1>2
  <2>4. \A i \in 1 .. (n - 1) : walk[i].pou # v  BY <1>1, <1>2, <1>3, <1>6 DEF WalkChain
  <2>5. Visiting' = {walk[i].pou : i \in 1 .. (n - 1)}  BY <2>2, <1>6
  <2> QED  BY <2>1, <2>3, <2>4, <2>5, <1>2, <1>3, <1>6
<1>9. WalkChain'
  <2>1. \A i, j \in DOMAIN walk' : walk'[i].pou = walk'[j].pou => i = j  BY <1>1, <1>6 DEF WalkChain
  <2>2. walk' # <<>> => walk'[1].pou = 1
    <3> SUFFICES ASSUME walk' # <<>> PROVE walk'[1].pou = 1  OBVIOUS
    <3>1. n - 1 # 0
      <4> SUFFICES ASSUME n - 1 = 0 PROVE FALSE  OBVIOUS
      <4>1. DOMAIN walk' = 1 .. 0  BY <1>6
      <4>2. Len(walk') = 0  BY <4>1, <1>6
      <4> QED  BY <4>2, <1>6, EmptySeq
    <3>2. 1 \in 1 .. (n - 1)  BY <3>1, <1>2
    <3> QED  BY <3>2, <1>1, <1>6 DEF WalkChain
  <2>3. \A i \in DOMAIN walk' : i + 1 \in DOMAIN walk' => walk'[i + 1].pou \in CalledBy(walk'[i].pou)
    BY <1>1, <1>6 DEF WalkChain
  <2>4. \A i \in DOMAIN walk' : InRest(i)' \subseteq CalledBy(walk'[i].pou)
    BY <1>1, <1>6, <1>7 DEF WalkChain
  <2>5. walk' \in Seq([pou : Pous, rest : Seq(Nat)])  BY <1>6 DEF X
  <2> QED  BY <2>1, <2>2, <2>3, <2>4, <2>5, <1>g DEF WalkChain, CalledBy
<1>10. PICK V \in SUBSET Pous : Explored(V)  BY DEF EffInv, Walked
<1>11. \A c : Handled(c, V)' <=> Handled(c, V)  BY <1>g DEF Handled
<1>12. Explored(V)'
  <2>1. \A w \in V \ Visiting' : \A c \in CalledBy(w) : Handled(c, V)'
    <3>1. \A c \in CalledBy(v) : Handled(c, V)  BY <1>2, <1>3, <1>5, <1>10 DEF Explored
    <3> QED  BY <3>1, <1>8, <1>10, <1>11 DEF Explored
  <2>2. \A i \in DOMAIN walk' : \A c \in CalledBy(walk'[i].pou) : Handled(c, V)' \/ c \in InRest(i)'
    BY <1>6, <1>7, <1>10, <1>11 DEF Explored
  <2>3. \A w \in V : facts'[w] \cap StateFacts \subseteq reasons' /\ facts'[w] \cap UnknownFacts \subseteq unknown'
    BY <1>10, <1>g DEF Explored
  <2>4. V \subseteq Pous /\ 1 \in V /\ Visiting' \subseteq V  BY <1>8, <1>10 DEF Explored
  <2> QED  BY <2>1, <2>2, <2>3, <2>4, <1>g DEF Explored, CalledBy
<1>13. PICK F \in SUBSET Pous : Acyclic(F)  BY DEF EffInv, Walked
<1> DEFINE G == F \cup {v}
<1>14. Acyclic(G)'
  <2> SUFFICES ASSUME "recursive" \notin unknown' PROVE Acyclic(G)'  BY DEF Acyclic
  <2>1. "recursive" \notin unknown  BY <1>g
  <2>2. F \subseteq Pous /\ \A w \in F : CalledBy(w) \cap Pous \subseteq F /\ w \notin Called(w)
    BY <1>13, <2>1 DEF Acyclic
  <2>3. n + 1 \notin DOMAIN walk  BY <1>2
  <2>4. CalledBy(v) \cap Pous \subseteq F
    BY <1>13, <2>1, <2>3, <1>2, <1>3, <1>5 DEF Acyclic
  <2>5. v \notin Called(v)
    <3> DEFINE T == F \cup (Nat \ Pous)
    <3>1. CalledBy(v) \subseteq T  BY <2>4, <1>0
    <3>2. \A x \in T : CalledBy(x) \subseteq T  BY <2>2, <1>0
    <3>3. Called(v) \subseteq T
      <4> HIDE DEF T
      <4> QED  BY <1>0, <3>1, <3>2, CalledIs
    <3>4. v \in Called(v) => v \in F  BY <3>3, <1>4
    <3> QED  BY <3>4, <2>2
  <2>6. \A w \in G : (CalledBy(w) \cap Pous \subseteq G /\ w \notin Called(w))'
    BY <2>2, <2>4, <2>5, <1>0
  <2>7. ASSUME NEW i \in DOMAIN walk', NEW c \in CalledBy(walk'[i].pou) \cap Pous
        PROVE  c \in G \/ c \in InRest(i)' \/ (i + 1 \in DOMAIN walk' /\ c = walk'[i + 1].pou)
    <3>1. i \in DOMAIN walk /\ c \in CalledBy(walk[i].pou) /\ InRest(i)' = InRest(i)
      BY <1>6, <1>7, <2>7
    <3>2. c \in F \/ c \in InRest(i) \/ (i + 1 \in DOMAIN walk /\ c = walk[i + 1].pou)
      BY <1>13, <2>1, <3>1, <2>7 DEF Acyclic
    <3>3. ASSUME i + 1 \in DOMAIN walk, c = walk[i + 1].pou
          PROVE  c = v \/ (i + 1 \in DOMAIN walk' /\ c = walk'[i + 1].pou)
      <4>1. i + 1 = n \/ i + 1 \in 1 .. (n - 1)  BY <3>3, <1>2, <1>6, <2>7
      <4> QED  BY <4>1, <3>3, <1>3, <1>6
    <3> QED  BY <3>1, <3>2, <3>3
  <2>8. walk' = <<>> => 1 \in G
    <3> SUFFICES ASSUME walk' = <<>> PROVE 1 \in G  OBVIOUS
    <3>1. 1 \notin 1 .. (n - 1)
      <4>1. DOMAIN walk' = {}  OBVIOUS
      <4> QED  BY <4>1, <1>6
    <3>2. n = 1  BY <3>1, <1>2
    <3> QED  BY <3>2, <1>1, <1>3 DEF WalkChain
  <2>9. G \subseteq Pous  BY <2>2, <1>4
  <2> HIDE DEF G
  <2> QED  BY <2>6, <2>7, <2>8, <2>9, <1>g DEF Acyclic, CalledBy
<1>15. RecursionIsReal'
  <2>1. \A q : Called(q)' = Called(q)  BY <1>0
  <2> QED  BY <2>1, <1>g, <1>1 DEF RecursionIsReal
<1>16. G \in SUBSET Pous  BY <1>4
<1> HIDE DEF G
<1>17. Walked'  BY <1>9, <1>10, <1>12, <1>14, <1>15, <1>16 DEF Walked
<1>18. ProgramType' /\ ModeIsDerived'  BY DEF EffInv, ProgramType, ModeIsDerived
<1> QED  BY <1>17, <1>18 DEF EffInv

(* The goals are written.                                                  *)
LEMMA WriteGoalsKeeps ==
  ASSUME EffInv, NEW t, NEW count, NEW s, NEW arrays, WriteGoals(t, count, s, arrays), stage' = stage
  PROVE  EffInv'
<1>1. /\ gphase = "walk" /\ walk = <<>> /\ gphase' = "written"
      /\ UNCHANGED <<graph, facts, walk, reasons, unknown>>
  BY DEF WriteGoals
<1>2. \A g \in Range(goals') : g.mode = Mode(t)
  <2>1. goals' = [i \in 1..count |->
       LET full == SeedPrefixes(s, Mode(t), arrays \/ i = 1)
           chosen == Kept(Len(full), i, count) IN
       [mode |-> Mode(t),
        planned |-> Len(full),
        kept |-> chosen,
        frames |-> [k \in DOMAIN chosen |-> full[chosen[k]]]]]
    BY DEF WriteGoals
  <2>2. \A i \in 1 .. count : goals'[i].mode = Mode(t)  BY <2>1
  <2>3. DOMAIN goals' = 1 .. count  BY <2>1
  <2> QED  BY <2>2, <2>3 DEF Range
<1>3. Mode(t) = "single_cycle" => reasons = {} /\ unknown = {}  BY DEF Mode
<1>4. ModeIsDerived'  BY <1>1, <1>2, <1>3 DEF ModeIsDerived
<1>5. ProgramType'  BY <1>1 DEF EffInv, ProgramType
<1>6. Walked'
  <2>0. WalkChain /\ RecursionIsReal  BY <1>1 DEF EffInv, Walked
  <2>1. \A q : CalledBy(q)' = CalledBy(q) /\ Called(q)' = Called(q)  BY <1>1, SameCalls
  <2>i. \A i : InRest(i)' = InRest(i)  BY <1>1 DEF InRest
  <2>c. \A i : CalledBy(walk[i].pou)' = CalledBy(walk[i].pou)  BY <1>1 DEF CalledBy
  <2>2. WalkChain'  BY <1>1, <2>0, <2>i, <2>c DEF WalkChain
  <2>3. RecursionIsReal'  BY <1>1, <2>0, <2>1 DEF RecursionIsReal
  <2>4. PICK V \in SUBSET Pous : Explored(V)  BY <1>1 DEF EffInv, Walked
  <2>5. Explored(V)'  BY <1>1, <2>4 DEF Explored, Handled, InRest, CalledBy, Visiting
  <2>6. PICK F \in SUBSET Pous : Acyclic(F)  BY <1>1 DEF EffInv, Walked
  <2>7. Acyclic(F)'
    <3>1. \A w \in F : (CalledBy(w) \cap Pous \subseteq F /\ w \notin Called(w))' <=>
                       (CalledBy(w) \cap Pous \subseteq F /\ w \notin Called(w))
      BY <2>1
    <3>2. DOMAIN walk' = {} /\ DOMAIN walk = {}  BY <1>1
    <3> QED  BY <1>1, <2>6, <3>1, <3>2 DEF Acyclic
  <2> QED  BY <2>2, <2>3, <2>4, <2>5, <2>6, <2>7 DEF Walked
<1> QED  BY <1>4, <1>5, <1>6 DEF EffInv

(* A step that leaves the goals' variables alone.                          *)
LEMMA GoalsUnchanged ==
  ASSUME EffInv, UNCHANGED gvars, stage' = stage
  PROVE  EffInv'
<1>1. UNCHANGED <<graph, facts, walk, reasons, unknown, gphase, goals>>  BY DEF gvars
<1>2. ProgramType' /\ ModeIsDerived'  BY <1>1 DEF EffInv, ProgramType, ModeIsDerived
<1>3. Walked'
  <2> SUFFICES ASSUME gphase \in {"walk", "written"} PROVE Walked'  BY <1>1 DEF Walked
  <2>0. WalkChain /\ RecursionIsReal  BY <1>1 DEF EffInv, Walked
  <2>1. \A q : CalledBy(q)' = CalledBy(q) /\ Called(q)' = Called(q)  BY <1>1, SameCalls
  <2>i. \A i : InRest(i)' = InRest(i)  BY <1>1 DEF InRest
  <2>c. \A i : CalledBy(walk[i].pou)' = CalledBy(walk[i].pou)  BY <1>1 DEF CalledBy
  <2>2. WalkChain'  BY <1>1, <2>0, <2>i, <2>c DEF WalkChain
  <2>3. RecursionIsReal'  BY <1>1, <2>0, <2>1 DEF RecursionIsReal
  <2>4. PICK V \in SUBSET Pous : Explored(V)  BY <1>1 DEF EffInv, Walked
  <2>5. Explored(V)'  BY <1>1, <2>4 DEF Explored, Handled, InRest, CalledBy, Visiting
  <2>6. PICK F \in SUBSET Pous : Acyclic(F)  BY <1>1 DEF EffInv, Walked
  <2>7. Acyclic(F)'
    <3>1. \A w \in F : (CalledBy(w) \cap Pous \subseteq F /\ w \notin Called(w))' <=>
                       (CalledBy(w) \cap Pous \subseteq F /\ w \notin Called(w))
      BY <2>1
    <3>2. \A i \in DOMAIN walk : InRest(i)' = InRest(i)  BY <1>1 DEF InRest
    <3>3. \A i \in DOMAIN walk : (CalledBy(walk[i].pou))' = CalledBy(walk[i].pou)  BY <1>1 DEF CalledBy
    <3> QED  BY <1>1, <2>6, <3>1, <3>2, <3>3 DEF Acyclic
  <2> QED  BY <2>2, <2>3, <2>4, <2>5, <2>6, <2>7 DEF Walked
<1> QED  BY <1>2, <1>3 DEF EffInv

(* A step after which no walk is under way.                                *)
LEMMA NoWalk ==
  ASSUME ~(gphase' \in {"walk", "written"}), stage' # "goals" \/ (graph' \in CallGraphs /\ facts' \in PouFacts)
  PROVE  EffInv'
BY DEF EffInv, ProgramType, Walked, ModeIsDerived

(* Every step of the preparation keeps the effects' invariant.             *)
LEMMA PrepareKeepsEffects ==
  ASSUME EffInv, [PrepareNext]_all
  PROVE  EffInv'
<1>0. gphase \in {"walk", "written"} => stage = "goals"  BY DEF EffInv, ProgramType
<1>1. CASE UNCHANGED all
  <2>1. UNCHANGED gvars /\ stage' = stage  BY <1>1 DEF all
  <2> QED  BY <2>1, GoalsUnchanged
<1>2. CASE Planning \/ Asking
  <2>1. UNCHANGED gvars /\ stage' = stage  BY <1>2 DEF Planning, Asking
  <2> QED  BY <2>1, GoalsUnchanged
<1>3. CASE PlanWritten
  <2>1. stage = "plan" /\ graph' \in CallGraphs /\ facts' \in PouFacts /\ gphase' = gphase
    BY <1>3 DEF PlanWritten
  <2> QED  BY <2>1, <1>0, NoWalk
<1>4. CASE GoalsWritten
  <2>1. stage' = "batches" /\ gphase' = "over"  BY <1>4 DEF GoalsWritten
  <2> QED  BY <2>1, NoWalk
<1>5. CASE Deriving
  <2>0. stage = "goals" /\ stage' = stage  BY <1>5 DEF Deriving
  <2>1. ASSUME NEW own \in SUBSET {"state", "instance"}, StartEffects(own) PROVE EffInv'
    BY <2>0, <2>1, StartKeeps
  <2>2. ASSUME WalkCalls PROVE EffInv'
    <3>0. /\ gphase = "walk" /\ walk # <<>> /\ UNCHANGED <<graph, facts, gphase, goals>>  BY <2>2 DEF WalkCalls
    <3>1. CASE Last(walk).rest = <<>>
      <4>1. walk' = Front(walk) /\ UNCHANGED <<reasons, unknown>>  BY <2>2, <3>1 DEF WalkCalls
      <4> QED  BY <2>0, <3>0, <3>1, <4>1, PopKeeps
    <3>2. CASE Last(walk).rest # <<>>
      <4>1. PICK p : p = Head(Last(walk).rest)  OBVIOUS
      <4>2. PICK under : under = [walk EXCEPT ![Len(walk)].rest = Tail(@)]  OBVIOUS
      <4>3. Inspect(p, under)  BY <2>2, <3>2, <4>1, <4>2 DEF WalkCalls
      <4>4. CASE p \notin Pous
        <5>1. unknown' = unknown \cup {"unavailable"} /\ walk' = under /\ reasons' = reasons
          BY <4>3, <4>4 DEF Inspect
        <5> QED  BY <2>0, <3>0, <3>2, <4>1, <4>2, <4>4, <5>1, CutKeeps
      <4>5. CASE p \in Pous /\ p \in Visiting
        <5>1. unknown' = unknown \cup {"recursive"} /\ walk' = under /\ reasons' = reasons
          BY <4>3, <4>5 DEF Inspect, Recursive
        <5> QED  BY <2>0, <3>0, <3>2, <4>1, <4>2, <4>5, <5>1, CutKeeps
      <4>6. CASE p \in Pous /\ p \notin Visiting
        <5>1. /\ reasons' = reasons \cup (facts[p] \cap StateFacts)
              /\ unknown' = unknown \cup (facts[p] \cap UnknownFacts)
              /\ walk' = Append(under, [pou |-> p, rest |-> Callees(p)])
          BY <4>3, <4>6 DEF Inspect, Recursive
        <5> QED  BY <2>0, <3>0, <3>2, <4>1, <4>2, <4>6, <5>1, PushKeeps
      <4> QED  BY <4>4, <4>5, <4>6
    <3> QED  BY <3>1, <3>2
  <2>3. ASSUME NEW s \in Shapes, NEW arrays \in BOOLEAN, WriteGoals(temporal, wanted, s, arrays) PROVE EffInv'
    BY <2>0, <2>3, WriteGoalsKeeps
  <2> QED  BY <1>5, <2>1, <2>2, <2>3 DEF Deriving
<1>6. CASE PrepareRest  BY <1>1, <1>6 DEF PrepareRest
<1> QED  BY <1>1, <1>2, <1>3, <1>4, <1>5, <1>6 DEF PrepareNext

(* The initial state.                                                      *)
LEMMA EffectsInit == PrepareInit => EffInv
BY DEF PrepareInit, EffInv, ProgramType, Walked, ModeIsDerived

(* The property.                                                           *)
THEOREM EffectsHold == PrepareSpec => []EffectsAreComplete
<1>1. EffInv /\ [PrepareNext]_all => EffInv'  BY PrepareKeepsEffects
<1>2. EffInv => EffectsAreComplete  BY WalkedIsComplete
<1> QED  BY <1>1, <1>2, EffectsInit, PTL DEF PrepareSpec

(* The successors of a node are listed without omission.                   *)
LEMMA AdjacencyIs ==
  ASSUME NEW n \in Node
  PROVE  /\ Adjacency(n) \in Seq(Successors(n))
         /\ \A m \in Successors(n) : \E i \in 1 .. Len(Adjacency(n)) : Adjacency(n)[i] = m
<1> DEFINE S == Successors(n)
           key == [x \in S |-> x]
           P(s) == s \in [1 .. Cardinality(S) -> S] /\ \A i, j \in DOMAIN s : i < j => s[i] < s[j]
<1>1. IsFiniteSet(S) /\ S \subseteq Nat
  <2>1. S \subseteq Nat /\ S \subseteq Node  BY SearchLimits DEF Successors, Node
  <2>2. IsFiniteSet(Node)  BY SearchLimits, FS_Interval DEF Node
  <2> QED  BY <2>1, <2>2, FS_Subset
<1>2. key \in [S -> Nat] /\ \A x, y \in S : key[x] = key[y] => x = y  BY <1>1
<1>3. \E s : Lists(s, S, key, Cardinality(S))
  <2> HIDE DEF S, key
  <2> QED  BY <1>1, <1>2, Enumeration
<1>4. \A s : P(s) <=> Lists(s, S, key, Cardinality(S))
  <2> SUFFICES ASSUME NEW s, s \in [1 .. Cardinality(S) -> S]
               PROVE  P(s) <=> Lists(s, S, key, Cardinality(S))
    BY DEF Lists
  <2>1. \A i \in 1 .. Cardinality(S) : s[i] \in S /\ key[s[i]] = s[i]  OBVIOUS
  <2>2. DOMAIN s = 1 .. Cardinality(S)  OBVIOUS
  <2> HIDE DEF S, key
  <2> QED  BY <2>1, <2>2 DEF Lists
<1>5. P(Adjacency(n))
  <2>1. Adjacency(n) = CHOOSE s \in [1 .. Cardinality(S) -> S] : \A i, j \in DOMAIN s : i < j => s[i] < s[j]
    BY DEF Adjacency
  <2>2. \E s \in [1 .. Cardinality(S) -> S] : \A i, j \in DOMAIN s : i < j => s[i] < s[j]
    BY <1>3, <1>4
  <2> HIDE DEF S
  <2> QED  BY <2>1, <2>2
<1>6. Lists(Adjacency(n), S, key, Cardinality(S))  BY <1>4, <1>5
<1> HIDE DEF key
<1> QED  BY <1>1, <1>2, <1>6, ListIsAll

(***************************************************************************)
(* The components. What is kept by Tarjan's algorithm, as a predicate of   *)
(* the edges E, the numbers ix, the low links lo, the stack st, the active *)
(* calls cl and the components cs.                                         *)
(***************************************************************************)

(* Where an edge from a node leads.                                        *)
Out(E, u) == {m \in Node : <<u, m>> \in E}
(* The node is on the stack.                                               *)
Stacked(st, m) == \E i \in 1 .. Len(st) : st[i] = m
(* An active call has still to look at this edge.                          *)
Awaits(cl, u, v) ==
  \E i \in 1 .. Len(cl) : cl[i].node = u /\ \E k \in 1 .. Len(cl[i].rest) : cl[i].rest[k] = v
(* The innermost active call that was entered no later than the node.      *)
Owner(ix, cl, i, u) == ix[cl[i].node] <= ix[u] /\ \A j \in i + 1 .. Len(cl) : ix[u] < ix[cl[j].node]

(* The values that the algorithm works on.                                 *)
TType(ix, lo, st, cl, cs) ==
  /\ ix \in [Node -> Nat] /\ lo \in [Node -> Nat] /\ st \in Seq(Node)
  /\ cl \in Seq([node : Node, rest : Seq(Node)]) /\ cs \in SUBSET (SUBSET Node)
(* Nodes are numbered without gaps.                                        *)
TNumbered(ix) ==
  /\ \A m, n \in Node : ix[m] = ix[n] /\ ix[m] > 0 => m = n
  /\ \A m \in Node : ix[m] <= Cardinality({n \in Node : ix[n] > 0})
(* The numbers rise along the stack, and along the calls.                  *)
TStack(ix, st) ==
  /\ \A i \in 1 .. Len(st) : ix[st[i]] > 0
  /\ \A i, j \in 1 .. Len(st) : i < j => ix[st[i]] < ix[st[j]]

(* The numbers rise along the active calls; each is of a node on the       *)
(* stack, and its low link lies between the bottom of the stack and the    *)
(* node itself.                                                            *)
TCalls(ix, lo, st, cl) ==
  /\ \A i, j \in 1 .. Len(cl) : i < j => ix[cl[i].node] < ix[cl[j].node]
  /\ \A i \in 1 .. Len(cl) : /\ Stacked(st, cl[i].node)
                             /\ lo[cl[i].node] <= ix[cl[i].node] /\ ix[st[1]] <= lo[cl[i].node]
(* The outermost call is the bottom of the stack.                          *)
TBottom(st, cl) ==
  /\ Len(cl) = 0 <=> Len(st) = 0
  /\ Len(cl) # 0 => cl[1].node = st[1]
(* A numbered node is on the stack or in one component.                    *)
TSorted(ix, st, cs) ==
  /\ \A m \in Node : ix[m] > 0 <=> Stacked(st, m) \/ \E c \in cs : m \in c
  /\ \A m \in Node : Stacked(st, m) => \A c \in cs : m \notin c
  /\ \A c, d \in cs : \A m \in Node : m \in c /\ m \in d => c = d
(* The owner of a node on the stack knows how far back its edges lead.     *)
TLinked(E, ix, lo, st, cl) ==
  \A u \in Node : Stacked(st, u) => \A v \in Out(E, u) :
    \/ Awaits(cl, u, v)
    \/ /\ ix[v] > 0
       /\ Stacked(st, v) => \A i \in 1 .. Len(cl) : Owner(ix, cl, i, u) => lo[cl[i].node] <= ix[v]
(* No edge leads from a component to one that was found later.             *)
Descending(E, cs, ord, k) ==
  /\ k \in Nat /\ ord \in [cs -> Nat] /\ \A c \in cs : ord[c] < k
  /\ \A c, d \in cs : ord[c] = ord[d] => c = d
  /\ \A c \in cs : \A u \in c : \A v \in Out(E, u) : \E d \in cs : v \in d /\ ord[d] <= ord[c]

(* All of it.                                                              *)
TInv(E, ix, lo, st, cl, cs) ==
  /\ TType(ix, lo, st, cl, cs) /\ TNumbered(ix) /\ TStack(ix, st) /\ TCalls(ix, lo, st, cl) /\ TBottom(st, cl)
  /\ TSorted(ix, st, cs) /\ TLinked(E, ix, lo, st, cl)
  /\ \E ord, k : Descending(E, cs, ord, k)

(* What the types say.                                                     *)
LEMMA TarjanTypes ==
  ASSUME NEW ix, NEW lo, NEW st, NEW cl, NEW cs, TType(ix, lo, st, cl, cs)
  PROVE  /\ Len(st) \in Nat /\ Len(cl) \in Nat
         /\ \A m \in Node : ix[m] \in Nat /\ lo[m] \in Nat
         /\ \A i \in 1 .. Len(st) : st[i] \in Node
         /\ \A i \in 1 .. Len(cl) : cl[i].node \in Node /\ cl[i].rest \in Seq(Node) /\ Len(cl[i].rest) \in Nat
<1>1. st \in Seq(Node) /\ cl \in Seq([node : Node, rest : Seq(Node)])  BY DEF TType
<1>2. \A i \in 1 .. Len(cl) : cl[i] \in [node : Node, rest : Seq(Node)]  BY <1>1, ElementOfSeq
<1>3. \A i \in 1 .. Len(st) : st[i] \in Node  BY <1>1, ElementOfSeq
<1>4. \A m \in Node : ix[m] \in Nat /\ lo[m] \in Nat  BY DEF TType
<1> QED  BY <1>1, <1>2, <1>3, <1>4

(* The nodes that were entered.                                            *)
Seen(ix) == {m \in Node : ix[m] > 0}
(* A list of nodes has every node that an edge leads to.                   *)
ListsAll(adj, E, n) == adj \in Seq(Node) /\ \A m \in Out(E, n) : \E i \in 1 .. Len(adj) : adj[i] = m
(* The calls, after the innermost one has looked at the edge to n.         *)
Underlies(under, cl, n) ==
  /\ under \in Seq([node : Node, rest : Seq(Node)]) /\ Len(under) = Len(cl)
  /\ \A i \in 1 .. Len(cl) : under[i].node = cl[i].node
  /\ \A i \in 1 .. Len(cl) : \A k \in 1 .. Len(cl[i].rest) :
       \/ cl[i].rest[k] = n
       \/ \E l \in 1 .. Len(under[i].rest) : under[i].rest[l] = cl[i].rest[k]

(* A node is entered.                                                      *)
LEMMA EnterKeeps ==
  ASSUME NEW E, NEW ix, NEW lo, NEW st, NEW cl, NEW cs, TInv(E, ix, lo, st, cl, cs),
         NEW n \in Node, ix[n] = 0, NEW number, number = Cardinality(Seen(ix)) + 1,
         NEW adj, ListsAll(adj, E, n), NEW under, Underlies(under, cl, n)
  PROVE  TInv(E, [ix EXCEPT ![n] = number], [lo EXCEPT ![n] = number], Append(st, n),
              Append(under, [node |-> n, rest |-> adj]), cs)
<1>0. /\ TType(ix, lo, st, cl, cs) /\ TNumbered(ix) /\ TStack(ix, st) /\ TCalls(ix, lo, st, cl) /\ TBottom(st, cl)
      /\ TSorted(ix, st, cs) /\ TLinked(E, ix, lo, st, cl)
  BY DEF TInv
<1> DEFINE C == [node : Node, rest : Seq(Node)]
<1>1. PICK ix2, lo2, st2, cl2, call :
        /\ ix2 = [ix EXCEPT ![n] = number] /\ lo2 = [lo EXCEPT ![n] = number] /\ st2 = Append(st, n)
        /\ cl2 = Append(under, call) /\ call = [node |-> n, rest |-> adj]
  OBVIOUS
<1>2. IsFiniteSet(Seen(ix)) /\ Cardinality(Seen(ix)) \in Nat /\ n \notin Seen(ix)
  <2>1. IsFiniteSet(Node)  BY SearchLimits, FS_Interval DEF Node
  <2>2. Seen(ix) \subseteq Node /\ n \notin Seen(ix)  BY DEF Seen
  <2>3. IsFiniteSet(Seen(ix))  BY <2>1, <2>2, FS_Subset
  <2> QED  BY <2>2, <2>3, FS_CardinalityType
<1>3. PICK S, T : S = Len(st) /\ T = Len(cl)  OBVIOUS
<1>4. /\ S \in Nat /\ T \in Nat /\ \A m \in Node : ix[m] \in Nat /\ lo[m] \in Nat
      /\ \A i \in 1 .. S : st[i] \in Node
      /\ \A i \in 1 .. T : cl[i].node \in Node /\ Len(cl[i].rest) \in Nat
  BY <1>0, <1>3, TarjanTypes
<1>5. number \in Nat /\ number > 0 /\ \A m \in Node : ix[m] < number
  <2>1. PICK z : z = Cardinality(Seen(ix))  OBVIOUS
  <2>2. z \in Nat /\ number = z + 1 /\ \A m \in Node : ix[m] <= z  BY <1>0, <1>2, <2>1 DEF TNumbered, Seen
  <2>3. ASSUME NEW m \in Node PROVE ix[m] < number
    <3>1. ix[m] \in Nat /\ ix[m] <= z  BY <2>2, <1>4
    <3> QED  BY <2>2, <3>1
  <2> QED  BY <2>2, <2>3
<1>6. call \in C /\ call.node = n /\ call.rest = adj  BY <1>1 DEF ListsAll
<1>7. /\ st2 \in Seq(Node) /\ Len(st2) = S + 1
      /\ \A i \in 1 .. S : st2[i] = st[i]
      /\ st2[S + 1] = n
  <2>1. st \in Seq(Node)  BY <1>0 DEF TType
  <2> QED  BY <1>1, <1>3, <2>1, AppendProperties
<1>8. /\ cl2 \in Seq(C) /\ Len(cl2) = T + 1 /\ cl2[T + 1] = call
      /\ \A i \in 1 .. T : cl2[i] = under[i]
  <2>1. under \in Seq(C) /\ Len(under) = Len(cl)  BY DEF Underlies
  <2> HIDE DEF C
  <2> QED  BY <1>1, <1>3, <1>6, <2>1, AppendProperties
<1> HIDE DEF C
<1>9. /\ \A m \in Node : m # n => ix2[m] = ix[m] /\ lo2[m] = lo[m]
      /\ ix2[n] = number /\ lo2[n] = number
      /\ ix2 \in [Node -> Nat] /\ lo2 \in [Node -> Nat]
  <2>1. ix \in [Node -> Nat] /\ lo \in [Node -> Nat]  BY <1>0 DEF TType
  <2> QED  BY <1>1, <1>5, <2>1
<1>10. ~Stacked(st, n)  BY <1>0, <1>3, <1>4 DEF TStack, Stacked
<1>11. \A m : Stacked(st2, m) <=> Stacked(st, m) \/ m = n
  <2>1. \A i \in 1 .. S + 1 : i \in 1 .. S \/ i = S + 1  BY <1>4
  <2>2. S + 1 \in 1 .. S + 1 /\ \A i \in 1 .. S : i \in 1 .. S + 1  BY <1>4
  <2> QED  BY <1>3, <1>7, <2>1, <2>2 DEF Stacked
<1>12. \A i \in 1 .. T : /\ cl2[i].node = cl[i].node /\ cl[i].node # n /\ cl[i].node \in Node
                         /\ ix2[cl[i].node] = ix[cl[i].node] /\ lo2[cl[i].node] = lo[cl[i].node]
                         /\ ix[cl[i].node] < number
  <2> SUFFICES ASSUME NEW i \in 1 .. T
               PROVE  /\ cl2[i].node = cl[i].node /\ cl[i].node # n /\ cl[i].node \in Node
                      /\ ix2[cl[i].node] = ix[cl[i].node] /\ lo2[cl[i].node] = lo[cl[i].node]
                      /\ ix[cl[i].node] < number
    OBVIOUS
  <2>1. cl2[i].node = cl[i].node  BY <1>3, <1>8 DEF Underlies
  <2>2. Stacked(st, cl[i].node)  BY <1>0, <1>3 DEF TCalls
  <2>3. cl[i].node \in Node /\ cl[i].node # n  BY <1>4, <1>10, <2>2
  <2> QED  BY <2>1, <2>3, <1>5, <1>9
<1>13. cl2[T + 1].node = n /\ cl2[T + 1].rest = adj  BY <1>6, <1>8
<1>14. \A i \in 1 .. T + 1 : (i \in 1 .. T /\ i # T + 1) \/ i = T + 1  BY <1>4
<1>15. TType(ix2, lo2, st2, cl2, cs)  BY <1>0, <1>7, <1>8, <1>9 DEF TType, C
<1>16. TNumbered(ix2)
  <2>1. Seen(ix2) = Seen(ix) \cup {n}
    <3>1. \A m \in Node : ix2[m] > 0 <=> ix[m] > 0 \/ m = n  BY <1>5, <1>9
    <3> QED  BY <3>1 DEF Seen
  <2>2. Cardinality(Seen(ix) \cup {n}) = number  BY <1>2, FS_AddElement
  <2>3. ASSUME NEW m \in Node PROVE ix2[m] <= number /\ ix2[m] \in Nat
    <3>1. ix[m] \in Nat /\ ix[m] < number  BY <1>4, <1>5
    <3>2. ix2[m] = ix[m] \/ ix2[m] = number  BY <1>9
    <3> QED  BY <3>1, <3>2, <1>5
  <2>4. ASSUME NEW a \in Node, NEW b \in Node, ix2[a] = ix2[b], ix2[a] > 0 PROVE a = b
    <3>0. ix[a] \in Nat /\ ix[a] < number /\ ix[b] \in Nat /\ ix[b] < number  BY <1>4, <1>5
    <3>1. CASE a # n /\ b # n
      <4>1. ix[a] = ix[b] /\ ix[a] > 0  BY <3>1, <2>4, <1>9
      <4> QED  BY <4>1, <1>0 DEF TNumbered
    <3>2. CASE a = n /\ b # n
      <4>1. ix[b] = number  BY <3>2, <2>4, <1>9
      <4> QED  BY <4>1, <3>0, <1>5
    <3>3. CASE a # n /\ b = n
      <4>1. ix[a] = number  BY <3>3, <2>4, <1>9
      <4> QED  BY <4>1, <3>0, <1>5
    <3> QED  BY <3>1, <3>2, <3>3
  <2>5. \A m \in Node : ix2[m] <= Cardinality(Seen(ix2))  BY <2>1, <2>2, <2>3
  <2> QED  BY <2>4, <2>5 DEF TNumbered, Seen
<1>17. TStack(ix2, st2)
  <2>1. \A i \in 1 .. S : /\ st2[i] = st[i] /\ ix2[st[i]] = ix[st[i]] /\ ix[st[i]] < number /\ ix[st[i]] > 0
                          /\ ix[st[i]] \in Nat
    <3>1. \A i \in 1 .. S : st[i] # n  BY <1>3, <1>10 DEF Stacked
    <3> QED  BY <3>1, <1>0, <1>3, <1>4, <1>5, <1>7, <1>9 DEF TStack
  <2>2. \A i \in 1 .. S + 1 : i \in 1 .. S \/ i = S + 1  BY <1>4
  <2>3. ASSUME NEW i \in 1 .. S + 1 PROVE ix2[st2[i]] > 0
    <3>1. CASE i \in 1 .. S  BY <3>1, <2>1
    <3>2. CASE i = S + 1
      <4>1. ix2[st2[i]] = number  BY <3>2, <1>7, <1>9
      <4> QED  BY <4>1, <1>5
    <3> QED  BY <3>1, <3>2, <2>2
  <2>4. ASSUME NEW i \in 1 .. S + 1, NEW j \in 1 .. S + 1, i < j PROVE ix2[st2[i]] < ix2[st2[j]]
    <3>1. i \in 1 .. S  BY <1>4, <2>4
    <3>2. CASE j \in 1 .. S  BY <3>1, <3>2, <2>1, <2>4, <1>0, <1>3 DEF TStack
    <3>3. CASE j = S + 1
      <4>1. ix2[st2[j]] = number  BY <3>3, <1>7, <1>9
      <4>2. ix2[st2[i]] = ix[st[i]] /\ ix[st[i]] < number  BY <3>1, <2>1
      <4> QED  BY <4>1, <4>2
    <3> QED  BY <3>2, <3>3, <2>2
  <2> QED  BY <2>3, <2>4, <1>7 DEF TStack
<1>18. S # 0 => st2[1] = st[1] /\ ix2[st[1]] = ix[st[1]] /\ ix[st[1]] < number /\ ix[st[1]] \in Nat
  <2> SUFFICES ASSUME S # 0 PROVE st2[1] = st[1] /\ ix2[st[1]] = ix[st[1]] /\ ix[st[1]] < number /\ ix[st[1]] \in Nat
    OBVIOUS
  <2>1. 1 \in 1 .. S  BY <1>4
  <2>2. st[1] \in Node /\ st[1] # n  BY <2>1, <1>3, <1>4, <1>10 DEF Stacked
  <2> QED  BY <2>1, <2>2, <1>4, <1>5, <1>7, <1>9
<1>19. TCalls(ix2, lo2, st2, cl2)
  <2>1. ASSUME NEW i \in 1 .. T + 1, NEW j \in 1 .. T + 1, i < j
        PROVE  ix2[cl2[i].node] < ix2[cl2[j].node]
    <3>1. i \in 1 .. T  BY <1>4, <2>1
    <3>0. ix2[cl2[i].node] = ix[cl[i].node] /\ ix[cl[i].node] < number  BY <3>1, <1>12
    <3>2. CASE j \in 1 .. T
      <4>1. ix2[cl2[j].node] = ix[cl[j].node]  BY <3>2, <1>12
      <4>2. ix[cl[i].node] < ix[cl[j].node]  BY <3>1, <3>2, <2>1, <1>0, <1>3 DEF TCalls
      <4> QED  BY <3>0, <4>1, <4>2
    <3>3. CASE j = T + 1
      <4>1. ix2[cl2[j].node] = number  BY <3>3, <1>13, <1>9
      <4> QED  BY <3>0, <4>1
    <3> QED  BY <3>2, <3>3, <1>14
  <2>2. ASSUME NEW i \in 1 .. T + 1
        PROVE  Stacked(st2, cl2[i].node) /\ lo2[cl2[i].node] <= ix2[cl2[i].node] /\ ix2[st2[1]] <= lo2[cl2[i].node]
    <3>1. CASE i \in 1 .. T
      <4>1. Stacked(st, cl[i].node) /\ lo[cl[i].node] <= ix[cl[i].node] /\ ix[st[1]] <= lo[cl[i].node]
        BY <3>1, <1>0, <1>3 DEF TCalls
      <4>2. S # 0  BY <4>1, <1>3 DEF Stacked
      <4> QED  BY <3>1, <4>1, <4>2, <1>11, <1>12, <1>18
    <3>2. CASE i = T + 1
      <4>1. Stacked(st2, n)  BY <1>11
      <4>2. ix2[st2[1]] <= number
        <5>1. CASE S = 0
          <6>1. S + 1 = 1  BY <5>1
          <6>2. st2[1] = n  BY <6>1, <1>7
          <6> QED  BY <6>2, <1>9, <1>5
        <5>2. CASE S # 0  BY <5>2, <1>18, <1>5
        <5> QED  BY <5>1, <5>2
      <4> QED  BY <3>2, <4>1, <4>2, <1>13, <1>9, <1>5
    <3> QED  BY <3>1, <3>2, <1>14
  <2> QED  BY <2>1, <2>2, <1>8 DEF TCalls
<1>20. TBottom(st2, cl2)
  <2>1. Len(st2) # 0 /\ Len(cl2) # 0  BY <1>4, <1>7, <1>8
  <2>2. CASE T = 0
    <3>1. S = 0 /\ T + 1 = 1 /\ S + 1 = 1  BY <2>2, <1>0, <1>3 DEF TBottom
    <3>2. st2[1] = n /\ cl2[1].node = n  BY <3>1, <1>7, <1>13
    <3> QED  BY <2>1, <3>2 DEF TBottom
  <2>3. CASE T # 0
    <3>1. 1 \in 1 .. T /\ cl[1].node = st[1] /\ S # 0  BY <2>3, <1>0, <1>3, <1>4 DEF TBottom
    <3>2. cl2[1].node = st2[1]  BY <3>1, <1>12, <1>18
    <3> QED  BY <2>1, <3>2 DEF TBottom
  <2> QED  BY <2>2, <2>3
<1>21. TSorted(ix2, st2, cs)
  <2>1. \A c \in cs : n \notin c  BY <1>0, <1>4 DEF TSorted
  <2>2. \A m \in Node : ix2[m] > 0 <=> ix[m] > 0 \/ m = n  BY <1>5, <1>9
  <2> QED  BY <2>1, <2>2, <1>0, <1>11 DEF TSorted
<1>22. TLinked(E, ix2, lo2, st2, cl2)
  <2>1. SUFFICES ASSUME NEW u \in Node, Stacked(st2, u), NEW v \in Out(E, u), ~Awaits(cl2, u, v)
                 PROVE  /\ ix2[v] > 0
                        /\ Stacked(st2, v) => \A i \in 1 .. Len(cl2) : Owner(ix2, cl2, i, u) => lo2[cl2[i].node] <= ix2[v]
    BY DEF TLinked
  <2>0. v \in Node  BY DEF Out
  <2>2. CASE u = n
    <3>1. PICK k \in 1 .. Len(adj) : adj[k] = v  BY <2>2 DEF ListsAll
    <3>2. T + 1 \in 1 .. Len(cl2)  BY <1>4, <1>8
    <3>3. Awaits(cl2, n, v)  BY <3>1, <3>2, <1>13 DEF Awaits
    <3> QED  BY <3>3, <2>1, <2>2
  <2>3. CASE u # n
    <3>1. Stacked(st, u) /\ ix2[u] = ix[u] /\ ix[u] < number  BY <2>1, <2>3, <1>5, <1>9, <1>11
    <3>2. ASSUME NEW i \in 1 .. Len(cl2), Owner(ix2, cl2, i, u)
          PROVE  i \in 1 .. T /\ Owner(ix, cl, i, u)
      <4>0. ix2[cl2[i].node] <= ix2[u] /\ \A j \in i + 1 .. Len(cl2) : ix2[u] < ix2[cl2[j].node]
        BY <3>2 DEF Owner
      <4>1. i # T + 1
        <5> SUFFICES ASSUME i = T + 1 PROVE FALSE  OBVIOUS
        <5>1. number <= ix[u]  BY <4>0, <3>1, <1>9, <1>13
        <5> QED  BY <5>1, <3>1, <1>4, <1>5
      <4>2. i \in 1 .. T  BY <4>1, <1>8, <1>14
      <4>3. \A j \in i + 1 .. T : j \in i + 1 .. Len(cl2) /\ j \in 1 .. T  BY <4>2, <1>4, <1>8
      <4>4. \A j \in i + 1 .. T : ix[u] < ix[cl[j].node]  BY <4>0, <4>3, <3>1, <1>12
      <4>5. ix[cl[i].node] <= ix[u]  BY <4>0, <4>2, <3>1, <1>12
      <4> QED  BY <4>2, <4>4, <4>5, <1>3 DEF Owner
    <3>3. CASE Awaits(cl, u, v)
      <4>1. PICK i \in 1 .. T : cl[i].node = u /\ \E k \in 1 .. Len(cl[i].rest) : cl[i].rest[k] = v
        BY <3>3, <1>3 DEF Awaits
      <4>2. v = n
        <5> SUFFICES ASSUME v # n PROVE FALSE  OBVIOUS
        <5>1. PICK k \in 1 .. Len(cl[i].rest) : cl[i].rest[k] = v  BY <4>1
        <5>2. \E l \in 1 .. Len(under[i].rest) : under[i].rest[l] = v  BY <5>1, <1>3 DEF Underlies
        <5>3. i \in 1 .. Len(cl2) /\ cl2[i] = under[i] /\ cl2[i].node = u
          <6>1. i \in 1 .. T + 1  BY <1>4
          <6>2. cl2[i].node = cl[i].node  BY <1>12
          <6> QED  BY <6>1, <6>2, <4>1, <1>8
        <5>4. Awaits(cl2, u, v)  BY <5>2, <5>3 DEF Awaits
        <5> QED  BY <5>4, <2>1
      <4>3. ASSUME NEW k \in 1 .. T PROVE lo2[cl2[k].node] <= number
        <5>1. lo[cl[k].node] <= ix[cl[k].node]  BY <1>0, <1>3 DEF TCalls
        <5>2. lo[cl[k].node] \in Nat /\ ix[cl[k].node] \in Nat  BY <1>4
        <5> QED  BY <5>1, <5>2, <1>12, <1>5
      <4> QED  BY <4>2, <4>3, <3>2, <1>9, <1>5
    <3>4. CASE ~Awaits(cl, u, v)
      <4>1. ix[v] > 0 /\ (Stacked(st, v) => \A i \in 1 .. T : Owner(ix, cl, i, u) => lo[cl[i].node] <= ix[v])
        BY <3>1, <3>4, <1>0, <1>3 DEF TLinked
      <4>2. v # n /\ ix2[v] = ix[v]  BY <4>1, <1>9, <2>0
      <4>3. Stacked(st2, v) => Stacked(st, v)  BY <4>2, <1>11
      <4>4. ASSUME Stacked(st2, v), NEW i \in 1 .. Len(cl2), Owner(ix2, cl2, i, u) PROVE lo2[cl2[i].node] <= ix2[v]
        <5>1. i \in 1 .. T /\ Owner(ix, cl, i, u)  BY <4>4, <3>2
        <5> QED  BY <5>1, <4>1, <4>2, <4>3, <4>4, <1>12
      <4> QED  BY <4>1, <4>2, <4>4
    <3> QED  BY <3>3, <3>4
  <2> QED  BY <2>2, <2>3
<1>23. TInv(E, ix2, lo2, st2, cl2, cs)
  BY <1>15, <1>16, <1>17, <1>19, <1>20, <1>21, <1>22 DEF TInv
<1> QED  BY <1>1, <1>23, Zenon

(* The calls after the innermost one has looked at the first edge of its   *)
(* list.                                                                   *)
Looked(cl2, cl) ==
  /\ cl2 \in Seq([node : Node, rest : Seq(Node)]) /\ Len(cl2) = Len(cl)
  /\ \A i \in 1 .. Len(cl) - 1 : cl2[i] = cl[i]
  /\ cl2[Len(cl)].node = cl[Len(cl)].node
  /\ Len(cl[Len(cl)].rest) # 0
  /\ \A k \in 1 .. Len(cl[Len(cl)].rest) : k # 1 =>
       \E l \in 1 .. Len(cl2[Len(cl)].rest) : cl2[Len(cl)].rest[l] = cl[Len(cl)].rest[k]

(* Only that edge is no longer awaited.                                    *)
LEMMA LookedAwaits ==
  ASSUME NEW cl, NEW cl2, Looked(cl2, cl), Len(cl) \in Nat, Len(cl) # 0, NEW u, NEW v, Awaits(cl, u, v)
  PROVE  Awaits(cl2, u, v) \/ (u = cl[Len(cl)].node /\ v = cl[Len(cl)].rest[1])
<1>0. PICK T : T = Len(cl)  OBVIOUS
<1>1. PICK i \in 1 .. T : cl[i].node = u /\ \E k \in 1 .. Len(cl[i].rest) : cl[i].rest[k] = v
  BY <1>0 DEF Awaits
<1>2. PICK k \in 1 .. Len(cl[i].rest) : cl[i].rest[k] = v  BY <1>1
<1>3. Len(cl2) = T  BY <1>0 DEF Looked
<1>4. CASE i # T
  <2>1. i \in 1 .. T - 1  BY <1>0, <1>4
  <2>2. cl2[i] = cl[i]  BY <1>0, <2>1 DEF Looked
  <2> QED  BY <1>1, <1>2, <1>3, <2>2 DEF Awaits
<1>5. CASE i = T
  <2>1. CASE k = 1  BY <1>0, <1>1, <1>2, <1>5, <2>1
  <2>2. CASE k # 1
    <3>1. \E l \in 1 .. Len(cl2[T].rest) : cl2[T].rest[l] = v  BY <1>0, <1>2, <1>5, <2>2 DEF Looked
    <3>2. cl2[T].node = u  BY <1>0, <1>1, <1>5 DEF Looked
    <3> QED  BY <3>1, <3>2, <1>3, <1>5 DEF Awaits
  <2> QED  BY <2>1, <2>2
<1> QED  BY <1>4, <1>5

(* An edge to a node that was entered before.                              *)
LEMMA LookBackKeeps ==
  ASSUME NEW E, NEW ix, NEW lo, NEW st, NEW cl, NEW cs, TInv(E, ix, lo, st, cl, cs),
         Len(cl) # 0, NEW cl2, Looked(cl2, cl),
         NEW n, n = cl[Len(cl)].node, NEW m \in Node, m = cl[Len(cl)].rest[1], ix[m] > 0,
         NEW link, link = IF Stacked(st, m) THEN Min2(lo[n], ix[m]) ELSE lo[n]
  PROVE  TInv(E, ix, [lo EXCEPT ![n] = link], st, cl2, cs)
<1>0. /\ TType(ix, lo, st, cl, cs) /\ TNumbered(ix) /\ TStack(ix, st) /\ TCalls(ix, lo, st, cl) /\ TBottom(st, cl)
      /\ TSorted(ix, st, cs) /\ TLinked(E, ix, lo, st, cl)
  BY DEF TInv
<1>1. PICK lo2, T, S : lo2 = [lo EXCEPT ![n] = link] /\ T = Len(cl) /\ S = Len(st)  OBVIOUS
<1>2. /\ S \in Nat /\ T \in Nat /\ T # 0 /\ \A x \in Node : ix[x] \in Nat /\ lo[x] \in Nat
      /\ \A i \in 1 .. S : st[i] \in Node
      /\ \A i \in 1 .. T : cl[i].node \in Node /\ Len(cl[i].rest) \in Nat
  BY <1>0, <1>1, TarjanTypes
<1>3. T \in 1 .. T /\ n \in Node /\ n = cl[T].node  BY <1>1, <1>2
<1>4. lo[n] \in Nat /\ ix[m] \in Nat /\ ix[n] \in Nat  BY <1>2, <1>3
<1>5. link \in Nat /\ link <= lo[n] /\ (Stacked(st, m) => link <= ix[m]) /\ (link = lo[n] \/ (Stacked(st, m) /\ link = ix[m]))
  <2>1. PICK a, b : a = lo[n] /\ b = ix[m]  OBVIOUS
  <2> QED  BY <1>4, <2>1 DEF Min2
<1>6. lo2 \in [Node -> Nat] /\ lo2[n] = link /\ \A x \in Node : x # n => lo2[x] = lo[x]
  <2>1. lo \in [Node -> Nat]  BY <1>0 DEF TType
  <2> QED  BY <1>1, <1>3, <1>5, <2>1
<1>7. \A x \in Node : lo2[x] <= lo[x] /\ lo2[x] \in Nat  BY <1>2, <1>5, <1>6
<1>8. \A i \in 1 .. T : cl2[i].node = cl[i].node
  <2>1. \A i \in 1 .. T : i \in 1 .. T - 1 \/ i = T  BY <1>2
  <2> QED  BY <1>1, <2>1 DEF Looked
<1>9. Len(cl2) = T  BY <1>1 DEF Looked
<1>10. TType(ix, lo2, st, cl2, cs)  BY <1>0, <1>6 DEF TType, Looked
<1>11. ASSUME Stacked(st, m) PROVE ix[st[1]] <= ix[m]
  <2>1. PICK k \in 1 .. S : st[k] = m  BY <1>1, <1>11 DEF Stacked
  <2>2. 1 \in 1 .. S /\ (k = 1 \/ 1 < k)  BY <1>2
  <2>3. CASE k = 1  BY <2>1, <2>3, <1>4
  <2>4. CASE 1 < k
    <3>1. ix[st[1]] < ix[st[k]]  BY <2>2, <2>4, <1>0, <1>1 DEF TStack
    <3>2. ix[st[1]] \in Nat  BY <2>2, <1>2
    <3> QED  BY <2>1, <3>1, <3>2, <1>4
  <2> QED  BY <2>2, <2>3, <2>4
<1>12. TCalls(ix, lo2, st, cl2)
  <2>1. ASSUME NEW i \in 1 .. T, NEW j \in 1 .. T, i < j PROVE ix[cl2[i].node] < ix[cl2[j].node]
    BY <2>1, <1>0, <1>1, <1>8 DEF TCalls
  <2>2. ASSUME NEW i \in 1 .. T
        PROVE  Stacked(st, cl2[i].node) /\ lo2[cl2[i].node] <= ix[cl2[i].node] /\ ix[st[1]] <= lo2[cl2[i].node]
    <3>0. PICK x \in Node : x = cl[i].node  BY <1>2
    <3>1. Stacked(st, x) /\ lo[x] <= ix[x] /\ ix[st[1]] <= lo[x]  BY <3>0, <1>0, <1>1 DEF TCalls
    <3>2. lo2[x] <= lo[x] /\ lo2[x] \in Nat /\ lo[x] \in Nat /\ ix[x] \in Nat  BY <1>2, <1>7
    <3>3. lo2[x] <= ix[x]  BY <3>1, <3>2
    <3>4. ix[st[1]] <= lo2[x]
      <4>1. CASE x # n  BY <4>1, <1>6, <3>1
      <4>2. CASE x = n  BY <4>2, <1>5, <1>6, <1>11, <3>1
      <4> QED  BY <4>1, <4>2
    <3> QED  BY <3>0, <3>1, <3>3, <3>4, <1>8
  <2> QED  BY <2>1, <2>2, <1>9 DEF TCalls
<1>13. TBottom(st, cl2)
  <2>1. 1 \in 1 .. T  BY <1>2
  <2>2. cl2[1].node = cl[1].node  BY <2>1, <1>8
  <2> QED  BY <1>0, <1>1, <1>2, <1>9, <2>2 DEF TBottom
<1>14. TLinked(E, ix, lo2, st, cl2)
  <2>1. SUFFICES ASSUME NEW u \in Node, Stacked(st, u), NEW v \in Out(E, u), ~Awaits(cl2, u, v)
                 PROVE  /\ ix[v] > 0
                        /\ Stacked(st, v) => \A i \in 1 .. Len(cl2) : Owner(ix, cl2, i, u) => lo2[cl2[i].node] <= ix[v]
    BY DEF TLinked
  <2>0. v \in Node  BY DEF Out
  <2>2. ASSUME NEW i \in 1 .. T, Owner(ix, cl2, i, u) PROVE Owner(ix, cl, i, u)
    <3>1. \A j \in i + 1 .. T : j \in 1 .. T  BY <1>2
    <3>2. ix[cl2[i].node] <= ix[u] /\ \A j \in i + 1 .. T : ix[u] < ix[cl2[j].node]  BY <2>2, <1>9 DEF Owner
    <3>3. ix[cl[i].node] <= ix[u] /\ \A j \in i + 1 .. T : ix[u] < ix[cl[j].node]  BY <3>1, <3>2, <1>8
    <3> QED  BY <3>3, <1>1 DEF Owner
  <2>3. CASE Awaits(cl, u, v)
    <3>1. u = n /\ v = m  BY <2>1, <2>3, <1>1, <1>2, LookedAwaits
    <3>2. ASSUME Stacked(st, v), NEW i \in 1 .. T, Owner(ix, cl, i, u) PROVE lo2[cl2[i].node] <= ix[v]
      <4>1. i = T
        <5> SUFFICES ASSUME i # T PROVE FALSE  OBVIOUS
        <5>1. T \in i + 1 .. T  BY <1>2
        <5>2. ix[n] < ix[n]  BY <5>1, <3>1, <3>2, <1>1, <1>3 DEF Owner
        <5> QED  BY <5>2, <1>4
      <4> QED  BY <4>1, <3>1, <3>2, <1>3, <1>5, <1>6, <1>8
    <3> QED  BY <3>1, <3>2, <2>2, <1>9
  <2>4. CASE ~Awaits(cl, u, v)
    <3>1. ix[v] > 0 /\ (Stacked(st, v) => \A i \in 1 .. T : Owner(ix, cl, i, u) => lo[cl[i].node] <= ix[v])
      BY <2>1, <2>4, <1>0, <1>1 DEF TLinked
    <3>2. ASSUME Stacked(st, v), NEW i \in 1 .. T, Owner(ix, cl2, i, u) PROVE lo2[cl2[i].node] <= ix[v]
      <4>1. lo[cl[i].node] <= ix[v]  BY <3>1, <3>2, <2>2
      <4>2. PICK x \in Node : x = cl[i].node  BY <1>2
      <4>3. lo2[x] <= lo[x] /\ lo2[x] \in Nat /\ lo[x] \in Nat /\ ix[v] \in Nat  BY <1>2, <1>7, <2>0
      <4>4. lo2[x] <= ix[v]  BY <4>1, <4>2, <4>3
      <4> QED  BY <4>2, <4>4, <1>8
    <3> QED  BY <3>1, <3>2, <1>9
  <2> QED  BY <2>3, <2>4
<1>15. TInv(E, ix, lo2, st, cl2, cs)
  BY <1>0, <1>10, <1>12, <1>13, <1>14 DEF TInv
<1> QED  BY <1>1, <1>15, Zenon

(* The calls without the innermost one, whose list is empty.               *)
Returned(cl2, cl) ==
  /\ cl2 \in Seq([node : Node, rest : Seq(Node)]) /\ Len(cl2) = Len(cl) - 1
  /\ \A i \in 1 .. Len(cl) - 1 : cl2[i] = cl[i]
  /\ Len(cl[Len(cl)].rest) = 0

(* Its low link goes to the call below.                                    *)
Handed(lo2, lo, cl, n) ==
  IF Len(cl) = 1 THEN lo2 = lo
  ELSE lo2 = [lo EXCEPT ![cl[Len(cl) - 1].node] = Min2(lo[cl[Len(cl) - 1].node], lo[n])]

(* The call below knows what the innermost one knew.                       *)
LEMMA HandedIs ==
  ASSUME NEW E, NEW ix, NEW lo, NEW st, NEW cl, NEW cs, TInv(E, ix, lo, st, cl, cs),
         Len(cl) # 0, NEW n, n = cl[Len(cl)].node, NEW lo2, Handed(lo2, lo, cl, n)
  PROVE  /\ lo2 \in [Node -> Nat] /\ \A x \in Node : lo2[x] <= lo[x]
         /\ Len(cl) # 1 => lo2[cl[Len(cl) - 1].node] <= lo[n]
         /\ \A i \in 1 .. Len(cl) : ix[st[1]] <= lo2[cl[i].node] /\ lo2[cl[i].node] <= ix[cl[i].node]
<1>0. TType(ix, lo, st, cl, cs) /\ TCalls(ix, lo, st, cl)  BY DEF TInv
<1>1. PICK T : T = Len(cl)  OBVIOUS
<1>2. /\ T \in Nat /\ T # 0 /\ \A x \in Node : ix[x] \in Nat /\ lo[x] \in Nat
      /\ \A i \in 1 .. T : cl[i].node \in Node
  BY <1>0, <1>1, TarjanTypes
<1>3. T \in 1 .. T /\ n = cl[T].node /\ n \in Node /\ lo \in [Node -> Nat]  BY <1>0, <1>1, <1>2 DEF TType
<1>4. \A i \in 1 .. T : ix[st[1]] <= lo[cl[i].node] /\ lo[cl[i].node] <= ix[cl[i].node]  BY <1>0, <1>1 DEF TCalls
<1>5. CASE T = 1
  <2>1. lo2 = lo  BY <1>1, <1>5 DEF Handed
  <2> QED  BY <2>1, <1>1, <1>2, <1>3, <1>4, <1>5
<1>6. CASE T # 1
  <2>1. T - 1 \in 1 .. T  BY <1>2, <1>6
  <2>2. PICK p \in Node : p = cl[T - 1].node  BY <2>1, <1>2
  <2>3. PICK a, b : a = lo[p] /\ b = lo[n]  OBVIOUS
  <2>4. lo2 = [lo EXCEPT ![p] = Min2(a, b)]  BY <1>1, <1>6, <2>2, <2>3 DEF Handed
  <2>5. a \in Nat /\ b \in Nat  BY <1>2, <1>3, <2>3
  <2>6. PICK z : z = Min2(a, b)  OBVIOUS
  <2>7. z \in Nat /\ z <= a /\ z <= b /\ (z = a \/ z = b)  BY <2>5, <2>6 DEF Min2
  <2>8. lo2 \in [Node -> Nat] /\ lo2[p] = z /\ \A x \in Node : x # p => lo2[x] = lo[x]
    BY <1>3, <2>4, <2>6, <2>7
  <2>9. \A x \in Node : lo2[x] <= lo[x] /\ lo2[x] \in Nat  BY <1>2, <2>3, <2>7, <2>8
  <2>10. ix[st[1]] <= a /\ ix[st[1]] <= b  BY <1>3, <1>4, <2>1, <2>2, <2>3
  <2>11. ASSUME NEW i \in 1 .. T PROVE ix[st[1]] <= lo2[cl[i].node] /\ lo2[cl[i].node] <= ix[cl[i].node]
    <3>0. PICK x \in Node : x = cl[i].node  BY <1>2
    <3>1. ix[st[1]] <= lo[x] /\ lo[x] <= ix[x]  BY <1>4, <3>0
    <3>2. lo2[x] <= lo[x] /\ lo2[x] \in Nat /\ lo[x] \in Nat /\ ix[x] \in Nat  BY <1>2, <2>9
    <3>3. lo2[x] <= ix[x]  BY <3>1, <3>2
    <3>4. ix[st[1]] <= lo2[x]
      <4>1. CASE x # p  BY <4>1, <2>8, <3>1
      <4>2. CASE x = p  BY <4>2, <2>7, <2>8, <2>10
      <4> QED  BY <4>1, <4>2
    <3> QED  BY <3>0, <3>3, <3>4
  <2> QED  BY <1>1, <2>2, <2>3, <2>7, <2>8, <2>9, <2>11
<1> QED  BY <1>5, <1>6

(* An edge is still awaited after the return; an owner was one before, or  *)
(* is the call below and took over.                                        *)
LEMMA ReturnedIs ==
  ASSUME NEW E, NEW ix, NEW lo, NEW st, NEW cl, NEW cs, TInv(E, ix, lo, st, cl, cs),
         Len(cl) # 0, NEW cl2, Returned(cl2, cl), NEW n, n = cl[Len(cl)].node
  PROVE  /\ \A u, v : Awaits(cl, u, v) => Awaits(cl2, u, v)
         /\ \A u \in Node, i \in 1 .. Len(cl2) : Owner(ix, cl2, i, u) =>
              \/ Owner(ix, cl, i, u)
              \/ Len(cl) # 1 /\ i = Len(cl) - 1 /\ ix[n] <= ix[u] /\ Owner(ix, cl, Len(cl), u)
<1>0. TType(ix, lo, st, cl, cs) /\ TCalls(ix, lo, st, cl)  BY DEF TInv
<1>1. PICK T : T = Len(cl)  OBVIOUS
<1>2. /\ T \in Nat /\ T # 0 /\ \A x \in Node : ix[x] \in Nat /\ lo[x] \in Nat
      /\ \A i \in 1 .. T : cl[i].node \in Node
  BY <1>0, <1>1, TarjanTypes
<1>3. Len(cl2) = T - 1 /\ \A i \in 1 .. T - 1 : cl2[i] = cl[i]  BY <1>1 DEF Returned
<1>4. ASSUME NEW u, NEW v, Awaits(cl, u, v) PROVE Awaits(cl2, u, v)
  <2>1. PICK i \in 1 .. T : cl[i].node = u /\ \E k \in 1 .. Len(cl[i].rest) : cl[i].rest[k] = v
    BY <1>1, <1>4 DEF Awaits
  <2>2. PICK k \in 1 .. Len(cl[i].rest) : cl[i].rest[k] = v  BY <2>1
  <2>3. i # T
    <3> SUFFICES ASSUME i = T PROVE FALSE  OBVIOUS
    <3>1. Len(cl[i].rest) = 0  BY <1>1 DEF Returned
    <3> QED  BY <2>2, <3>1
  <2>4. i \in 1 .. T - 1  BY <1>2, <2>3
  <2> QED  BY <2>1, <2>4, <1>3 DEF Awaits
<1>5. ASSUME NEW u \in Node, NEW i \in 1 .. T - 1, Owner(ix, cl2, i, u), ~Owner(ix, cl, i, u)
      PROVE  T # 1 /\ i = T - 1 /\ ix[n] <= ix[u] /\ Owner(ix, cl, T, u)
  <2>0. i \in 1 .. T /\ T # 1 /\ T \in 1 .. T /\ T - 1 \in 1 .. T  BY <1>2
  <2>1. ix[cl[i].node] <= ix[u] /\ \A j \in i + 1 .. T - 1 : ix[u] < ix[cl[j].node]
    <3>1. \A j \in i + 1 .. T - 1 : j \in 1 .. T - 1  BY <1>2
    <3>2. ix[cl2[i].node] <= ix[u] /\ \A j \in i + 1 .. T - 1 : ix[u] < ix[cl2[j].node]  BY <1>3, <1>5 DEF Owner
    <3> QED  BY <3>1, <3>2, <1>3
  <2>2. ~(ix[u] < ix[cl[T].node])
    <3> SUFFICES ASSUME ix[u] < ix[cl[T].node] PROVE FALSE  OBVIOUS
    <3>1. \A j \in i + 1 .. T : j \in i + 1 .. T - 1 \/ j = T  BY <1>2
    <3>2. \A j \in i + 1 .. T : ix[u] < ix[cl[j].node]  BY <2>1, <3>1
    <3> QED  BY <2>1, <3>2, <1>1, <1>5 DEF Owner
  <2>3. ix[n] \in Nat /\ ix[u] \in Nat /\ n = cl[T].node  BY <2>0, <1>1, <1>2
  <2>4. ix[n] <= ix[u]  BY <2>2, <2>3
  <2>5. Owner(ix, cl, T, u)
    <3>1. \A j \in T + 1 .. T : FALSE  BY <1>2
    <3> QED  BY <2>3, <2>4, <3>1, <1>1 DEF Owner
  <2>6. i = T - 1
    <3> SUFFICES ASSUME i # T - 1 PROVE FALSE  OBVIOUS
    <3>1. T - 1 \in i + 1 .. T - 1 /\ T - 1 < T  BY <1>2
    <3>2. ix[u] < ix[cl[T - 1].node]  BY <3>1, <2>1
    <3>3. ix[cl[T - 1].node] < ix[cl[T].node]  BY <3>1, <2>0, <1>0, <1>1 DEF TCalls
    <3>4. ix[cl[T - 1].node] \in Nat  BY <2>0, <1>2
    <3> QED  BY <3>2, <3>3, <3>4, <2>3, <2>4
  <2> QED  BY <2>0, <2>4, <2>5, <2>6
<1> QED  BY <1>1, <1>3, <1>4, <1>5

(* A call returns, and its node stays on the stack.                        *)
LEMMA ReturnKeeps ==
  ASSUME NEW E, NEW ix, NEW lo, NEW st, NEW cl, NEW cs, TInv(E, ix, lo, st, cl, cs),
         Len(cl) # 0, NEW cl2, Returned(cl2, cl), NEW n, n = cl[Len(cl)].node,
         NEW lo2, Handed(lo2, lo, cl, n), lo[n] # ix[n]
  PROVE  TInv(E, ix, lo2, st, cl2, cs)
<1>0. /\ TType(ix, lo, st, cl, cs) /\ TNumbered(ix) /\ TStack(ix, st) /\ TCalls(ix, lo, st, cl) /\ TBottom(st, cl)
      /\ TSorted(ix, st, cs) /\ TLinked(E, ix, lo, st, cl)
  BY DEF TInv
<1>1. PICK T : T = Len(cl)  OBVIOUS
<1>2. /\ T \in Nat /\ T # 0 /\ \A x \in Node : ix[x] \in Nat /\ lo[x] \in Nat
      /\ \A i \in 1 .. T : cl[i].node \in Node
  BY <1>0, <1>1, TarjanTypes
<1>3. Len(cl2) = T - 1 /\ \A i \in 1 .. T - 1 : cl2[i] = cl[i] /\ i \in 1 .. T  BY <1>1, <1>2 DEF Returned
<1>4. /\ lo2 \in [Node -> Nat] /\ \A x \in Node : lo2[x] <= lo[x]
      /\ T # 1 => lo2[cl[T - 1].node] <= lo[n]
      /\ \A i \in 1 .. T : ix[st[1]] <= lo2[cl[i].node] /\ lo2[cl[i].node] <= ix[cl[i].node]
  BY <1>1, HandedIs
<1>5. T # 1
  <2> SUFFICES ASSUME T = 1 PROVE FALSE  OBVIOUS
  <2>0. Len(cl) = 1  BY <1>1
  <2>1. 1 \in 1 .. T /\ n = st[1] /\ n = cl[1].node
    <3>1. n = cl[1].node  BY <2>0
    <3>2. cl[1].node = st[1]  BY <1>0, <2>0 DEF TBottom
    <3> QED  BY <3>1, <3>2
  <2>2. ix[n] <= lo[n] /\ lo[n] <= ix[n] /\ n \in Node  BY <2>1, <1>0, <1>1, <1>2 DEF TCalls
  <2>3. ix[n] \in Nat /\ lo[n] \in Nat  BY <2>2, <1>2
  <2> QED  BY <2>2, <2>3
<1>6. TType(ix, lo2, st, cl2, cs)  BY <1>0, <1>4 DEF TType, Returned
<1>7. TCalls(ix, lo2, st, cl2)
  <2>1. \A i, j \in 1 .. T - 1 : i < j => ix[cl2[i].node] < ix[cl2[j].node]  BY <1>0, <1>1, <1>3 DEF TCalls
  <2>2. \A i \in 1 .. T - 1 : Stacked(st, cl2[i].node)  BY <1>0, <1>1, <1>3 DEF TCalls
  <2> QED  BY <2>1, <2>2, <1>3, <1>4 DEF TCalls
<1>8. TBottom(st, cl2)
  <2>1. 1 \in 1 .. T - 1  BY <1>2, <1>5
  <2>2. cl2[1].node = st[1]  BY <2>1, <1>0, <1>1, <1>2, <1>3 DEF TBottom
  <2>3. Len(st) # 0 /\ Len(cl2) # 0  BY <1>0, <1>1, <1>2, <1>3, <1>5 DEF TBottom
  <2> QED  BY <2>2, <2>3 DEF TBottom
<1>9. TLinked(E, ix, lo2, st, cl2)
  <2>1. SUFFICES ASSUME NEW u \in Node, Stacked(st, u), NEW v \in Out(E, u), ~Awaits(cl2, u, v)
                 PROVE  /\ ix[v] > 0
                        /\ Stacked(st, v) => \A i \in 1 .. Len(cl2) : Owner(ix, cl2, i, u) => lo2[cl2[i].node] <= ix[v]
    BY DEF TLinked
  <2>0. v \in Node  BY DEF Out
  <2>2. ~Awaits(cl, u, v)  BY <2>1, ReturnedIs
  <2>3. ix[v] > 0 /\ (Stacked(st, v) => \A i \in 1 .. T : Owner(ix, cl, i, u) => lo[cl[i].node] <= ix[v])
    BY <2>1, <2>2, <1>0, <1>1 DEF TLinked
  <2>4. ASSUME Stacked(st, v), NEW i \in 1 .. Len(cl2), Owner(ix, cl2, i, u) PROVE lo2[cl2[i].node] <= ix[v]
    <3>0. i \in 1 .. T /\ cl2[i] = cl[i]  BY <1>3
    <3>1. PICK x \in Node : x = cl[i].node  BY <3>0, <1>2
    <3>2. lo2[x] \in Nat /\ lo[x] \in Nat /\ ix[v] \in Nat /\ lo2[x] <= lo[x]  BY <2>0, <1>2, <1>4
    <3>3. CASE Owner(ix, cl, i, u)
      <4>1. lo[x] <= ix[v]  BY <3>0, <3>1, <3>3, <2>3, <2>4
      <4>2. lo2[x] <= ix[v]  BY <4>1, <3>2
      <4> QED  BY <4>2, <3>0, <3>1
    <3>4. CASE i = T - 1 /\ Owner(ix, cl, T, u)
      <4>1. T \in 1 .. T /\ n = cl[T].node /\ n \in Node  BY <1>1, <1>2
      <4>2. lo[n] <= ix[v] /\ lo[n] \in Nat  BY <4>1, <3>4, <2>3, <2>4, <1>2
      <4>3. lo2[x] <= lo[n]  BY <3>1, <3>4, <1>4, <1>5
      <4>4. lo2[x] <= ix[v]  BY <4>2, <4>3, <3>2
      <4> QED  BY <4>4, <3>0, <3>1
    <3> QED  BY <3>3, <3>4, <2>4, <1>1, ReturnedIs
  <2> QED  BY <2>3, <2>4
<1> QED  BY <1>0, <1>6, <1>7, <1>8, <1>9 DEF TInv

(* The stack below a node, and the nodes from there on.                    *)
Popped(st2, C, st, at) ==
  /\ st2 \in Seq(Node) /\ Len(st2) = at - 1 /\ \A i \in 1 .. at - 1 : st2[i] = st[i]
  /\ C = {st[i] : i \in at .. Len(st)}

(* A call returns, and a component is taken from the stack.                *)
LEMMA PopComponentKeeps ==
  ASSUME NEW E, NEW ix, NEW lo, NEW st, NEW cl, NEW cs, TInv(E, ix, lo, st, cl, cs),
         Len(cl) # 0, NEW cl2, Returned(cl2, cl), NEW n, n = cl[Len(cl)].node,
         NEW lo2, Handed(lo2, lo, cl, n), lo[n] = ix[n],
         NEW at \in 1 .. Len(st), st[at] = n, NEW st2, NEW C, Popped(st2, C, st, at)
  PROVE  TInv(E, ix, lo2, st2, cl2, cs \cup {C})
<1>0. /\ TType(ix, lo, st, cl, cs) /\ TNumbered(ix) /\ TStack(ix, st) /\ TCalls(ix, lo, st, cl) /\ TBottom(st, cl)
      /\ TSorted(ix, st, cs) /\ TLinked(E, ix, lo, st, cl)
  BY DEF TInv
<1>1. PICK S, T, cs2 : S = Len(st) /\ T = Len(cl) /\ cs2 = cs \cup {C}  OBVIOUS
<1>2. /\ S \in Nat /\ T \in Nat /\ T # 0 /\ \A x \in Node : ix[x] \in Nat /\ lo[x] \in Nat
      /\ \A i \in 1 .. S : st[i] \in Node
      /\ \A i \in 1 .. T : cl[i].node \in Node
  BY <1>0, <1>1, TarjanTypes
<1>3. Len(cl2) = T - 1 /\ \A i \in 1 .. T - 1 : cl2[i] = cl[i] /\ i \in 1 .. T  BY <1>1, <1>2 DEF Returned
<1>4. /\ lo2 \in [Node -> Nat] /\ \A x \in Node : lo2[x] <= lo[x]
      /\ \A i \in 1 .. T : ix[st[1]] <= lo2[cl[i].node] /\ lo2[cl[i].node] <= ix[cl[i].node]
  BY <1>1, HandedIs
<1>5. T \in 1 .. T /\ n = cl[T].node /\ n \in Node /\ at \in 1 .. S /\ ix[n] \in Nat  BY <1>1, <1>2
<1>6. Len(st2) = at - 1 /\ \A i \in 1 .. at - 1 : st2[i] = st[i] /\ i \in 1 .. S
  <2>1. \A i \in 1 .. at - 1 : i \in 1 .. S  BY <1>2, <1>5
  <2> QED  BY <2>1 DEF Popped
<1>7. C = {st[i] : i \in at .. S}  BY <1>1 DEF Popped
<1>8. ASSUME NEW i \in 1 .. S
      PROVE  /\ i \in 1 .. at - 1 <=> ix[st[i]] < ix[n]
             /\ i \in at .. S <=> ix[n] <= ix[st[i]]
             /\ ix[st[i]] \in Nat
  <2>1. ix[st[i]] \in Nat  BY <1>2
  <2>2. i < at => ix[st[i]] < ix[n]  BY <1>0, <1>1, <1>5 DEF TStack
  <2>3. at < i => ix[n] < ix[st[i]]  BY <1>0, <1>1, <1>5 DEF TStack
  <2>4. i = at => ix[n] = ix[st[i]]  OBVIOUS
  <2>5. (i \in 1 .. at - 1 <=> i < at) /\ (i \in at .. S <=> ~(i < at))  BY <1>2, <1>5
  <2>6. i < at \/ i = at \/ at < i  BY <1>2, <1>5
  <2> QED  BY <2>1, <2>2, <2>3, <2>4, <2>5, <2>6, <1>5
<1>9. \A m : Stacked(st2, m) => Stacked(st, m) /\ m \in Node /\ ix[m] < ix[n]
  <2> SUFFICES ASSUME NEW m, Stacked(st2, m) PROVE Stacked(st, m) /\ m \in Node /\ ix[m] < ix[n]  OBVIOUS
  <2>1. PICK i \in 1 .. at - 1 : st2[i] = m  BY <1>6 DEF Stacked
  <2>2. i \in 1 .. S /\ st[i] = m  BY <2>1, <1>6
  <2> QED  BY <2>1, <2>2, <1>1, <1>2, <1>8 DEF Stacked
<1>10. \A m : m \in C => Stacked(st, m) /\ m \in Node /\ ix[n] <= ix[m]
  <2> SUFFICES ASSUME NEW m \in C PROVE Stacked(st, m) /\ m \in Node /\ ix[n] <= ix[m]  OBVIOUS
  <2>1. PICK i \in at .. S : st[i] = m  BY <1>7
  <2>2. i \in 1 .. S  BY <1>2, <1>5
  <2> QED  BY <2>1, <2>2, <1>1, <1>2, <1>8 DEF Stacked
<1>11. \A m : Stacked(st, m) => IF ix[m] < ix[n] THEN Stacked(st2, m) ELSE m \in C
  <2> SUFFICES ASSUME NEW m, Stacked(st, m) PROVE IF ix[m] < ix[n] THEN Stacked(st2, m) ELSE m \in C  OBVIOUS
  <2>1. PICK i \in 1 .. S : st[i] = m  BY <1>1 DEF Stacked
  <2>2. CASE ix[m] < ix[n]
    <3>1. i \in 1 .. at - 1  BY <2>1, <2>2, <1>8
    <3> QED  BY <2>1, <2>2, <3>1, <1>6 DEF Stacked
  <2>3. CASE ~(ix[m] < ix[n])
    <3>1. ix[n] <= ix[m]  BY <2>1, <2>3, <1>5, <1>8
    <3>2. i \in at .. S  BY <2>1, <3>1, <1>8
    <3> QED  BY <2>1, <2>3, <3>2, <1>7
  <2> QED  BY <2>2, <2>3
<1>12. C \subseteq Node /\ n \in C
  <2>1. at \in at .. S  BY <1>2, <1>5
  <2> QED  BY <2>1, <1>7, <1>10
<1>13. \A m : Stacked(st2, m) => m \notin C
  <2> SUFFICES ASSUME NEW m, Stacked(st2, m), m \in C PROVE FALSE  OBVIOUS
  <2>1. ix[m] < ix[n] /\ ix[n] <= ix[m] /\ ix[m] \in Nat  BY <1>2, <1>9, <1>10
  <2> QED  BY <2>1, <1>5
<1>14. \A c \in cs : \A m \in C : m \notin c  BY <1>0, <1>10 DEF TSorted
<1>15. TType(ix, lo2, st2, cl2, cs2)  BY <1>0, <1>1, <1>4, <1>12 DEF TType, Returned, Popped
<1>16. TStack(ix, st2)
  <2>1. \A i \in 1 .. at - 1 : ix[st2[i]] > 0  BY <1>0, <1>1, <1>6 DEF TStack
  <2>2. \A i, j \in 1 .. at - 1 : i < j => ix[st2[i]] < ix[st2[j]]  BY <1>0, <1>1, <1>6 DEF TStack
  <2> QED  BY <2>1, <2>2, <1>6 DEF TStack
<1>17. \A i \in 1 .. T - 1 : ix[cl[i].node] < ix[n]
  <2>1. \A i \in 1 .. T - 1 : i < T  BY <1>2
  <2> QED  BY <2>1, <1>0, <1>1, <1>3, <1>5 DEF TCalls
<1>18. \A i \in 1 .. T - 1 : Stacked(st2, cl[i].node)
  <2>1. \A i \in 1 .. T - 1 : Stacked(st, cl[i].node)  BY <1>0, <1>1, <1>3 DEF TCalls
  <2> QED  BY <2>1, <1>11, <1>17
<1>19. T # 1 => at # 1 /\ st2[1] = st[1] /\ cl2[1].node = st[1]
  <2> SUFFICES ASSUME T # 1 PROVE at # 1 /\ st2[1] = st[1] /\ cl2[1].node = st[1]  OBVIOUS
  <2>1. 1 \in 1 .. T - 1  BY <1>2
  <2>2. cl[1].node = st[1]  BY <1>0, <1>1, <1>2 DEF TBottom
  <2>3. ix[st[1]] < ix[n]  BY <2>1, <2>2, <1>17
  <2>4. at # 1  BY <2>3, <1>5
  <2>5. 1 \in 1 .. at - 1  BY <2>4, <1>5
  <2> QED  BY <2>1, <2>2, <2>4, <2>5, <1>3, <1>6
<1>20. TCalls(ix, lo2, st2, cl2)
  <2>1. \A i, j \in 1 .. T - 1 : i < j => ix[cl2[i].node] < ix[cl2[j].node]  BY <1>0, <1>1, <1>3 DEF TCalls
  <2>2. \A i \in 1 .. T - 1 : T # 1  BY <1>2
  <2>3. \A i \in 1 .. T - 1 : /\ Stacked(st2, cl2[i].node)
                              /\ lo2[cl2[i].node] <= ix[cl2[i].node] /\ ix[st2[1]] <= lo2[cl2[i].node]
    BY <2>2, <1>3, <1>4, <1>18, <1>19
  <2> QED  BY <2>1, <2>3, <1>3 DEF TCalls
<1>21. TBottom(st2, cl2)
  <2>1. CASE T = 1
    <3>0. Len(cl) = 1  BY <2>1, <1>1
    <3>1. n = st[1]  BY <1>0, <3>0 DEF TBottom
    <3>2. at = 1
      <4> SUFFICES ASSUME at # 1 PROVE FALSE  OBVIOUS
      <4>1. 1 \in 1 .. at - 1 /\ 1 \in 1 .. S  BY <1>2, <1>5
      <4>2. ix[st[1]] < ix[n]  BY <4>1, <1>8
      <4> QED  BY <4>2, <3>1, <1>5
    <3> QED  BY <2>1, <3>2, <1>3, <1>6 DEF TBottom
  <2>2. CASE T # 1
    <3>1. Len(cl2) # 0 /\ Len(st2) # 0  BY <2>2, <1>2, <1>3, <1>5, <1>6, <1>19
    <3> QED  BY <2>2, <3>1, <1>19 DEF TBottom
  <2> QED  BY <2>1, <2>2
<1>22. TSorted(ix, st2, cs2)
  <2>1. ASSUME NEW m \in Node PROVE ix[m] > 0 <=> Stacked(st2, m) \/ \E c \in cs2 : m \in c
    <3>1. ix[m] > 0 <=> Stacked(st, m) \/ \E c \in cs : m \in c  BY <1>0 DEF TSorted
    <3>2. Stacked(st, m) <=> Stacked(st2, m) \/ m \in C  BY <1>9, <1>10, <1>11
    <3> QED  BY <3>1, <3>2, <1>1
  <2>2. \A m \in Node : Stacked(st2, m) => \A c \in cs2 : m \notin c
    <3>1. \A m \in Node : Stacked(st2, m) => \A c \in cs : m \notin c  BY <1>0, <1>9 DEF TSorted
    <3> QED  BY <3>1, <1>1, <1>13
  <2>3. \A c, d \in cs2 : \A m \in Node : m \in c /\ m \in d => c = d
    <3>1. \A c, d \in cs : \A m \in Node : m \in c /\ m \in d => c = d  BY <1>0 DEF TSorted
    <3> QED  BY <3>1, <1>1, <1>14
  <2> QED  BY <2>1, <2>2, <2>3 DEF TSorted
<1>23. TLinked(E, ix, lo2, st2, cl2)
  <2>1. SUFFICES ASSUME NEW u \in Node, Stacked(st2, u), NEW v \in Out(E, u), ~Awaits(cl2, u, v)
                 PROVE  /\ ix[v] > 0
                        /\ Stacked(st2, v) => \A i \in 1 .. Len(cl2) : Owner(ix, cl2, i, u) => lo2[cl2[i].node] <= ix[v]
    BY DEF TLinked
  <2>0. v \in Node /\ Stacked(st, u) /\ ix[u] < ix[n] /\ ix[u] \in Nat  BY <2>1, <1>2, <1>9 DEF Out
  <2>2. ~Awaits(cl, u, v)  BY <2>1, ReturnedIs
  <2>3. ix[v] > 0 /\ (Stacked(st, v) => \A i \in 1 .. T : Owner(ix, cl, i, u) => lo[cl[i].node] <= ix[v])
    BY <2>0, <2>2, <1>0, <1>1 DEF TLinked
  <2>4. ASSUME Stacked(st2, v), NEW i \in 1 .. Len(cl2), Owner(ix, cl2, i, u) PROVE lo2[cl2[i].node] <= ix[v]
    <3>0. i \in 1 .. T /\ cl2[i] = cl[i]  BY <1>3
    <3>1. PICK x \in Node : x = cl[i].node  BY <3>0, <1>2
    <3>2. lo2[x] \in Nat /\ lo[x] \in Nat /\ ix[v] \in Nat /\ lo2[x] <= lo[x]  BY <2>0, <1>2, <1>4
    <3>3. Owner(ix, cl, i, u)
      <4>1. ~(ix[n] <= ix[u])  BY <2>0, <1>5
      <4> QED  BY <4>1, <2>4, ReturnedIs
    <3>4. Stacked(st, v)  BY <2>4, <1>9
    <3>5. lo[x] <= ix[v]  BY <3>0, <3>1, <3>3, <3>4, <2>3
    <3>6. lo2[x] <= ix[v]  BY <3>2, <3>5
    <3> QED  BY <3>0, <3>1, <3>6
  <2> QED  BY <2>3, <2>4
<1>24. \E ord, k : Descending(E, cs2, ord, k)
  <2>1. PICK ord, k : Descending(E, cs, ord, k)  BY DEF TInv
  <2>2. /\ k \in Nat /\ ord \in [cs -> Nat] /\ \A c \in cs : ord[c] < k
        /\ \A c, d \in cs : ord[c] = ord[d] => c = d
        /\ \A c \in cs : \A u \in c : \A v \in Out(E, u) : \E d \in cs : v \in d /\ ord[d] <= ord[c]
    BY <2>1 DEF Descending
  <2>3. C \notin cs  BY <1>12, <1>14
  <2>4. PICK ord2 : ord2 = [c \in cs2 |-> IF c = C THEN k ELSE ord[c]]  OBVIOUS
  <2>5. \A c \in cs2 : c \in cs \/ c = C  BY <1>1
  <2>6. /\ ord2 \in [cs2 -> Nat] /\ ord2[C] = k /\ C \in cs2
        /\ \A c \in cs : ord2[c] = ord[c] /\ ord[c] \in Nat /\ ord[c] < k /\ c \in cs2
    BY <1>1, <2>2, <2>3, <2>4, <2>5
  <2>7. k + 1 \in Nat /\ \A c \in cs2 : ord2[c] < k + 1
    <3> SUFFICES ASSUME NEW c \in cs2 PROVE ord2[c] < k + 1  BY <2>2
    <3>1. CASE c = C  BY <3>1, <2>2, <2>6
    <3>2. CASE c \in cs
      <4>1. ord2[c] \in Nat /\ ord2[c] < k  BY <3>2, <2>6
      <4> QED  BY <4>1, <2>2
    <3> QED  BY <3>1, <3>2, <2>5
  <2>8. ASSUME NEW c \in cs2, NEW d \in cs2, ord2[c] = ord2[d] PROVE c = d
    <3>1. CASE c \in cs /\ d \in cs  BY <3>1, <2>2, <2>6, <2>8
    <3>2. CASE c \in cs /\ d = C
      <4>1. ord[c] = k /\ ord[c] < k  BY <3>2, <2>6, <2>8
      <4> QED  BY <4>1, <2>2
    <3>3. CASE c = C /\ d \in cs
      <4>1. ord[d] = k /\ ord[d] < k  BY <3>3, <2>6, <2>8
      <4> QED  BY <4>1, <2>2
    <3> QED  BY <3>1, <3>2, <3>3, <2>5
  <2>9. ASSUME NEW c \in cs2, NEW u \in c, NEW v \in Out(E, u) PROVE \E d \in cs2 : v \in d /\ ord2[d] <= ord2[c]
    <3>1. CASE c \in cs
      <4>1. PICK d \in cs : v \in d /\ ord[d] <= ord[c]  BY <3>1, <2>2, <2>9
      <4> QED  BY <4>1, <3>1, <2>6
    <3>2. CASE c = C
      <4>0. v \in Node /\ u \in Node /\ Stacked(st, u) /\ ix[n] <= ix[u]  BY <3>2, <2>9, <1>10 DEF Out
      <4>1. ~Awaits(cl, u, v)
        <5> SUFFICES ASSUME Awaits(cl, u, v) PROVE FALSE  OBVIOUS
        <5>1. Awaits(cl2, u, v)  BY ReturnedIs
        <5>2. PICK i \in 1 .. T - 1 : cl2[i].node = u  BY <5>1, <1>3 DEF Awaits
        <5>3. ix[u] < ix[n] /\ ix[u] \in Nat  BY <4>0, <5>2, <1>2, <1>3, <1>17
        <5> QED  BY <4>0, <5>3, <1>5
      <4>2. ix[v] > 0 /\ (Stacked(st, v) => \A i \in 1 .. T : Owner(ix, cl, i, u) => lo[cl[i].node] <= ix[v])
        BY <4>0, <4>1, <1>0, <1>1 DEF TLinked
      <4>3. CASE Stacked(st, v)
        <5>1. Owner(ix, cl, T, u)
          <6>1. \A j \in T + 1 .. T : FALSE  BY <1>2
          <6> QED  BY <4>0, <6>1, <1>1, <1>5 DEF Owner
        <5>2. ix[n] <= ix[v]  BY <5>1, <4>2, <4>3, <1>5
        <5>3. ix[v] \in Nat /\ ~(ix[v] < ix[n])  BY <4>0, <5>2, <1>2, <1>5
        <5>4. v \in C  BY <4>3, <5>3, <1>11
        <5>5. ord2[C] <= ord2[C]  BY <2>2, <2>6
        <5> QED  BY <5>4, <5>5, <3>2, <2>6
      <4>4. CASE ~Stacked(st, v)
        <5>1. PICK d \in cs : v \in d  BY <4>0, <4>2, <4>4, <1>0 DEF TSorted
        <5>2. ord2[d] <= k  BY <2>2, <2>6
        <5> QED  BY <5>1, <5>2, <3>2, <2>6
      <4> QED  BY <4>3, <4>4
    <3> QED  BY <3>1, <3>2, <2>5
  <2>10. Descending(E, cs2, ord2, k + 1)  BY <2>6, <2>7, <2>8, <2>9 DEF Descending
  <2> QED  BY <2>10
<1>25. TInv(E, ix, lo2, st2, cl2, cs2)
  BY <1>0, <1>15, <1>16, <1>20, <1>21, <1>22, <1>23, <1>24 DEF TInv
<1> QED  BY <1>1, <1>25

(* What the algorithm keeps, of the state.                                 *)
TarjanInv == TInv(arcs, index, low, stack, calls, comps)

(* A new root, or a new node of the innermost call, is entered.            *)
LEMMA EnterStep ==
  ASSUME TarjanInv, arcs' = arcs, NEW n \in Node, index[n] = 0, NEW under, Underlies(under, calls, n), Enter(n, under)
  PROVE  TarjanInv'
<1>1. PICK number, adj : number = Cardinality(Seen(index)) + 1 /\ adj = Adjacency(n)  OBVIOUS
<1>2. /\ index' = [index EXCEPT ![n] = number] /\ low' = [low EXCEPT ![n] = number] /\ stack' = Append(stack, n)
      /\ calls' = Append(under, [node |-> n, rest |-> adj]) /\ comps' = comps
  BY <1>1 DEF Enter, Seen
<1>3. ListsAll(adj, arcs, n)
  <2>1. Successors(n) = Out(arcs, n) /\ Successors(n) \subseteq Node  BY DEF Successors, Out
  <2>2. adj \in Seq(Successors(n)) /\ \A m \in Successors(n) : \E i \in 1 .. Len(adj) : adj[i] = m
    BY <1>1, AdjacencyIs
  <2>3. adj \in Seq(Node)
    <3>1. Len(adj) \in Nat /\ adj \in [1 .. Len(adj) -> Successors(n)]  BY <2>2
    <3>2. adj \in [1 .. Len(adj) -> Node]  BY <2>1, <3>1
    <3> QED  BY <3>1, <3>2, SeqDef
  <2> QED  BY <2>1, <2>2, <2>3 DEF ListsAll
<1>4. TInv(arcs, index, low, stack, calls, comps)  BY DEF TarjanInv
<1>5. TInv(arcs, [index EXCEPT ![n] = number], [low EXCEPT ![n] = number], Append(stack, n),
           Append(under, [node |-> n, rest |-> adj]), comps)
  BY <1>1, <1>3, <1>4, EnterKeeps
<1> QED  BY <1>2, <1>5, Zenon DEF TarjanInv

(* The outer loop visits the first node without a number.                  *)
LEMMA VisitKeeps == ASSUME TarjanInv, arcs' = arcs, VisitNext PROVE TarjanInv'
<1>1. PICK n \in Node : index[n] = 0 /\ Enter(n, <<>>)  BY DEF VisitNext
<1>2. calls = <<>>  BY DEF VisitNext
<1>3. Underlies(<<>>, calls, n)
  <2>1. <<>> \in Seq([node : Node, rest : Seq(Node)]) /\ Len(<<>>) = 0 /\ Len(calls) = 0  BY <1>2
  <2>2. \A i \in 1 .. 0 : FALSE  OBVIOUS
  <2> QED  BY <2>1, <2>2 DEF Underlies
<1> QED  BY <1>1, <1>3, EnterStep

(* The calls after a look at the first edge of the innermost one.          *)
LEMMA LookedIs ==
  ASSUME NEW cl \in Seq([node : Node, rest : Seq(Node)]), cl # <<>>, Last(cl).rest # <<>>,
         NEW cl2, cl2 = [cl EXCEPT ![Len(cl)].rest = Tail(Last(cl).rest)]
  PROVE  /\ Looked(cl2, cl) /\ Underlies(cl2, cl, Head(Last(cl).rest))
         /\ Head(Last(cl).rest) = cl[Len(cl)].rest[1] /\ Head(Last(cl).rest) \in Node
         /\ Last(cl) = cl[Len(cl)] /\ Len(cl) # 0
<1> DEFINE C == [node : Node, rest : Seq(Node)]
<1>1. PICK T : T = Len(cl)  OBVIOUS
<1>2. T \in Nat /\ T # 0 /\ T \in 1 .. T /\ DOMAIN cl = 1 .. T /\ \A i \in 1 .. T : cl[i] \in C
  <2>1. T \in Nat /\ T # 0 /\ DOMAIN cl = 1 .. T  BY <1>1, EmptySeq
  <2>2. \A i \in 1 .. T : cl[i] \in C  BY <1>1, ElementOfSeq
  <2> QED  BY <2>1, <2>2
<1>3. PICK top : top = cl[T]  OBVIOUS
<1>4. Last(cl) = top  BY <1>1, <1>3 DEF Last
<1>5. top \in C /\ top.node \in Node /\ top.rest \in Seq(Node) /\ top.rest # <<>>  BY <1>2, <1>3, <1>4
<1>6. PICK rest, tail : rest = top.rest /\ tail = Tail(top.rest)  OBVIOUS
<1>7. /\ rest \in Seq(Node) /\ Len(rest) \in Nat /\ Len(rest) # 0 /\ tail \in Seq(Node)
      /\ Head(rest) = rest[1] /\ rest[1] \in Node
      /\ Len(tail) = Len(rest) - 1 /\ \A k \in 1 .. Len(tail) : tail[k] = rest[k + 1]
  <2>1. rest \in Seq(Node) /\ rest # <<>>  BY <1>5, <1>6
  <2>2. Len(rest) \in Nat /\ Len(rest) # 0  BY <2>1, EmptySeq
  <2>3. 1 \in 1 .. Len(rest)  BY <2>2
  <2>4. rest[1] \in Node  BY <2>1, <2>3, ElementOfSeq
  <2> QED  BY <2>1, <2>2, <2>4, <1>6, HeadTailProperties
<1>8. PICK top2 : top2 = [top EXCEPT !.rest = tail]  OBVIOUS
<1>9. top2 \in C /\ top2.node = top.node /\ top2.rest = tail  BY <1>5, <1>7, <1>8
<1>10. cl2[T] = top2 /\ DOMAIN cl2 = 1 .. T /\ \A i \in 1 .. T : i # T => cl2[i] = cl[i]
  BY <1>1, <1>2, <1>3, <1>4, <1>6, <1>8
<1>11. cl2 \in Seq(C) /\ Len(cl2) = T
  <2>1. \A i \in 1 .. T : cl2[i] \in C  BY <1>2, <1>9, <1>10
  <2>2. cl2 = [i \in 1 .. T |-> cl2[i]]  BY <1>1, <1>2
  <2>3. cl2 \in [1 .. T -> C]  BY <2>1, <2>2
  <2> HIDE DEF C
  <2> QED  BY <1>2, <2>3, FunctionIsSeq
<1>12. ASSUME NEW k \in 1 .. Len(rest), k # 1 PROVE \E l \in 1 .. Len(tail) : tail[l] = rest[k]
  <2>1. k - 1 \in 1 .. Len(tail) /\ (k - 1) + 1 = k  BY <1>7, <1>12
  <2>2. tail[k - 1] = rest[k]  BY <1>7, <2>1
  <2> QED  BY <2>1, <2>2
<1>13. Looked(cl2, cl)
  <2>1. \A i \in 1 .. T - 1 : i \in 1 .. T /\ i # T  BY <1>2
  <2>2. cl[Len(cl)].rest = rest /\ cl2[Len(cl)].rest = tail /\ cl2[Len(cl)].node = cl[Len(cl)].node
    BY <1>1, <1>3, <1>6, <1>9, <1>10
  <2>3. \A i \in 1 .. Len(cl) - 1 : cl2[i] = cl[i]  BY <1>1, <1>10, <2>1
  <2>4. cl2 \in Seq([node : Node, rest : Seq(Node)]) /\ Len(cl2) = Len(cl)  BY <1>1, <1>11 DEF C
  <2>5. \A k \in 1 .. Len(cl[Len(cl)].rest) : k # 1 =>
          \E l \in 1 .. Len(cl2[Len(cl)].rest) : cl2[Len(cl)].rest[l] = cl[Len(cl)].rest[k]
    <3> SUFFICES ASSUME NEW k \in 1 .. Len(cl[Len(cl)].rest), k # 1
                 PROVE  \E l \in 1 .. Len(cl2[Len(cl)].rest) : cl2[Len(cl)].rest[l] = cl[Len(cl)].rest[k]
      OBVIOUS
    <3>1. k \in 1 .. Len(rest)  BY <2>2
    <3>2. \E l \in 1 .. Len(tail) : tail[l] = rest[k]  BY <3>1, <1>12
    <3> QED  BY <3>2, <2>2, Zenon
  <2>6. Len(cl[Len(cl)].rest) # 0  BY <2>2, <1>7
  <2> QED  BY <2>2, <2>3, <2>4, <2>5, <2>6 DEF Looked
<1>14. Underlies(cl2, cl, Head(rest))
  <2>1. ASSUME NEW i \in 1 .. T PROVE cl2[i].node = cl[i].node  BY <1>3, <1>9, <1>10
  <2>2. ASSUME NEW i \in 1 .. T, NEW k \in 1 .. Len(cl[i].rest)
        PROVE  cl[i].rest[k] = Head(rest) \/ \E l \in 1 .. Len(cl2[i].rest) : cl2[i].rest[l] = cl[i].rest[k]
    <3>1. CASE i # T  BY <3>1, <1>10
    <3>2. CASE i = T
      <4>1. cl[i].rest = rest /\ cl2[i].rest = tail  BY <3>2, <1>3, <1>6, <1>9, <1>10
      <4>2. k \in 1 .. Len(rest)  BY <4>1
      <4>3. CASE k = 1  BY <4>1, <4>3, <1>7
      <4>4. CASE k # 1
        <5>1. \E l \in 1 .. Len(tail) : tail[l] = rest[k]  BY <4>2, <4>4, <1>12
        <5> QED  BY <4>1, <5>1, Zenon
      <4> QED  BY <4>3, <4>4
    <3> QED  BY <3>1, <3>2
  <2> QED  BY <1>1, <1>11, <2>1, <2>2 DEF Underlies, C
<1> QED  BY <1>1, <1>2, <1>3, <1>4, <1>6, <1>7, <1>13, <1>14

(* The innermost call looks at its next edge.                              *)
LEMMA ExamineKeeps == ASSUME TarjanInv, arcs' = arcs, Examine PROVE TarjanInv'
<1>0. TInv(arcs, index, low, stack, calls, comps)  BY DEF TarjanInv
<1>1. PICK under : under = [calls EXCEPT ![Len(calls)].rest = Tail(Last(calls).rest)]  OBVIOUS
<1>2. /\ calls # <<>> /\ Last(calls).rest # <<>>
      /\ \/ /\ index[Head(Last(calls).rest)] = 0 /\ Enter(Head(Last(calls).rest), under)
         \/ /\ LookBack(Last(calls).node, Head(Last(calls).rest)) /\ calls' = under
            /\ index' = index /\ stack' = stack /\ comps' = comps
  BY <1>1 DEF Examine
<1>3. PICK m : m = Head(Last(calls).rest)  OBVIOUS
<1>4. calls \in Seq([node : Node, rest : Seq(Node)])  BY <1>0 DEF TInv, TType
<1>5. /\ Looked(under, calls) /\ Underlies(under, calls, m) /\ m = calls[Len(calls)].rest[1] /\ m \in Node
      /\ Last(calls) = calls[Len(calls)] /\ Len(calls) # 0
  BY <1>1, <1>2, <1>3, <1>4, LookedIs
<1>6. CASE index[m] = 0 /\ Enter(m, under)  BY <1>5, <1>6, EnterStep
<1>7. CASE /\ LookBack(Last(calls).node, m) /\ calls' = under
           /\ index' = index /\ stack' = stack /\ comps' = comps
  <2>1. PICK n, link : n = Last(calls).node /\ link = IF Stacked(stack, m) THEN Min2(low[n], index[m]) ELSE low[n]  OBVIOUS
  <2>2. stack \in Seq(Node)  BY <1>0 DEF TInv, TType
  <2>3. m \in Range(stack) <=> Stacked(stack, m)  BY <2>2 DEF Range, Stacked
  <2>4. index[m] > 0 /\ low' = [low EXCEPT ![n] = link]  BY <1>7, <2>1, <2>3 DEF LookBack
  <2>5. n = calls[Len(calls)].node  BY <1>5, <2>1
  <2>6. TInv(arcs, index, [low EXCEPT ![n] = link], stack, under, comps)
    BY <1>0, <1>5, <2>1, <2>4, <2>5, LookBackKeeps
  <2> QED  BY <1>7, <2>4, <2>6, Zenon DEF TarjanInv
<1> QED  BY <1>2, <1>3, <1>6, <1>7

(* The innermost call ends, and leaves a component behind when its low     *)
(* link is its own number.                                                 *)
LEMMA ReturnStep == ASSUME TarjanInv, arcs' = arcs, Return PROVE TarjanInv'
<1> DEFINE C == [node : Node, rest : Seq(Node)]
<1>0. TInv(arcs, index, low, stack, calls, comps)  BY DEF TarjanInv
<1>1. calls \in Seq(C) /\ stack \in Seq(Node) /\ calls # <<>>  BY <1>0 DEF TInv, TType, Return
<1>2. PICK T, S : T = Len(calls) /\ S = Len(stack)  OBVIOUS
<1>3. T \in Nat /\ T # 0 /\ S \in Nat  BY <1>1, <1>2, EmptySeq
<1>4. PICK n, up : n = Last(calls).node /\ up = Front(calls)  OBVIOUS
<1>5. Last(calls) = calls[T] /\ n = calls[T].node  BY <1>2, <1>4 DEF Last
<1>6. /\ Last(calls).rest = <<>> /\ calls' = up /\ index' = index
      /\ low' = IF up = <<>> THEN low ELSE [low EXCEPT ![Last(up).node] = Min2(low[Last(up).node], low[n])]
  BY <1>4 DEF Return
<1>7. up \in Seq(C) /\ Len(up) = T - 1 /\ \A i \in 1 .. T - 1 : up[i] = calls[i]
  <2>1. up = SubSeq(calls, 1, T - 1)  BY <1>2, <1>4 DEF Front
  <2>2. \A i \in 1 .. T - 1 : calls[i] \in C
    <3>1. \A i \in 1 .. T - 1 : i \in 1 .. T  BY <1>3
    <3> QED  BY <3>1, <1>1, <1>2, ElementOfSeq
  <2>3. 1 \in Int /\ T - 1 \in Int /\ (T - 1) - 1 + 1 = T - 1 /\ \A i \in 1 .. T - 1 : 1 + i - 1 = i  BY <1>3
  <2> HIDE DEF C
  <2>4. /\ SubSeq(calls, 1, T - 1) \in Seq(C)
        /\ Len(SubSeq(calls, 1, T - 1)) = IF 1 <= T - 1 THEN (T - 1) - 1 + 1 ELSE 0
        /\ \A i \in 1 .. (T - 1) - 1 + 1 : SubSeq(calls, 1, T - 1)[i] = calls[1 + i - 1]
    BY <2>2, <2>3, SubSeqProperties
  <2>5. Len(up) = T - 1  BY <2>1, <2>4, <1>3
  <2> QED  BY <2>1, <2>3, <2>4, <2>5
<1>8. Returned(up, calls)
  <2>1. Len(calls[T].rest) = 0  BY <1>5, <1>6
  <2> QED  BY <1>2, <1>7, <2>1 DEF Returned
<1>9. Handed(low', low, calls, n)
  <2>1. CASE T = 1
    <3>1. up = <<>>  BY <2>1, <1>7, EmptySeq
    <3> QED  BY <2>1, <3>1, <1>2, <1>6 DEF Handed
  <2>2. CASE T # 1
    <3>1. up # <<>>  BY <2>2, <1>3, <1>7, EmptySeq
    <3>2. T - 1 \in 1 .. T - 1  BY <2>2, <1>3
    <3>3. Last(up) = calls[T - 1]  BY <3>2, <1>7 DEF Last
    <3> QED  BY <2>2, <3>1, <3>3, <1>2, <1>6 DEF Handed
  <2> QED  BY <2>1, <2>2
<1>10. Len(calls) # 0 /\ n = calls[Len(calls)].node  BY <1>2, <1>3, <1>5
<1>11. CASE low[n] # index[n]
  <2>1. comps' = comps /\ stack' = stack  BY <1>4, <1>11 DEF Return
  <2>2. PICK lo2 : lo2 = low'  OBVIOUS
  <2>3. TInv(arcs, index, lo2, stack, up, comps)  BY <1>0, <1>8, <1>9, <1>10, <1>11, <2>2, ReturnKeeps
  <2> QED  BY <1>6, <2>1, <2>2, <2>3 DEF TarjanInv
<1>12. CASE low[n] = index[n]
  <2>1. PICK at : at = CHOOSE i \in DOMAIN stack : stack[i] = n  OBVIOUS
  <2>2. /\ comps' = comps \cup {Range(SubSeq(stack, at, Len(stack)))}
        /\ stack' = SubSeq(stack, 1, at - 1)
    BY <1>4, <1>12, <2>1 DEF Return
  <2>3. Stacked(stack, n)
    <3>1. T \in 1 .. Len(calls)  BY <1>2, <1>3
    <3> QED  BY <3>1, <1>0, <1>5 DEF TInv, TCalls
  <2>4. at \in 1 .. S /\ stack[at] = n
    <3>1. DOMAIN stack = 1 .. S  BY <1>1, <1>2
    <3>2. \E i \in DOMAIN stack : stack[i] = n  BY <2>3, <3>1, <1>2 DEF Stacked
    <3> QED  BY <2>1, <3>1, <3>2
  <2>5. \A i \in 1 .. S : stack[i] \in Node  BY <1>1, <1>2, ElementOfSeq
  <2>6. PICK st2, part : st2 = SubSeq(stack, 1, at - 1) /\ part = SubSeq(stack, at, S)  OBVIOUS
  <2>7. st2 \in Seq(Node) /\ Len(st2) = at - 1 /\ \A i \in 1 .. at - 1 : st2[i] = stack[i]
    <3>1. \A i \in 1 .. at - 1 : i \in 1 .. S  BY <2>4, <1>3
    <3>2. \A i \in 1 .. at - 1 : stack[i] \in Node  BY <3>1, <2>5
    <3>3. 1 \in Int /\ at - 1 \in Int /\ at - 1 \in Nat /\ (at - 1) - 1 + 1 = at - 1 /\ \A i \in 1 .. at - 1 : 1 + i - 1 = i
      BY <2>4
    <3>4. /\ SubSeq(stack, 1, at - 1) \in Seq(Node)
          /\ Len(SubSeq(stack, 1, at - 1)) = IF 1 <= at - 1 THEN (at - 1) - 1 + 1 ELSE 0
          /\ \A i \in 1 .. (at - 1) - 1 + 1 : SubSeq(stack, 1, at - 1)[i] = stack[1 + i - 1]
      BY <3>2, <3>3, SubSeqProperties
    <3>5. Len(st2) = at - 1  BY <2>6, <3>3, <3>4
    <3> QED  BY <2>6, <3>3, <3>4, <3>5
  <2>8. Range(part) = {stack[i] : i \in at .. S}
    <3>1. at \in Int /\ S \in Int /\ S - at + 1 \in Nat /\ at <= S  BY <2>4, <1>3
    <3>2. \A i \in at .. S : i \in 1 .. S  BY <2>4, <1>3
    <3>3. \A i \in at .. S : stack[i] \in Node  BY <3>2, <2>5
    <3>4. /\ SubSeq(stack, at, S) \in Seq(Node)
          /\ Len(SubSeq(stack, at, S)) = IF at <= S THEN S - at + 1 ELSE 0
          /\ \A i \in 1 .. S - at + 1 : SubSeq(stack, at, S)[i] = stack[at + i - 1]
      BY <3>1, <3>3, SubSeqProperties
    <3>5. part \in Seq(Node) /\ Len(part) = S - at + 1 /\ \A i \in 1 .. S - at + 1 : part[i] = stack[at + i - 1]
      BY <2>6, <3>1, <3>4
    <3>6. DOMAIN part = 1 .. S - at + 1  BY <3>5
    <3>7. \A i \in 1 .. S - at + 1 : at + i - 1 \in at .. S  BY <3>1
    <3>8. \A j \in at .. S : j - at + 1 \in 1 .. S - at + 1 /\ at + (j - at + 1) - 1 = j  BY <3>1
    <3>9. Range(part) \subseteq {stack[i] : i \in at .. S}  BY <3>5, <3>6, <3>7 DEF Range
    <3>10. ASSUME NEW j \in at .. S PROVE stack[j] \in Range(part)
      <4>1. part[j - at + 1] = stack[j]  BY <3>5, <3>8
      <4> QED  BY <4>1, <3>6, <3>8 DEF Range
    <3> QED  BY <3>9, <3>10
  <2>9. PICK K, lo2 : K = Range(part) /\ lo2 = low'  OBVIOUS
  <2>10. Popped(st2, K, stack, at)  BY <1>2, <2>7, <2>8, <2>9 DEF Popped
  <2>11. at \in 1 .. Len(stack)  BY <1>2, <2>4
  <2>12. TInv(arcs, index, lo2, st2, up, comps \cup {K})
    BY <1>0, <1>8, <1>9, <1>10, <1>12, <2>4, <2>9, <2>10, <2>11, PopComponentKeeps
  <2>13. stack' = st2 /\ comps' = comps \cup {K}  BY <1>2, <2>2, <2>6, <2>9, Zenon
  <2> QED  BY <1>6, <2>9, <2>12, <2>13 DEF TarjanInv
<1> QED  BY <1>11, <1>12

(* The nodes are parted into components, and no edge leads from one to a   *)
(* later one.                                                              *)
Parted(E, cs) ==
  /\ \A m \in Node : \E c \in cs : m \in c
  /\ \A c, d \in cs : \A m \in Node : m \in c /\ m \in d => c = d
  /\ \E ord, k : Descending(E, cs, ord, k)

(* So they are when every node was visited.                                *)
LEMMA AllVisited ==
  ASSUME TarjanInv, calls = <<>>, \A n \in Node : index[n] > 0
  PROVE  Parted(arcs, comps)
<1>1. TBottom(stack, calls) /\ TSorted(index, stack, comps) /\ \E ord, k : Descending(arcs, comps, ord, k)
  BY DEF TarjanInv, TInv
<1>2. Len(stack) = 0  BY <1>1 DEF TBottom
<1>3. \A m : ~Stacked(stack, m)  BY <1>2 DEF Stacked
<1> QED  BY <1>1, <1>3 DEF TSorted, Parted

(* Before the first visit.                                                 *)
LEMMA TarjanInit ==
  ASSUME InitPlan
  PROVE  TarjanInv
<1>1. index = [n \in Node |-> 0] /\ low = [n \in Node |-> 0] /\ stack = <<>> /\ calls = <<>> /\ comps = {}
  BY DEF InitPlan
<1>2. Len(stack) = 0 /\ Len(calls) = 0 /\ \A m \in Node : index[m] = 0  BY <1>1
<1>3. \A i \in 1 .. 0 : FALSE  OBVIOUS
<1>4. TType(index, low, stack, calls, comps)  BY <1>1 DEF TType
<1>5. TNumbered(index)
  <2>1. {n \in Node : index[n] > 0} = {}  BY <1>2
  <2>2. Cardinality({n \in Node : index[n] > 0}) = 0  BY <2>1, FS_EmptySet
  <2>3. \A m \in Node : ~(index[m] > 0) /\ index[m] <= 0  BY <1>2
  <2>4. PICK z : z = Cardinality({n \in Node : index[n] > 0})  OBVIOUS
  <2>5. \A m \in Node : index[m] <= z  BY <2>2, <2>3, <2>4
  <2>6. \A m \in Node : index[m] <= Cardinality({n \in Node : index[n] > 0})  BY <2>4, <2>5, Zenon
  <2>7. \A m, n \in Node : index[m] = index[n] /\ index[m] > 0 => m = n  BY <2>3, Zenon
  <2> QED  BY <2>6, <2>7, Zenon DEF TNumbered
<1>6. TStack(index, stack) /\ TCalls(index, low, stack, calls) /\ TBottom(stack, calls)
  BY <1>2, <1>3 DEF TStack, TCalls, TBottom
<1>7. \A m : ~Stacked(stack, m)  BY <1>2, <1>3 DEF Stacked
<1>8. TSorted(index, stack, comps) /\ TLinked(arcs, index, low, stack, calls)
  BY <1>1, <1>2, <1>7 DEF TSorted, TLinked
<1>9. \E ord, k : Descending(arcs, comps, ord, k)
  <2>1. PICK ord : ord = [c \in {} |-> 0]  OBVIOUS
  <2>2. Descending(arcs, comps, ord, 0)  BY <1>1, <2>1 DEF Descending
  <2> QED  BY <2>2
<1> QED  BY <1>4, <1>5, <1>6, <1>8, <1>9 DEF TarjanInv, TInv

(***************************************************************************)
(* The plan.                                                               *)
(***************************************************************************)

(* What a target is.                                                       *)
TargetKind == [kind : GuideKinds \cup TerminalKinds, node : Node, edges : SUBSET (Node \X Node),
               mapped : BOOLEAN, modeling : Modeling, needs : SUBSET STRING]

(* The paths that are searched: nodes, at least one.                       *)
NodePaths == {p \in Seq(Node) : Len(p) # 0}

(* The search works on such values.                                        *)
SearchType ==
  /\ targets \in Seq(TargetKind) /\ \A t \in DOMAIN targets : IsFiniteSet(targets[t].needs)
  /\ arcs \in SUBSET (Node \X Node)
  /\ queue \in Seq(NodePaths) /\ found \in Seq(NodePaths)
  /\ spent \in Nat /\ spent <= MaxExpansions
  /\ place \in Nat /\ place # 0
  /\ phase = "search" => place <= 2 * Len(targets)
  /\ phase = "components" => place = 1
  /\ phase \in {"components", "search", "planned", "over"}

(* What a step of bounded_paths adds to the queue: admissible extensions   *)
(* by the successors, and all of them.                                     *)
LEMMA ExtensionsAre ==
  ASSUME NEW path \in NodePaths, NEW after \in Seq(Node)
  PROVE  /\ Extensions(path, after) \in Seq(NodePaths)
         /\ \A k \in DOMAIN Extensions(path, after) : \E i \in DOMAIN after :
              Admissible(path, after[i]) /\ Extensions(path, after)[k] = Append(path, after[i])
         /\ \A i \in DOMAIN after : Admissible(path, after[i]) =>
              \E k \in DOMAIN Extensions(path, after) : Extensions(path, after)[k] = Append(path, after[i])
<1> DEFINE D == Seq(NodePaths)
           m == Len(after)
           more(i, x) == IF Admissible(path, after[i]) THEN Append(x, Append(path, after[i])) ELSE x
           g == [q \in Nat \X D |-> IF q[1] \in 1 .. m THEN more(q[1], q[2]) ELSE q[2]]
           R(f) == f = [i \in 0 .. m |-> IF i = 0 THEN <<>> ELSE IF Admissible(path, after[i])
                           THEN Append(f[i - 1], Append(path, after[i])) ELSE f[i - 1]]
           upto == CHOOSE f : R(f)
<1>0. m \in Nat /\ DOMAIN after = 1 .. m /\ \A i \in 1 .. m : after[i] \in Node
  BY ElementOfSeq
<1>1. \A i \in 1 .. m : Append(path, after[i]) \in NodePaths
  <2> SUFFICES ASSUME NEW i \in 1 .. m PROVE Append(path, after[i]) \in NodePaths  OBVIOUS
  <2>1. path \in Seq(Node) /\ after[i] \in Node  BY <1>0 DEF NodePaths
  <2>2. Append(path, after[i]) \in Seq(Node) /\ Len(Append(path, after[i])) = Len(path) + 1 /\ Len(path) \in Nat
    BY <2>1, AppendProperties
  <2> QED  BY <2>2 DEF NodePaths
<1>2. \A i \in 1 .. m : \A x \in D : more(i, x) \in D  BY <1>1
<1> HIDE DEF more, D
<1>3. g \in [Nat \X D -> D]
  <2>1. ASSUME NEW q \in Nat \X D PROVE (IF q[1] \in 1 .. m THEN more(q[1], q[2]) ELSE q[2]) \in D
    <3>1. q[2] \in D  OBVIOUS
    <3> QED  BY <3>1, <1>2
  <2> QED  BY <2>1
<1>4. PICK f : IsIteration(f, D, <<>>, g, m)
  <2>1. <<>> \in D  BY DEF D
  <2> HIDE DEF g, m
  <2> QED  BY <1>0, <1>3, <2>1, Iterates
<1>5. R(f)
  <2>1. ASSUME NEW i \in 0 .. m, i # 0 PROVE f[i] = more(i, f[i - 1])
    <3>1. i \in 1 .. m /\ i \in Nat /\ i - 1 \in 0 .. m  BY <1>0, <2>1
    <3>2. f[i - 1] \in D  BY <3>1, <1>4 DEF IsIteration
    <3>3. <<i, f[i - 1]>> \in Nat \X D /\ <<i, f[i - 1]>>[1] = i /\ <<i, f[i - 1]>>[2] = f[i - 1]  BY <3>1, <3>2
    <3>4. g[<<i, f[i - 1]>>] = more(i, f[i - 1])  BY <3>1, <3>3
    <3> HIDE DEF g, m
    <3> QED  BY <1>4, <3>1, <3>4 DEF IsIteration
  <2>2. f \in [0 .. m -> D] /\ f[0] = <<>>  BY <1>4 DEF IsIteration
  <2>3. f = [i \in 0 .. m |-> IF i = 0 THEN <<>> ELSE more(i, f[i - 1])]
    <3> HIDE DEF m
    <3> QED  BY <2>1, <2>2
  <2> HIDE DEF m
  <2> QED  BY <2>3 DEF more
<1>6. R(upto)
  <2> HIDE DEF R
  <2> QED  BY <1>5
<1>7. upto[0] = <<>> /\ \A i \in 1 .. m : upto[i] = more(i, upto[i - 1])
  <2> HIDE DEF upto, m
  <2>1. upto = [i \in 0 .. m |-> IF i = 0 THEN <<>> ELSE IF Admissible(path, after[i])
                           THEN Append(upto[i - 1], Append(path, after[i])) ELSE upto[i - 1]]
    BY <1>6
  <2>2. 0 \in 0 .. m /\ \A i \in 1 .. m : i \in 0 .. m /\ i # 0  BY <1>0
  <2>3. upto[0] = <<>>  BY <2>1, <2>2
  <2>4. \A i \in 1 .. m : upto[i] = IF Admissible(path, after[i])
                           THEN Append(upto[i - 1], Append(path, after[i])) ELSE upto[i - 1]
    BY <2>1, <2>2
  <2> QED  BY <2>3, <2>4 DEF more
<1>8. Extensions(path, after) = upto[m]  BY DEF Extensions
<1> HIDE DEF upto, R
<1> DEFINE Right(i, x) ==
             /\ x \in D
             /\ \A k \in DOMAIN x : \E j \in 1 .. i : Admissible(path, after[j]) /\ x[k] = Append(path, after[j])
             /\ \A j \in 1 .. i : Admissible(path, after[j]) => \E k \in DOMAIN x : x[k] = Append(path, after[j])
           Good == {i \in Nat : i <= m => Right(i, upto[i])}
<1>9. 0 \in Good
  <2>1. <<>> \in D /\ DOMAIN <<>> = {}  BY DEF D
  <2> QED  BY <1>7, <2>1
<1>10. ASSUME NEW i \in Nat, i \in Good PROVE i + 1 \in Good
  <2> SUFFICES ASSUME i + 1 <= m PROVE Right(i + 1, upto[i + 1])  OBVIOUS
  <2>1. i + 1 \in 1 .. m /\ (i + 1) - 1 = i /\ i <= m  BY <1>0
  <2>2. upto[i + 1] = more(i + 1, upto[i])  BY <1>7, <2>1
  <2>3. Right(i, upto[i])  BY <1>10, <2>1
  <2>4. \A j \in 1 .. (i + 1) : j \in 1 .. i \/ j = i + 1  OBVIOUS
  <2>5. \A j \in 1 .. i : j \in 1 .. (i + 1)  OBVIOUS
  <2>6. PICK x : x = upto[i]  OBVIOUS
  <2>7. CASE ~Admissible(path, after[i + 1])
    <3>1. upto[i + 1] = x  BY <2>2, <2>6, <2>7 DEF more
    <3> QED  BY <3>1, <2>3, <2>4, <2>5, <2>6, <2>7
  <2>8. CASE Admissible(path, after[i + 1])
    <3>0. PICK e : e = Append(path, after[i + 1])  OBVIOUS
    <3>1. upto[i + 1] = Append(x, e)  BY <2>2, <2>6, <2>8, <3>0 DEF more
    <3>2. x \in Seq(NodePaths) /\ e \in NodePaths  BY <2>1, <2>3, <2>6, <1>1, <3>0 DEF D
    <3>3. PICK y : y = Append(x, e)  OBVIOUS
    <3>4. /\ y \in Seq(NodePaths) /\ Len(y) = Len(x) + 1 /\ Len(x) \in Nat
          /\ \A k \in 1 .. Len(x) : y[k] = x[k]
          /\ y[Len(x) + 1] = e
      BY <3>2, <3>3, AppendProperties
    <3>5. DOMAIN x = 1 .. Len(x) /\ DOMAIN y = 1 .. (Len(x) + 1)  BY <3>2, <3>4
    <3>6. \A k \in 1 .. (Len(x) + 1) : k \in 1 .. Len(x) \/ k = Len(x) + 1  BY <3>4
    <3>7. Len(x) + 1 \in 1 .. (Len(x) + 1) /\ \A k \in 1 .. Len(x) : k \in 1 .. (Len(x) + 1)  BY <3>4
    <3>8. i + 1 \in 1 .. (i + 1)  OBVIOUS
    <3>9. ASSUME NEW k \in DOMAIN y
          PROVE  \E j \in 1 .. (i + 1) : Admissible(path, after[j]) /\ y[k] = Append(path, after[j])
      <4>1. CASE k \in 1 .. Len(x)
        <5>1. y[k] = x[k] /\ k \in DOMAIN x  BY <4>1, <3>4, <3>5
        <5>2. PICK j \in 1 .. i : Admissible(path, after[j]) /\ x[k] = Append(path, after[j])
          BY <5>1, <2>3, <2>6
        <5>3. j \in 1 .. (i + 1)  BY <5>2, <2>5
        <5> QED  BY <5>1, <5>2, <5>3
      <4>2. CASE k = Len(x) + 1  BY <4>2, <2>8, <3>0, <3>4, <3>8
      <4> QED  BY <4>1, <4>2, <3>5, <3>6
    <3>10. ASSUME NEW j \in 1 .. (i + 1), Admissible(path, after[j])
           PROVE  \E k \in DOMAIN y : y[k] = Append(path, after[j])
      <4>1. CASE j \in 1 .. i
        <5>1. PICK k \in DOMAIN x : x[k] = Append(path, after[j])  BY <4>1, <3>10, <2>3, <2>6
        <5> QED  BY <5>1, <3>4, <3>5, <3>7
      <4>2. CASE j = i + 1  BY <4>2, <3>0, <3>4, <3>5, <3>7
      <4> QED  BY <4>1, <4>2, <2>4
    <3>11. y \in D  BY <3>4 DEF D
    <3>12. upto[i + 1] = y  BY <3>1, <3>3
    <3> QED  BY <3>9, <3>10, <3>11, <3>12
  <2> QED  BY <2>7, <2>8
<1>11. m \in Good
  <2> HIDE DEF Good, m
  <2> QED  BY <1>0, <1>9, <1>10, SetInduction
<1>12. Right(m, upto[m])  BY <1>0, <1>11
<1>13. PICK r : r = Extensions(path, after)  OBVIOUS
<1>14. Right(m, r)  BY <1>8, <1>12, <1>13
<1> HIDE DEF m
<1> QED  BY <1>0, <1>13, <1>14 DEF D

(* The guide targets at a node are listed in an order.                     *)
LEMMA TargetsAtAre ==
  ASSUME targets \in Seq(TargetKind), NEW n, NEW edges, NEW t
  PROVE  TargetsAt(n, edges, t) \in Seq(DOMAIN targets)
<1> DEFINE S == Guides(n, edges, t)
           c == Cardinality(S)
           L == Len(targets)
           rank(u) == KindOrder(targets[u].kind)
           times(k) == IF k = 0 THEN 0 ELSE IF k = 1 THEN L + 1 ELSE IF k = 2 THEN L + 1 + L + 1
                       ELSE IF k = 3 THEN L + 1 + L + 1 + L + 1 ELSE L + 1 + L + 1 + L + 1 + L + 1
           key == [u \in S |-> times(rank(u)) + u]
<1>0. L \in Nat /\ DOMAIN targets = 1 .. L  OBVIOUS
<1>1. S \subseteq DOMAIN targets  BY DEF Guides
<1>2. IsFiniteSet(S) /\ S \subseteq Nat /\ c \in Nat
  <2>1. IsFiniteSet(DOMAIN targets)
    <3>1. IsFiniteSet(1 .. L)  BY <1>0, FS_Interval
    <3> QED  BY <1>0, <3>1
  <2>2. IsFiniteSet(S)  BY <1>1, <2>1, FS_Subset
  <2> QED  BY <1>0, <1>1, <2>2, FS_CardinalityType
<1>3. \A u : rank(u) \in {0, 1, 2, 3, 4}  BY DEF KindOrder
<1>4. \A u \in S : u \in 1 .. L  BY <1>0, <1>1
<1>5. \A u \in S : key[u] \in Nat /\ key[u] = times(rank(u)) + u
  <2> SUFFICES ASSUME NEW u \in S PROVE times(rank(u)) + u \in Nat  OBVIOUS
  <2> HIDE DEF rank, L, S
  <2> QED  BY <1>0, <1>3, <1>4
<1>6. \A u, v \in S : /\ key[u] < key[v] <=> SortKey(u, v)
                      /\ key[u] = key[v] => u = v
  <2> SUFFICES ASSUME NEW u \in S, NEW v \in S
               PROVE  (key[u] < key[v] <=> SortKey(u, v)) /\ (key[u] = key[v] => u = v)
    OBVIOUS
  <2>1. key[u] = times(rank(u)) + u /\ key[v] = times(rank(v)) + v  BY <1>5
  <2>2. u \in 1 .. L /\ v \in 1 .. L  BY <1>4
  <2>3. rank(u) \in {0, 1, 2, 3, 4} /\ rank(v) \in {0, 1, 2, 3, 4}  BY <1>3
  <2>4. SortKey(u, v) <=> rank(u) < rank(v) \/ (rank(u) = rank(v) /\ u < v)  BY DEF SortKey
  <2> HIDE DEF rank, L, S, key
  <2>5. PICK a, b : a = rank(u) /\ b = rank(v)  OBVIOUS
  <2>6. \/ /\ a < b /\ times(a) + u < times(b) + v
        \/ /\ b < a /\ times(b) + v < times(a) + u
        \/ a = b /\ times(a) \in Nat
    BY <1>0, <2>2, <2>3, <2>5
  <2>7. times(a) \in Nat /\ times(b) \in Nat /\ a \in Nat /\ b \in Nat  BY <1>0, <2>3, <2>5
  <2> HIDE DEF times
  <2> QED  BY <1>0, <2>1, <2>2, <2>4, <2>5, <2>6, <2>7
<1>7. key \in [S -> Nat] /\ \A x, y \in S : key[x] = key[y] => x = y
  <2>1. DOMAIN key = S  OBVIOUS
  <2>2. key = [u \in S |-> key[u]]  OBVIOUS
  <2> HIDE DEF key, S
  <2> QED  BY <1>5, <1>6, <2>1, <2>2
<1>8. PICK s : Lists(s, S, key, c)
  <2> HIDE DEF key, S
  <2> QED  BY <1>2, <1>7, Enumeration
<1>9. s \in [1 .. c -> S] /\ \A i, j \in DOMAIN s : i < j => SortKey(s[i], s[j])
  <2> HIDE DEF key, S, c
  <2> QED  BY <1>6, <1>8 DEF Lists
<1>10. TargetsAt(n, edges, t) =
         CHOOSE r \in [1 .. c -> S] : \A i, j \in DOMAIN r : i < j => SortKey(r[i], r[j])
  BY DEF TargetsAt
<1>11. TargetsAt(n, edges, t) \in [1 .. c -> S]
  <2> HIDE DEF S, c
  <2> QED  BY <1>9, <1>10
<1>12. TargetsAt(n, edges, t) \in Seq(S)
  <2> HIDE DEF S, c
  <2> QED  BY <1>2, <1>11, SeqDef
<1> HIDE DEF S
<1> QED  BY <1>1, <1>12, SeqMonotone

(* The target ids met on a path are targets, the wanted one last.          *)
LEMMA PathTargetsAre ==
  ASSUME targets \in Seq(TargetKind), NEW path, Len(path) \in Nat, NEW t \in DOMAIN targets
  PROVE  \E r \in Seq(DOMAIN targets) : PathTargets(path, t) = Append(r, t)
<1> DEFINE D == Seq(DOMAIN targets)
           m == Len(path)
           at(i) == TargetsAt(path[i], PathEdges(path), t)
           g == [q \in Nat \X D |-> q[2] \o at(q[1])]
           R(f) == f = [i \in 0 .. m |-> IF i = 0 THEN <<>> ELSE f[i - 1] \o at(i)]
           upto == CHOOSE f : R(f)
<1>1. \A i : at(i) \in D  BY TargetsAtAre
<1>2. \A x \in D, y \in D : x \o y \in D  BY ConcatProperties
<1> HIDE DEF at, D
<1>3. g \in [Nat \X D -> D]
  <2>1. ASSUME NEW q \in Nat \X D PROVE q[2] \o at(q[1]) \in D
    <3>1. q[2] \in D  OBVIOUS
    <3> QED  BY <3>1, <1>1, <1>2
  <2> QED  BY <2>1
<1>4. PICK f : IsIteration(f, D, <<>>, g, m)
  <2>1. <<>> \in D  BY DEF D
  <2> HIDE DEF g, m
  <2> QED  BY <1>3, <2>1, Iterates DEF m
<1>5. R(f)
  <2>1. ASSUME NEW i \in 0 .. m, i # 0 PROVE f[i] = f[i - 1] \o at(i)
    <3>1. i \in 1 .. m /\ i \in Nat /\ i - 1 \in 0 .. m  BY <2>1
    <3>2. f[i - 1] \in D  BY <3>1, <1>4 DEF IsIteration
    <3>3. <<i, f[i - 1]>> \in Nat \X D /\ <<i, f[i - 1]>>[1] = i /\ <<i, f[i - 1]>>[2] = f[i - 1]  BY <3>1, <3>2
    <3>4. g[<<i, f[i - 1]>>] = f[i - 1] \o at(i)  BY <3>1, <3>3
    <3> HIDE DEF g, m
    <3> QED  BY <1>4, <3>1, <3>4 DEF IsIteration
  <2>2. f \in [0 .. m -> D] /\ f[0] = <<>>  BY <1>4 DEF IsIteration
  <2> HIDE DEF m
  <2> QED  BY <2>1, <2>2
<1>6. R(upto)
  <2> HIDE DEF R
  <2> QED  BY <1>5
<1>7. upto \in [0 .. m -> D]
  <2> DEFINE Good == {i \in Nat : i <= m => upto[i] \in D}
  <2>0. m \in Nat  OBVIOUS
  <2>1. upto = [i \in 0 .. m |-> IF i = 0 THEN <<>> ELSE upto[i - 1] \o at(i)]
    <3> HIDE DEF upto
    <3> QED  BY <1>6
  <2> HIDE DEF upto, m
  <2>2. 0 \in Good
    <3>1. 0 \in 0 .. m  BY <2>0
    <3>2. upto[0] = <<>>  BY <2>1, <3>1
    <3>3. <<>> \in D  BY DEF D
    <3> QED  BY <3>2, <3>3
  <2>3. ASSUME NEW i \in Nat, i \in Good PROVE i + 1 \in Good
    <3> SUFFICES ASSUME i + 1 <= m PROVE upto[i + 1] \in D  OBVIOUS
    <3>1. i + 1 \in 0 .. m /\ i + 1 # 0 /\ (i + 1) - 1 = i /\ i <= m  BY <2>0
    <3>2. upto[i + 1] = upto[i] \o at(i + 1)  BY <2>1, <3>1
    <3> QED  BY <2>3, <3>1, <3>2, <1>1, <1>2
  <2>4. \A i \in Nat : i \in Good
    <3> HIDE DEF Good
    <3> QED  BY <2>2, <2>3, SetInduction
  <2>5. \A i \in 0 .. m : upto[i] \in D  BY <2>4, <2>0
  <2> QED  BY <2>1, <2>5
<1>8. upto[m] \in D
  <2> HIDE DEF upto
  <2>1. m \in 0 .. m  OBVIOUS
  <2> QED  BY <1>7, <2>1
<1>9. PathTargets(path, t) = Append(upto[m], t)  BY DEF PathTargets, at
<1> HIDE DEF upto, m
<1> QED  BY <1>8, <1>9 DEF D

(* A list of target ids that ends in t.                                    *)
EndsIn(p, t) == p \in Seq(DOMAIN targets) /\ Len(p) \in Nat /\ Len(p) # 0 /\ p[Len(p)] = t

(* A list that an element is appended to ends in it.                       *)
LEMMA AppendEnds ==
  ASSUME NEW r \in Seq(DOMAIN targets), NEW t \in DOMAIN targets
  PROVE  EndsIn(Append(r, t), t)
<1>1. PICK p : p = Append(r, t)  OBVIOUS
<1>2. p \in Seq(DOMAIN targets) /\ Len(p) = Len(r) + 1 /\ Len(r) \in Nat /\ p[Len(r) + 1] = t
  BY <1>1, AppendProperties
<1> QED  BY <1>1, <1>2 DEF EndsIn

(* So do the waypoints of a path.                                          *)
LEMMA WaypointsAre ==
  ASSUME targets \in Seq(TargetKind), NEW path, Len(path) \in Nat, NEW t \in DOMAIN targets
  PROVE  EndsIn(Waypoints(path, t), t)
<1>1. PICK r \in Seq(DOMAIN targets) : PathTargets(path, t) = Append(r, t)  BY PathTargetsAre
<1>2. CASE Waypoints(path, t) = PathTargets(path, t)  BY <1>1, <1>2, AppendEnds
<1>3. CASE /\ Reaches(t) # {}
           /\ Waypoints(path, t) = Front(PathTargets(path, t)) \o <<HazardReach(t), t>>
  <2>1. HazardReach(t) \in DOMAIN targets
    <3>1. Reaches(t) \subseteq DOMAIN targets  BY DEF Reaches
    <3>2. DOMAIN targets \subseteq Nat  OBVIOUS
    <3>3. \E u \in Reaches(t) : \A v \in Reaches(t) : u <= v  BY <1>3, <3>1, <3>2, Smallest
    <3> QED  BY <3>1, <3>3 DEF HazardReach
  <2>2. PICK h \in DOMAIN targets : h = HazardReach(t)  BY <2>1
  <2>3. Front(Append(r, t)) = r
    <3>1. PICK p : p = Append(r, t)  OBVIOUS
    <3>2. /\ p \in Seq(DOMAIN targets) /\ Len(p) = Len(r) + 1 /\ Len(r) \in Nat
          /\ \A i \in 1 .. Len(r) : p[i] = r[i]
      BY <3>1, AppendProperties
    <3>3. Front(p) = SubSeq(p, 1, Len(r))  BY <3>2 DEF Front
    <3>4. /\ Front(p) \in Seq(DOMAIN targets) /\ Len(Front(p)) = Len(r)
          /\ \A i \in 1 .. Len(r) : Front(p)[i] = r[i]
      <4>1. 1 \in 1 .. Len(p) + 1 /\ Len(r) \in 0 .. Len(p)  BY <3>2
      <4> QED  BY <3>2, <3>3, <4>1, SubSeqProperties
    <3>5. Front(p) = r  BY <3>4, <3>2, SeqEqual
    <3> QED  BY <3>1, <3>5
  <2>4. Waypoints(path, t) = r \o <<h, t>>  BY <1>1, <1>3, <2>2, <2>3
  <2>5. PICK p : p = Waypoints(path, t)  OBVIOUS
  <2>6. /\ p \in Seq(DOMAIN targets) /\ Len(p) = Len(r) + 2 /\ Len(r) \in Nat /\ p[Len(r) + 2] = t
    <3>1. PICK q : q = <<h, t>>  OBVIOUS
    <3>2. q \in Seq(DOMAIN targets) /\ Len(q) = 2 /\ q[2] = t  BY <3>1
    <3>3. p = r \o q  BY <2>4, <2>5, <3>1
    <3>4. p \in Seq(DOMAIN targets) /\ Len(p) = Len(r) + 2 /\ Len(r) \in Nat
      <4>1. r \o q \in Seq(DOMAIN targets) /\ Len(r \o q) = Len(r) + Len(q)  BY <3>2, ConcatProperties
      <4> QED  BY <3>2, <3>3, <4>1
    <3>5. Len(r) + 2 \in 1 .. Len(r) + Len(q) /\ ~(Len(r) + 2 <= Len(r)) /\ (Len(r) + 2) - Len(r) = 2
      BY <3>2, <3>4
    <3>6. p[Len(r) + 2] = q[2]
      <4>1. (r \o q)[Len(r) + 2] = q[(Len(r) + 2) - Len(r)]  BY <3>2, <3>5, ConcatProperties
      <4> QED  BY <3>3, <3>5, <4>1
    <3> QED  BY <3>2, <3>4, <3>6
  <2> QED  BY <2>5, <2>6 DEF EndsIn
<1> QED  BY <1>2, <1>3 DEF Waypoints

(* The fields of a task.                                                   *)
TaskFields == {"target", "kind", "paths", "waypoints", "control", "data", "transfers", "before",
               "unlocked", "nodes", "truncated", "temporal", "modeling", "state"}

(* A task has a target, each of its paths ends in it, what it asks for is  *)
(* finite, and only a mapped task with a path is ready.                    *)
TaskFits(task) ==
  /\ task = [x \in TaskFields |-> task[x]]
  /\ task.target \in DOMAIN targets
  /\ task.paths \in Seq(Seq(DOMAIN targets))
  /\ \A k \in DOMAIN task.paths : EndsIn(task.paths[k], task.target)
  /\ task.waypoints \in Seq(DOMAIN targets)
  /\ IsFiniteSet(task.control) /\ IsFiniteSet(task.data)
  /\ IsFiniteSet(task.transfers) /\ IsFiniteSet(task.before)
  /\ task.state \in {"unmapped", "blocked", "ready"}
  /\ task.state = "ready" => targets[task.target].mapped /\ task.paths # <<>>

(* The edges of a path are pairs of nodes.                                 *)
LEMMA PathEdgesAre ==
  ASSUME NEW p \in NodePaths
  PROVE  PathEdges(p) \subseteq Node \X Node
<1>1. p \in Seq(Node) /\ Len(p) \in Nat  BY DEF NodePaths
<1>2. \A i \in 1 .. Len(p) - 1 : i \in 1 .. Len(p) /\ i + 1 \in 1 .. Len(p)  BY <1>1
<1>3. \A i \in 1 .. Len(p) : p[i] \in Node  BY <1>1, ElementOfSeq
<1> QED  BY <1>2, <1>3 DEF PathEdges

(* A list of lists has a shortest one.                                     *)
LEMMA OrderedIs ==
  ASSUME NEW S, NEW paths \in Seq(Seq(S))
  PROVE  Ordered(paths) \in Seq(S)
<1>1. CASE paths = <<>>  BY <1>1 DEF Ordered
<1>2. CASE paths # <<>>
  <2> DEFINE lens == {Len(p) : p \in Range(paths)}
  <2>0. \A p \in Range(paths) : p \in Seq(S) /\ Len(p) \in Nat  BY ElementOfSeq DEF Range
  <2>1. lens \in SUBSET Nat  BY <2>0
  <2>2. 1 \in DOMAIN paths  BY <1>2, EmptySeq
  <2>3. paths[1] \in Range(paths)  BY <2>2 DEF Range
  <2>4. lens # {}  BY <2>3
  <2>5. PICK l \in lens : \A k \in lens : l <= k
    <3> HIDE DEF lens
    <3> QED  BY <2>1, <2>4, Smallest
  <2>6. \E p \in Range(paths) : \A q \in Range(paths) : Len(p) <= Len(q)  BY <2>5
  <2>7. Ordered(paths) \in Range(paths)  BY <1>2, <2>6 DEF Ordered
  <2> QED  BY <2>0, <2>7
<1> QED  BY <1>1, <1>2

(* What a search leads to is such a task.                                  *)
LEMMA TaskIs ==
  ASSUME SearchType, NEW t \in DOMAIN targets
  PROVE  /\ TaskFits(Task(t))
         /\ Task(t).target = t /\ Task(t).nodes = found /\ Task(t).truncated = (Reasons # {})
<1> DEFINE edges == UNION {PathEdges(p) : p \in Range(found)}
           paths == [i \in DOMAIN found |-> Waypoints(found[i], t)]
<1>0. PICK task : task = Task(t)  OBVIOUS
<1>1. /\ task = [x \in TaskFields |-> task[x]]
      /\ task.target = t /\ task.paths = paths /\ task.waypoints = Ordered(paths)
      /\ task.control = {<<Obliged(e), e>> : e \in Obligations(edges)}
      /\ task.data = targets[t].needs /\ task.transfers = Transfers(edges, t)
      /\ task.before = Prerequisites(t) /\ task.state = InitialState(t, paths)
      /\ task.nodes = found /\ task.truncated = (Reasons # {})
  BY <1>0, Zenon DEF Task, TaskFields
<1>2. /\ found \in Seq(NodePaths) /\ targets \in Seq(TargetKind) /\ Len(found) \in Nat
      /\ DOMAIN found = 1 .. Len(found) /\ \A i \in DOMAIN found : found[i] \in NodePaths
  <2>1. found \in Seq(NodePaths) /\ targets \in Seq(TargetKind)  BY DEF SearchType
  <2> QED  BY <2>1, ElementOfSeq
<1>3. IsFiniteSet(Node \X Node)
  <2>1. IsFiniteSet(Node)  BY SearchLimits, FS_Interval DEF Node
  <2> QED  BY <2>1, FS_Product
<1>4. edges \subseteq Node \X Node
  <2>1. \A p \in Range(found) : PathEdges(p) \subseteq Node \X Node  BY <1>2, PathEdgesAre DEF Range
  <2> QED  BY <2>1
<1>5. \A i \in DOMAIN found : EndsIn(Waypoints(found[i], t), t)
  <2> SUFFICES ASSUME NEW i \in DOMAIN found PROVE EndsIn(Waypoints(found[i], t), t)  OBVIOUS
  <2>1. Len(found[i]) \in Nat  BY <1>2 DEF NodePaths
  <2> QED  BY <1>2, <2>1, WaypointsAre
<1>6. paths \in Seq(Seq(DOMAIN targets)) /\ DOMAIN paths = DOMAIN found /\ \A k \in DOMAIN paths : EndsIn(paths[k], t)
  <2>1. \A i \in DOMAIN found : Waypoints(found[i], t) \in Seq(DOMAIN targets)  BY <1>5 DEF EndsIn
  <2>2. paths \in [1 .. Len(found) -> Seq(DOMAIN targets)]  BY <1>2, <2>1
  <2>3. DOMAIN paths = DOMAIN found /\ \A k \in DOMAIN paths : EndsIn(paths[k], t)  BY <1>5
  <2> HIDE DEF paths
  <2> QED  BY <1>2, <2>2, <2>3, SeqDef
<1>7. Ordered(paths) \in Seq(DOMAIN targets)
  <2> HIDE DEF paths
  <2> QED  BY <1>6, OrderedIs
<1> HIDE DEF paths, edges
<1>8. IsFiniteSet(task.control)
  <2> DEFINE O == Obligations(edges)
             f == [e \in O |-> <<Obliged(e), e>>]
  <2>1. O \subseteq Node \X Node  BY <1>4 DEF Obligations
  <2>2. IsFiniteSet(O)  BY <2>1, <1>3, FS_Subset
  <2>3. DOMAIN f = O  OBVIOUS
  <2>4. IsFiniteSet({f[e] : e \in O})
    <3> HIDE DEF O, f
    <3> QED  BY <2>2, <2>3, FiniteImage
  <2>5. task.control = {f[e] : e \in O}  BY <1>1
  <2> QED  BY <2>4, <2>5
<1>9. IsFiniteSet(task.transfers)
  <2>1. Transfers(edges, t) \subseteq Node \X Node  BY <1>4 DEF Transfers
  <2> QED  BY <2>1, <1>1, <1>3, FS_Subset
<1>10. IsFiniteSet(task.data)  BY <1>1 DEF SearchType
<1>11. IsFiniteSet(task.before)
  <2>1. task.before = {} \/ \E x : task.before = {x}  BY <1>1 DEF Prerequisites
  <2> QED  BY <2>1, FS_EmptySet, FS_Singleton
<1>12. /\ task.state \in {"unmapped", "blocked", "ready"}
       /\ task.state = "ready" => targets[t].mapped /\ paths # <<>>
  BY <1>1 DEF InitialState
<1>13. TaskFits(task)  BY <1>1, <1>6, <1>7, <1>8, <1>9, <1>10, <1>11, <1>12 DEF TaskFits
<1> QED  BY <1>0, <1>1, <1>13

(* The tasks made so far fit.                                              *)
TasksFit == \E S : tasks \in Seq(S) /\ \A x \in S : TaskFits(x)

(* A target whose turn is over.                                            *)
Passed(t) ==
  phase = "planned" \/ IF IsTerminal(t) THEN t < place ELSE t + Len(targets) < place

(* A task was made for the target.                                         *)
HasTask(t) == \E i \in DOMAIN tasks : tasks[i].target = t

(* The target is a waypoint of a task.                                     *)
OnAPath(t) == \E i \in DOMAIN tasks : \E p \in Range(tasks[i].paths) : t \in Range(p)

(* It is a task's, or lies on a path of one; a reach target whose          *)
(* violation has no probe is a task's.                                     *)
Accounted ==
  \A t \in DOMAIN targets : Passed(t) =>
    HasTask(t) \/ (OnAPath(t) /\ ~PairedUnmapped(t))

(* The invariant of the plan.                                              *)
PlanInv == SearchType /\ TasksFit /\ Accounted

(* The target whose turn it is.                                            *)
LEMMA CurrentIs ==
  ASSUME SearchType, phase = "search"
  PROVE  Current \in DOMAIN targets
<1>1. place \in Nat /\ place # 0 /\ place <= 2 * Len(targets) /\ Len(targets) \in Nat /\ DOMAIN targets = 1 .. Len(targets)
  BY DEF SearchType
<1> QED  BY <1>1 DEF Current, Exploring

(* One turn ends at a time.                                                *)
LEMMA TurnEnds ==
  ASSUME SearchType, phase = "search", UNCHANGED targets,
         IF place = 2 * Len(targets) THEN phase' = "planned" /\ UNCHANGED place
         ELSE place' = place + 1 /\ UNCHANGED phase,
         NEW t \in DOMAIN targets, Passed(t)'
  PROVE  Passed(t) \/ (t = Current /\ (Exploring <=> ~IsTerminal(t)))
<1>1. place \in Nat /\ place # 0 /\ place <= 2 * Len(targets) /\ Len(targets) \in Nat /\ t \in 1 .. Len(targets)
  BY DEF SearchType
<1>2. IsTerminal(t)' <=> IsTerminal(t)  BY DEF IsTerminal
<1>3. phase' = "planned" \/ IF IsTerminal(t) THEN t < place' ELSE t + Len(targets) < place'
  BY <1>2 DEF Passed
<1>4. CASE IsTerminal(t)
  <2>1. t < place \/ t = place  BY <1>1, <1>3, <1>4
  <2> QED  BY <1>1, <1>4, <2>1 DEF Passed, Current, Exploring
<1>5. CASE ~IsTerminal(t)
  <2>1. t + Len(targets) < place \/ t + Len(targets) = place  BY <1>1, <1>3, <1>5
  <2> QED  BY <1>1, <1>5, <2>1 DEF Passed, Current, Exploring
<1> QED  BY <1>4, <1>5

(* A turn that ends without a task.                                        *)
LEMMA SkipKeeps == ASSUME PlanInv, Skip PROVE PlanInv'
<1>1. /\ phase = "search" /\ ~Wanted(Current)
      /\ IF place = 2 * Len(targets) THEN phase' = "planned" /\ UNCHANGED place
         ELSE place' = place + 1 /\ UNCHANGED phase
      /\ arcs' = arcs /\ targets' = targets /\ queue' = queue /\ found' = found /\ spent' = spent
      /\ tasks' = tasks
  BY DEF Skip, search
<1>2. SearchType /\ TasksFit /\ Accounted  BY DEF PlanInv
<1>3. SearchType'
  <2>1. /\ Len(targets) \in Nat /\ place \in Nat /\ place # 0 /\ place <= 2 * Len(targets)
        /\ phase \in {"components", "search", "planned", "over"}
    BY <1>1, <1>2 DEF SearchType
  <2>2. /\ place' \in Nat /\ place' # 0 /\ (phase' = "search" => place' <= 2 * Len(targets))
        /\ phase' \in {"components", "search", "planned", "over"}
    <3> QED  BY <1>1, <2>1
  <2> QED  BY <1>1, <1>2, <2>2 DEF SearchType
<1>4. TasksFit'
  <2>1. \A x : TaskFits(x)' <=> TaskFits(x)  BY <1>1 DEF TaskFits, EndsIn
  <2> QED  BY <1>1, <1>2, <2>1 DEF TasksFit
<1>5. Accounted'
  <2> SUFFICES ASSUME NEW t \in DOMAIN targets, Passed(t)'
               PROVE  HasTask(t)' \/ (OnAPath(t)' /\ ~PairedUnmapped(t)')
    BY <1>1 DEF Accounted
  <2>1. (HasTask(t)' <=> HasTask(t)) /\ (OnAPath(t)' <=> OnAPath(t)) /\ (PairedUnmapped(t)' <=> PairedUnmapped(t))
    BY <1>1 DEF HasTask, OnAPath, PairedUnmapped
  <2>2. CASE Passed(t)  BY <2>1, <2>2, <1>2 DEF Accounted
  <2>3. CASE t = Current /\ (Exploring <=> ~IsTerminal(t))
    <3>1. ~Wanted(t)  BY <1>1, <2>3
    <3>2. Exploring /\ ~IsTerminal(t)  BY <2>3, <3>1 DEF Wanted
    <3>3. targets[t].kind \in GuideKinds
      <4>1. targets[t] \in TargetKind  BY <1>2, ElementOfSeq DEF SearchType
      <4> QED  BY <4>1, <3>2 DEF TargetKind, IsTerminal
    <3>4. t \in Claimed /\ ~PairedUnmapped(t)  BY <3>1, <3>2, <3>3 DEF Wanted
    <3>5. OnAPath(t)  BY <3>4 DEF Claimed, OnAPath
    <3> QED  BY <3>4, <3>5, <2>1
  <2> QED  BY <2>2, <2>3, <1>1, <1>2, TurnEnds
<1> QED  BY <1>3, <1>4, <1>5 DEF PlanInv

(* A turn that ends with one.                                              *)
LEMMA AddTaskKeeps == ASSUME PlanInv, AddTask PROVE PlanInv'
<1>1. /\ phase = "search" /\ Wanted(Current)
      /\ tasks' = Append(tasks, Task(Current))
      /\ queue' = <<<<Entry>>>> /\ found' = <<>> /\ spent' = 0
      /\ IF place = 2 * Len(targets) THEN phase' = "planned" /\ UNCHANGED place
         ELSE place' = place + 1 /\ UNCHANGED phase
      /\ arcs' = arcs /\ targets' = targets
  BY DEF AddTask, FreshSearch
<1>2. SearchType /\ TasksFit /\ Accounted  BY DEF PlanInv
<1>3. Current \in DOMAIN targets  BY <1>1, <1>2, CurrentIs
<1>4. PICK task : task = Task(Current)  OBVIOUS
<1>5. TaskFits(task) /\ task.target = Current  BY <1>2, <1>3, <1>4, TaskIs
<1>6. PICK S : tasks \in Seq(S) /\ \A x \in S : TaskFits(x)  BY <1>2 DEF TasksFit
<1>7. /\ tasks' \in Seq(S \cup {task}) /\ Len(tasks') = Len(tasks) + 1 /\ Len(tasks) \in Nat
      /\ \A i \in 1 .. Len(tasks) : tasks'[i] = tasks[i]
      /\ tasks'[Len(tasks) + 1] = task
  <2>1. tasks \in Seq(S \cup {task})  BY <1>6, SeqMonotone
  <2>2. tasks' = Append(tasks, task)  BY <1>1, <1>4
  <2> QED  BY <2>1, <2>2, AppendProperties
<1>8. SearchType'
  <2>0. /\ Len(targets) \in Nat /\ place \in Nat /\ place # 0 /\ place <= 2 * Len(targets)
        /\ phase \in {"components", "search", "planned", "over"}
    BY <1>1, <1>2 DEF SearchType
  <2>1. /\ place' \in Nat /\ place' # 0 /\ (phase' = "search" => place' <= 2 * Len(targets))
        /\ phase' \in {"components", "search", "planned", "over"}
    <3> QED  BY <1>1, <2>0
  <2>2. <<<<Entry>>>> \in Seq(NodePaths)
    <3>1. <<Entry>> \in Seq(Node) /\ Len(<<Entry>>) = 1  BY SearchLimits DEF Entry, Node
    <3>2. <<Entry>> \in NodePaths  BY <3>1 DEF NodePaths
    <3> QED  BY <3>2
  <2>3. <<>> \in Seq(NodePaths)  OBVIOUS
  <2>4. 0 \in Nat /\ 0 <= MaxExpansions  BY SearchLimits
  <2> QED  BY <1>1, <1>2, <2>1, <2>2, <2>3, <2>4 DEF SearchType
<1>9. TasksFit'
  <2>1. \A x : TaskFits(x)' <=> TaskFits(x)  BY <1>1 DEF TaskFits, EndsIn
  <2>2. \A x \in S \cup {task} : TaskFits(x)'  BY <2>1, <1>5, <1>6
  <2> QED  BY <1>7, <2>2 DEF TasksFit
<1>10. Accounted'
  <2> SUFFICES ASSUME NEW t \in DOMAIN targets, Passed(t)'
               PROVE  HasTask(t)' \/ (OnAPath(t)' /\ ~PairedUnmapped(t)')
    BY <1>1 DEF Accounted
  <2>0. DOMAIN tasks = 1 .. Len(tasks) /\ DOMAIN tasks' = 1 .. Len(tasks) + 1  BY <1>6, <1>7
  <2>1. \A i \in DOMAIN tasks : i \in DOMAIN tasks' /\ tasks'[i] = tasks[i]  BY <2>0, <1>7
  <2>2. /\ HasTask(t) => HasTask(t)'
        /\ OnAPath(t) => OnAPath(t)'
        /\ PairedUnmapped(t)' <=> PairedUnmapped(t)
    <3>1. HasTask(t) => HasTask(t)'  BY <2>1 DEF HasTask
    <3>2. OnAPath(t) => OnAPath(t)'  BY <2>1 DEF OnAPath
    <3>3. PairedUnmapped(t)' <=> PairedUnmapped(t)  BY <1>1 DEF PairedUnmapped
    <3> QED  BY <3>1, <3>2, <3>3
  <2>3. CASE Passed(t)  BY <2>2, <2>3, <1>2 DEF Accounted
  <2>4. CASE t = Current
    <3>1. Len(tasks) + 1 \in DOMAIN tasks'  BY <2>0, <1>7
    <3>2. tasks'[Len(tasks) + 1].target = t  BY <1>5, <1>7, <2>4
    <3> QED  BY <3>1, <3>2 DEF HasTask
  <2> QED  BY <2>3, <2>4, <1>1, <1>2, TurnEnds
<1> QED  BY <1>8, <1>9, <1>10 DEF PlanInv

(* Nothing of the plan but the search goes on.                             *)
LEMMA PlanStands ==
  ASSUME PlanInv, SearchType', targets' = targets, tasks' = tasks, place' = place,
         phase' = "planned" => phase = "planned" \/ targets = <<>>
  PROVE  PlanInv'
<1>1. TasksFit'
  <2>1. \A x : TaskFits(x)' <=> TaskFits(x)  BY DEF TaskFits, EndsIn
  <2> QED  BY <2>1 DEF PlanInv, TasksFit
<1>2. Accounted'
  <2> SUFFICES ASSUME NEW t \in DOMAIN targets, Passed(t)'
               PROVE  HasTask(t)' \/ (OnAPath(t)' /\ ~PairedUnmapped(t)')
    BY DEF Accounted
  <2>1. (HasTask(t)' <=> HasTask(t)) /\ (OnAPath(t)' <=> OnAPath(t)) /\ (PairedUnmapped(t)' <=> PairedUnmapped(t))
    BY DEF HasTask, OnAPath, PairedUnmapped
  <2>2. targets # <<>>  OBVIOUS
  <2>3. Passed(t)  BY <2>2 DEF Passed, IsTerminal
  <2> QED  BY <2>1, <2>3 DEF PlanInv, Accounted
<1> QED  BY <1>1, <1>2 DEF PlanInv

(* A path is taken from the queue and dealt with.                          *)
LEMMA PopKeepsType == ASSUME PlanInv, Pop PROVE PlanInv'
<1> DEFINE path == Head(queue)
           after == Adjacency(Last(path))
           many == Min2(Len(after), MaxExpansions - spent)
<1>1. /\ phase = "search" /\ queue # <<>>
      /\ arcs' = arcs /\ targets' = targets /\ phase' = phase /\ place' = place /\ tasks' = tasks
      /\ \/ found' = Append(found, path) /\ queue' = Tail(queue) /\ spent' = spent
         \/ found' = found /\ queue' = Tail(queue) /\ spent' = spent
         \/ /\ found' = found /\ spent' = spent + many
            /\ queue' = Tail(queue) \o Extensions(path, SubSeq(after, 1, many))
  BY DEF Pop, Searching
<1>2. SearchType  BY DEF PlanInv
<1>3. queue \in Seq(NodePaths) /\ found \in Seq(NodePaths) /\ spent \in Nat /\ spent <= MaxExpansions
      /\ MaxExpansions \in Nat
  BY <1>2, SearchLimits DEF SearchType
<1>4. path \in NodePaths /\ Tail(queue) \in Seq(NodePaths)
  <2>1. Len(queue) \in Nat /\ 1 \in 1 .. Len(queue)  BY <1>1, <1>3, EmptySeq
  <2>2. Head(queue) = queue[1]  BY <1>3
  <2> QED  BY <1>1, <1>3, <2>1, <2>2, ElementOfSeq, HeadTailProperties
<1>5. Last(path) \in Node
  <2>1. path \in Seq(Node) /\ Len(path) \in Nat /\ Len(path) # 0  BY <1>4 DEF NodePaths
  <2>2. Len(path) \in 1 .. Len(path)  BY <2>1
  <2>3. path[Len(path)] \in Node  BY <2>1, <2>2, ElementOfSeq
  <2> QED  BY <2>3 DEF Last
<1>6. after \in Seq(Node) /\ Len(after) \in Nat
  <2>1. Adjacency(Last(path)) \in Seq(Successors(Last(path)))  BY <1>5, AdjacencyIs
  <2>2. Successors(Last(path)) \subseteq Node  BY DEF Successors
  <2>3. after \in Seq(Node)  BY <2>1, <2>2, SeqMonotone
  <2> QED  BY <2>3
<1> HIDE DEF path, after
<1>7. many \in Nat /\ many <= Len(after) /\ spent + many <= MaxExpansions  BY <1>3, <1>6 DEF Min2
<1> HIDE DEF many
<1>8. SubSeq(after, 1, many) \in Seq(Node)  BY <1>6, <1>7, SubSeqProperties
<1>9. Tail(queue) \o Extensions(path, SubSeq(after, 1, many)) \in Seq(NodePaths)
  <2>1. PICK part : part = SubSeq(after, 1, many)  OBVIOUS
  <2>2. part \in Seq(Node)  BY <1>8, <2>1
  <2>3. Extensions(path, part) \in Seq(NodePaths)  BY <1>4, <2>2, ExtensionsAre
  <2>4. PICK more : more = Extensions(path, part)  OBVIOUS
  <2>5. Tail(queue) \o more \in Seq(NodePaths)  BY <1>4, <2>3, <2>4, ConcatProperties
  <2> QED  BY <2>1, <2>4, <2>5
<1>10. queue' \in Seq(NodePaths) /\ spent' \in Nat /\ spent' <= MaxExpansions
  <2>1. queue' \in Seq(NodePaths)  BY <1>1, <1>4, <1>9, Zenon
  <2>2. spent' = spent \/ spent' = spent + many  BY <1>1, Zenon
  <2> QED  BY <1>3, <1>7, <2>1, <2>2
<1>11. found' \in Seq(NodePaths)
  <2>1. Append(found, path) \in Seq(NodePaths)  BY <1>3, <1>4, AppendProperties
  <2> QED  BY <1>1, <1>3, <2>1
<1>12. SearchType'  BY <1>1, <1>2, <1>10, <1>11 DEF SearchType
<1> QED  BY <1>1, <1>12, PlanStands

(* Every step of the planner keeps the plan.                               *)
LEMMA NextPlanKeeps == ASSUME PlanInv, NextPlan PROVE PlanInv'
<1>1. CASE Components
  <2>1. /\ phase' = phase /\ arcs' = arcs /\ targets' = targets /\ place' = place /\ tasks' = tasks
        /\ queue' = queue /\ found' = found /\ spent' = spent
    BY <1>1 DEF Components, search
  <2>2. SearchType'  BY <2>1 DEF PlanInv, SearchType
  <2> QED  BY <2>1, <2>2, PlanStands
<1>2. CASE BeginSearch
  <2>1. /\ phase' = IF targets = <<>> THEN "planned" ELSE "search"
        /\ arcs' = arcs /\ targets' = targets /\ place' = place /\ tasks' = tasks
        /\ queue' = <<<<Entry>>>> /\ found' = <<>> /\ spent' = 0 /\ phase = "components"
    BY <1>2 DEF BeginSearch, FreshSearch
  <2>2. SearchType  BY DEF PlanInv
  <2>3. <<<<Entry>>>> \in Seq(NodePaths) /\ <<>> \in Seq(NodePaths) /\ 0 <= MaxExpansions
    <3>1. <<Entry>> \in Seq(Node) /\ Len(<<Entry>>) = 1  BY SearchLimits DEF Entry, Node
    <3>2. <<Entry>> \in NodePaths  BY <3>1 DEF NodePaths
    <3>3. 0 <= MaxExpansions  BY SearchLimits
    <3> QED  BY <3>2, <3>3
  <2>4. phase' = "search" => place' <= 2 * Len(targets)
    <3> SUFFICES ASSUME targets # <<>> PROVE place <= 2 * Len(targets)  BY <2>1
    <3>1. targets \in Seq(TargetKind) /\ place = 1  BY <2>1, <2>2 DEF SearchType
    <3>2. Len(targets) \in Nat /\ Len(targets) # 0  BY <3>1, EmptySeq
    <3> QED  BY <3>1, <3>2
  <2>5. SearchType'  BY <2>1, <2>2, <2>3, <2>4 DEF SearchType
  <2> QED  BY <2>1, <2>5, PlanStands
<1>3. CASE Skip  BY <1>3, SkipKeeps
<1>4. CASE Pop  BY <1>4, PopKeepsType
<1>5. CASE AddTask  BY <1>5, AddTaskKeeps
<1> QED  BY <1>1, <1>2, <1>3, <1>4, <1>5 DEF NextPlan

(* Before the first step.                                                  *)
LEMMA PlanInit == PrepareInit => PlanInv
<1> SUFFICES ASSUME PrepareInit PROVE PlanInv  OBVIOUS
<1>1. /\ arcs \in SUBSET (Node \X Node) /\ targets \in TargetLists /\ phase = "components" /\ place = 1
      /\ queue = <<>> /\ found = <<>> /\ spent = 0 /\ tasks = <<>>
  BY DEF PrepareInit, InitPlan
<1>2. targets \in Seq(TargetKind) /\ \A t \in DOMAIN targets : IsFiniteSet(targets[t].needs)
  BY <1>1, TargetAssumption DEF TargetKind
<1>3. SearchType
  <2>1. <<>> \in Seq(NodePaths) /\ 0 <= MaxExpansions  BY SearchLimits
  <2> QED  BY <1>1, <1>2, <2>1 DEF SearchType
<1>4. TasksFit
  <2>1. tasks \in Seq({})  BY <1>1
  <2> QED  BY <2>1 DEF TasksFit
<1>5. Accounted
  <2>1. Len(targets) \in Nat /\ \A t \in DOMAIN targets : t \in Nat /\ t > 0  BY <1>2
  <2>2. \A t \in DOMAIN targets : ~Passed(t)  BY <1>1, <2>1 DEF Passed
  <2> QED  BY <2>2 DEF Accounted
<1> QED  BY <1>3, <1>4, <1>5 DEF PlanInv

(* The steps of the other parts leave the plan alone.                      *)
LEMMA PlanAlone ==
  ASSUME Deriving \/ GoalsWritten \/ Asking \/ PrepareRest \/ all' = all
  PROVE  planVars' = planVars
<1>1. CASE Deriving  BY <1>1 DEF Deriving
<1>2. CASE GoalsWritten  BY <1>2 DEF GoalsWritten
<1>3. CASE Asking  BY <1>3 DEF Asking
<1>4. CASE PrepareRest \/ all' = all  BY <1>4 DEF PrepareRest, all
<1> QED  BY <1>1, <1>2, <1>3, <1>4

(* Every step of the preparation keeps the invariant of the plan.          *)
LEMMA PrepareKeepsPlan == PlanInv /\ [PrepareNext]_all => PlanInv'
<1> SUFFICES ASSUME PlanInv, [PrepareNext]_all PROVE PlanInv'  OBVIOUS
<1>1. CASE Planning  BY <1>1, NextPlanKeeps DEF Planning
<1>2. CASE PlanWritten
  <2>1. /\ phase' = "over" /\ arcs' = {} /\ targets' = <<>> /\ place' = 1 /\ tasks' = <<>>
        /\ queue' = <<>> /\ found' = <<>> /\ spent' = 0
    BY <1>2 DEF PlanWritten
  <2>2. <<>> \in Seq(NodePaths) /\ 0 <= MaxExpansions /\ <<>> \in Seq(TargetKind) /\ DOMAIN <<>> = {}
    BY SearchLimits
  <2>3. SearchType'  BY <2>1, <2>2 DEF SearchType
  <2>4. TasksFit'
    <3>1. tasks' \in Seq({})  BY <2>1
    <3> QED  BY <3>1 DEF TasksFit
  <2>5. Accounted'  BY <2>1, <2>2 DEF Accounted
  <2> QED  BY <2>3, <2>4, <2>5 DEF PlanInv
<1>3. CASE planVars' = planVars
  <2>1. /\ phase' = phase /\ arcs' = arcs /\ targets' = targets /\ place' = place /\ tasks' = tasks
        /\ queue' = queue /\ found' = found /\ spent' = spent
    BY <1>3 DEF planVars, search
  <2>2. SearchType'  BY <2>1 DEF PlanInv, SearchType
  <2> QED  BY <2>1, <2>2, PlanStands
<1> QED  BY <1>1, <1>2, <1>3, PlanAlone DEF PrepareNext

(* So it always holds.                                                     *)
LEMMA PlanAlways == PrepareSpec => []PlanInv
  BY PlanInit, PrepareKeepsPlan, PTL DEF PrepareSpec

(* NoTargetForgotten follows: when the plan is done, every target's turn   *)
(* is over.                                                                *)
LEMMA NoneForgotten == PlanInv => NoTargetForgotten
<1> SUFFICES ASSUME PlanInv, phase = "planned", NEW t \in DOMAIN targets
             PROVE  /\ \E i \in DOMAIN tasks : tasks[i].target = t \/ \E p \in Range(tasks[i].paths) : t \in Range(p)
                    /\ PairedUnmapped(t) => \E i \in DOMAIN tasks : tasks[i].target = t
  BY DEF NoTargetForgotten
<1>1. Passed(t)  BY DEF Passed
<1>2. HasTask(t) \/ (OnAPath(t) /\ ~PairedUnmapped(t))  BY <1>1 DEF PlanInv, Accounted
<1> QED  BY <1>2 DEF HasTask, OnAPath

(***************************************************************************)
(* The paths of the search.                                                *)
(***************************************************************************)

(* A path from the entry along edges E, no node of which occurs twice.     *)
Strolls(E, p) ==
  /\ p \in Seq(Node) /\ Len(p) # 0 /\ p[1] = Entry
  /\ \A i, j \in 1 .. Len(p) : p[i] = p[j] => i = j
  /\ \A i \in 1 .. Len(p) - 1 : <<p[i], p[i + 1]>> \in E
(* Where it ends.                                                          *)
EndOf(p) == p[Len(p)]
(* The path q is the beginning of the path p.                              *)
Begins(q, p) == Len(q) <= Len(p) /\ \A i \in 1 .. Len(q) : q[i] = p[i]

(* The reference's paths are those.                                        *)
LEMMA SimpleIs ==
  ASSUME NEW m, NEW p
  PROVE  p \in SimplePaths(m) <=> Strolls(arcs, p) /\ EndOf(p) = m
<1>1. ASSUME p \in Seq(Node)
      PROVE  PathEdges(p) \subseteq arcs <=> \A i \in 1 .. Len(p) - 1 : <<p[i], p[i + 1]>> \in arcs
  BY DEF PathEdges
<1>2. ASSUME p \in SimplePaths(m) PROVE Strolls(arcs, p) /\ EndOf(p) = m
  <2>1. /\ p \in UNION {[1 .. k -> Node] : k \in 1 .. N} /\ p[1] = Entry /\ p[Len(p)] = m
        /\ \A i, j \in DOMAIN p : p[i] = p[j] => i = j
        /\ PathEdges(p) \subseteq arcs
    BY <1>2 DEF SimplePaths
  <2>2. PICK k \in 1 .. N : p \in [1 .. k -> Node]  BY <2>1
  <2>3. k \in Nat /\ k # 0  BY SearchLimits
  <2>4. p \in Seq(Node) /\ Len(p) = k  BY <2>2, <2>3, FunctionIsSeq
  <2>5. DOMAIN p = 1 .. Len(p)  BY <2>4
  <2> QED  BY <1>1, <2>1, <2>3, <2>4, <2>5 DEF Strolls, EndOf
<1>3. ASSUME Strolls(arcs, p), EndOf(p) = m PROVE p \in SimplePaths(m)
  <2>1. p \in Seq(Node) /\ Len(p) # 0  BY <1>3 DEF Strolls
  <2>2. PICK k : k = Len(p)  OBVIOUS
  <2>3. k \in Nat /\ DOMAIN p = 1 .. k /\ p \in [1 .. k -> Node]  BY <2>1, <2>2
  <2>4. \A i, j \in 1 .. k : p[i] = p[j] => i = j  BY <1>3, <2>2 DEF Strolls
  <2>5. p \in Injection(1 .. k, Node)  BY <2>3, <2>4 DEF Injection, IsInjective
  <2>6. N \in Nat /\ IsFiniteSet(Node) /\ Cardinality(Node) = N
    <3>1. N \in Nat /\ 1 \in Int /\ N \in Int  BY SearchLimits
    <3>2. IsFiniteSet(1 .. N) /\ Cardinality(1 .. N) = IF 1 > N THEN 0 ELSE N - 1 + 1  BY <3>1, FS_Interval
    <3> QED  BY <3>1, <3>2 DEF Node
  <2>7. Cardinality(1 .. k) = k
    <3>1. Cardinality(1 .. k) = IF 1 > k THEN 0 ELSE k - 1 + 1  BY <2>3, FS_Interval
    <3> QED  BY <2>3, <3>1
  <2>8. Cardinality(1 .. k) <= Cardinality(Node)  BY <2>5, <2>6, FS_Injection
  <2>9. k \in 1 .. N  BY <2>1, <2>2, <2>3, <2>6, <2>7, <2>8
  <2>10. p \in UNION {[1 .. n -> Node] : n \in 1 .. N}  BY <2>3, <2>9
  <2>11. PathEdges(p) \subseteq arcs  BY <1>1, <1>3, <2>1 DEF Strolls
  <2>12. p[1] = Entry /\ p[Len(p)] = m  BY <1>3 DEF Strolls, EndOf
  <2> QED  BY <2>3, <2>4, <2>10, <2>11, <2>12 DEF SimplePaths
<1> QED  BY <1>2, <1>3

(* The component of a node, among the components cs.                       *)
Home(cs, n) == CHOOSE c \in cs : n \in c

(* It is the only one that has the node.                                   *)
LEMMA HomeIs ==
  ASSUME NEW E, NEW cs, Parted(E, cs), NEW n \in Node
  PROVE  Home(cs, n) \in cs /\ n \in Home(cs, n) /\ \A d \in cs : n \in d => d = Home(cs, n)
<1>1. \E c \in cs : n \in c  BY DEF Parted
<1>2. Home(cs, n) \in cs /\ n \in Home(cs, n)  BY <1>1 DEF Home
<1> QED  BY <1>2 DEF Parted

(* Along a path the components only descend.                               *)
LEMMA HomesDescend ==
  ASSUME NEW E, NEW cs, Parted(E, cs), NEW ord, NEW k, Descending(E, cs, ord, k),
         NEW p, Strolls(E, p), NEW i \in 1 .. Len(p), NEW j \in 1 .. Len(p), i <= j
  PROVE  ord[Home(cs, p[j])] <= ord[Home(cs, p[i])]
<1> DEFINE o(x) == ord[Home(cs, p[x])]
           Good == {d \in Nat : i + d <= Len(p) => o(i + d) <= o(i)}
<1>1. p \in Seq(Node) /\ Len(p) \in Nat /\ \A x \in 1 .. Len(p) : p[x] \in Node
  BY ElementOfSeq DEF Strolls
<1>2. \A x \in 1 .. Len(p) : Home(cs, p[x]) \in cs /\ p[x] \in Home(cs, p[x])  BY <1>1, HomeIs
<1>3. \A x \in 1 .. Len(p) : o(x) \in Nat  BY <1>2 DEF Descending
<1>4. ASSUME NEW x \in 1 .. Len(p) - 1 PROVE o(x + 1) <= o(x)
  <2>1. x \in 1 .. Len(p) /\ x + 1 \in 1 .. Len(p)  BY <1>1
  <2>2. p[x + 1] \in Out(E, p[x])  BY <1>1, <2>1 DEF Strolls, Out
  <2>3. PICK d \in cs : p[x + 1] \in d /\ ord[d] <= ord[Home(cs, p[x])]
    BY <1>2, <2>1, <2>2 DEF Descending
  <2>4. d = Home(cs, p[x + 1])  BY <1>1, <2>1, <2>3, HomeIs
  <2> QED  BY <2>3, <2>4
<1> HIDE DEF o
<1>5. 0 \in Good
  <2>1. i + 0 = i /\ i \in 1 .. Len(p)  OBVIOUS
  <2>2. o(i) <= o(i)  BY <1>3
  <2> QED  BY <2>1, <2>2
<1>6. ASSUME NEW d \in Nat, d \in Good PROVE d + 1 \in Good
  <2> SUFFICES ASSUME i + (d + 1) <= Len(p) PROVE o(i + (d + 1)) <= o(i)  OBVIOUS
  <2>1. i + d \in 1 .. Len(p) - 1 /\ i + d <= Len(p) /\ (i + d) + 1 = i + (d + 1)  BY <1>1
  <2>2. i + d \in 1 .. Len(p) /\ i + (d + 1) \in 1 .. Len(p)  BY <1>1, <2>1
  <2>3. o((i + d) + 1) <= o(i + d)  BY <1>4, <2>1
  <2>4. o(i + d) <= o(i)  BY <1>6, <2>1
  <2>5. o(i + (d + 1)) <= o(i + d)  BY <2>1, <2>3
  <2> QED  BY <1>3, <2>2, <2>4, <2>5
<1>7. j - i \in Good
  <2>1. j - i \in Nat  OBVIOUS
  <2> HIDE DEF Good
  <2> QED  BY <1>5, <1>6, <2>1, SetInduction
<1>8. o(j) <= o(i)
  <2>1. i + (j - i) = j /\ j <= Len(p)  BY <1>1
  <2> QED  BY <1>7, <2>1
<1> QED  BY <1>8 DEF o

(* So the next node of such a path may always be added to its beginning.   *)
LEMMA NextIsAdmissible ==
  ASSUME Parted(arcs, comps), NEW p, Strolls(arcs, p), NEW q \in NodePaths, Begins(q, p), Len(q) < Len(p)
  PROVE  Admissible(q, p[Len(q) + 1])
<1>1. PICK n : n = Len(q)  OBVIOUS
<1>2. p \in Seq(Node) /\ Len(p) \in Nat /\ q \in Seq(Node) /\ n \in Nat /\ n # 0 /\ n < Len(p)
  BY <1>1 DEF Strolls, NodePaths
<1>3. n + 1 \in 1 .. Len(p) /\ n \in 1 .. Len(p) /\ \A i \in 1 .. n : i \in 1 .. Len(p) /\ i # n + 1 /\ i <= n
  BY <1>2
<1>4. \A i \in 1 .. n : q[i] = p[i]  BY <1>1 DEF Begins
<1>5. Range(q) = {p[i] : i \in 1 .. n}
  <2>1. DOMAIN q = 1 .. n  BY <1>1, <1>2
  <2> QED  BY <1>4, <2>1 DEF Range
<1>6. p[n + 1] \notin Range(q)
  <2>1. \A i \in 1 .. n : p[i] # p[n + 1]  BY <1>3 DEF Strolls
  <2> QED  BY <1>5, <2>1
<1>7. Last(q) = p[n]  BY <1>1, <1>2, <1>4 DEF Last
<1>8. PICK ord, k : Descending(arcs, comps, ord, k)  BY DEF Parted
<1>9. ASSUME NEW i \in 1 .. n, Home(comps, p[i]) = Home(comps, p[n + 1]) PROVE Home(comps, p[n]) = Home(comps, p[n + 1])
  <2>1. ord[Home(comps, p[n])] <= ord[Home(comps, p[i])]  BY <1>3, <1>8, HomesDescend
  <2>2. n <= n + 1  BY <1>2
  <2>3. ord[Home(comps, p[n + 1])] <= ord[Home(comps, p[n])]  BY <1>3, <1>8, <2>2, HomesDescend
  <2>4. p[n] \in Node /\ p[n + 1] \in Node  BY <1>2, <1>3, ElementOfSeq
  <2>5. Home(comps, p[n]) \in comps /\ Home(comps, p[n + 1]) \in comps  BY <2>4, HomeIs
  <2>6. PICK a, b : a = Home(comps, p[n]) /\ b = Home(comps, p[n + 1])  OBVIOUS
  <2>7. ord[a] \in Nat /\ ord[b] \in Nat  BY <1>8, <2>5, <2>6 DEF Descending
  <2>8. ord[a] = ord[b]  BY <1>9, <2>1, <2>3, <2>6, <2>7
  <2> QED  BY <1>8, <2>5, <2>6, <2>8 DEF Descending
<1>10. \A m : ComponentOf(m) = Home(comps, m)  BY DEF ComponentOf, Home
<1>11. ComponentOf(p[n + 1]) # ComponentOf(Last(q)) => \A m \in Range(q) : ComponentOf(m) # ComponentOf(p[n + 1])
  <2> SUFFICES ASSUME Home(comps, p[n + 1]) # Home(comps, p[n]), NEW m \in Range(q), Home(comps, m) = Home(comps, p[n + 1])
               PROVE  FALSE
    BY <1>7, <1>10
  <2>1. PICK i \in 1 .. n : m = p[i]  BY <1>5
  <2> QED  BY <1>9, <2>1
<1> QED  BY <1>1, <1>6, <1>11 DEF Admissible

(* The elements of a sequence are its head and those of its tail.          *)
LEMMA TailRange ==
  ASSUME NEW S, NEW q \in Seq(S), q # <<>>
  PROVE  Head(q) \in S /\ Tail(q) \in Seq(S) /\ Range(q) = {Head(q)} \cup Range(Tail(q))
<1>1. PICK t : t = Tail(q)  OBVIOUS
<1>2. /\ Head(q) = q[1] /\ t \in Seq(S) /\ Len(t) = Len(q) - 1 /\ Len(q) \in Nat /\ Len(q) # 0
      /\ \A i \in 1 .. Len(t) : t[i] = q[i + 1]
  BY <1>1, HeadTailProperties, EmptySeq
<1>3. DOMAIN q = 1 .. Len(q) /\ DOMAIN t = 1 .. Len(q) - 1  BY <1>2
<1>4. 1 \in 1 .. Len(q) /\ \A i \in 1 .. Len(q) - 1 : i + 1 \in 1 .. Len(q)  BY <1>2
<1>5. \A i \in 1 .. Len(q) : i = 1 \/ (i - 1 \in 1 .. Len(q) - 1 /\ (i - 1) + 1 = i)  BY <1>2
<1>6. Range(q) \subseteq {q[1]} \cup Range(t)
  <2> SUFFICES ASSUME NEW i \in 1 .. Len(q) PROVE q[i] \in {q[1]} \cup Range(t)  BY <1>3 DEF Range
  <2>1. CASE i = 1  BY <2>1
  <2>2. CASE i - 1 \in 1 .. Len(q) - 1 /\ (i - 1) + 1 = i
    <3>1. t[i - 1] = q[i]  BY <1>2, <2>2
    <3> QED  BY <1>3, <2>2, <3>1 DEF Range
  <2> QED  BY <1>5, <2>1, <2>2
<1>7. q[1] \in Range(q) /\ Range(t) \subseteq Range(q)  BY <1>2, <1>3, <1>4 DEF Range
<1>8. q[1] \in S  BY <1>2, <1>4, ElementOfSeq
<1> QED  BY <1>1, <1>2, <1>6, <1>7, <1>8

(* An element is added at the end.                                         *)
LEMMA AppendRange ==
  ASSUME NEW S, NEW q \in Seq(S), NEW x \in S
  PROVE  Range(Append(q, x)) = Range(q) \cup {x}
<1>1. PICK y : y = Append(q, x)  OBVIOUS
<1>2. /\ y \in Seq(S) /\ Len(y) = Len(q) + 1 /\ Len(q) \in Nat
      /\ \A i \in 1 .. Len(q) : y[i] = q[i]
      /\ y[Len(q) + 1] = x
  BY <1>1, AppendProperties
<1>3. DOMAIN q = 1 .. Len(q) /\ DOMAIN y = 1 .. Len(q) + 1  BY <1>2
<1>4. \A i \in 1 .. Len(q) + 1 : i \in 1 .. Len(q) \/ i = Len(q) + 1  BY <1>2
<1>5. Len(q) + 1 \in 1 .. Len(q) + 1 /\ \A i \in 1 .. Len(q) : i \in 1 .. Len(q) + 1  BY <1>2
<1>6. Range(y) \subseteq Range(q) \cup {x}  BY <1>2, <1>3, <1>4 DEF Range
<1>7. Range(q) \subseteq Range(y) /\ x \in Range(y)  BY <1>2, <1>3, <1>5 DEF Range
<1> QED  BY <1>1, <1>6, <1>7

(* Two sequences are joined.                                               *)
LEMMA ConcatRange ==
  ASSUME NEW S, NEW a \in Seq(S), NEW b \in Seq(S)
  PROVE  Range(a \o b) = Range(a) \cup Range(b)
<1>1. PICK y : y = a \o b  OBVIOUS
<1>2. /\ y \in Seq(S) /\ Len(y) = Len(a) + Len(b) /\ Len(a) \in Nat /\ Len(b) \in Nat
      /\ \A i \in 1 .. Len(a) + Len(b) : y[i] = IF i <= Len(a) THEN a[i] ELSE b[i - Len(a)]
  BY <1>1, ConcatProperties
<1>3. DOMAIN a = 1 .. Len(a) /\ DOMAIN b = 1 .. Len(b) /\ DOMAIN y = 1 .. Len(a) + Len(b)  BY <1>2
<1>4. \A i \in 1 .. Len(a) + Len(b) : i \in 1 .. Len(a) \/ (~(i <= Len(a)) /\ i - Len(a) \in 1 .. Len(b))  BY <1>2
<1>5. Range(y) \subseteq Range(a) \cup Range(b)
  <2> SUFFICES ASSUME NEW i \in 1 .. Len(a) + Len(b) PROVE y[i] \in Range(a) \cup Range(b)  BY <1>3 DEF Range
  <2>1. CASE i <= Len(a)
    <3>1. y[i] = a[i] /\ i \in 1 .. Len(a)  BY <1>2, <2>1
    <3> QED  BY <1>3, <3>1 DEF Range
  <2>2. CASE ~(i <= Len(a))
    <3>1. y[i] = b[i - Len(a)] /\ i - Len(a) \in 1 .. Len(b)  BY <1>2, <2>2
    <3> QED  BY <1>3, <3>1 DEF Range
  <2> QED  BY <2>1, <2>2
<1>6. Range(a) \subseteq Range(y)
  <2> SUFFICES ASSUME NEW i \in 1 .. Len(a) PROVE a[i] \in Range(y)  BY <1>3 DEF Range
  <2>1. i \in 1 .. Len(a) + Len(b) /\ i <= Len(a)  BY <1>2
  <2>2. y[i] = a[i]  BY <1>2, <2>1
  <2> QED  BY <1>3, <2>1, <2>2 DEF Range
<1>7. Range(b) \subseteq Range(y)
  <2> SUFFICES ASSUME NEW i \in 1 .. Len(b) PROVE b[i] \in Range(y)  BY <1>3 DEF Range
  <2>1. Len(a) + i \in 1 .. Len(a) + Len(b) /\ ~(Len(a) + i <= Len(a)) /\ (Len(a) + i) - Len(a) = i  BY <1>2
  <2>2. y[Len(a) + i] = b[i]  BY <1>2, <2>1
  <2> QED  BY <1>3, <2>1, <2>2 DEF Range
<1> QED  BY <1>1, <1>5, <1>6, <1>7

(***************************************************************************)
(* What is kept by the search for the paths to a node m, with the prefixes *)
(* Q to extend, the paths F found and the reasons c to stop early: unless  *)
(* there is one, every path is found or has a prefix that waits.           *)
(***************************************************************************)
Covers(E, Q, F, m) ==
  \A p : Strolls(E, p) /\ EndOf(p) = m => p \in F \/ \E b \in Q : Begins(b, p)

(* The search as a whole: what waits is a path of the graph, what was      *)
(* found is one to the node.                                               *)
Searched(E, Q, F, c, m) ==
  /\ \A p \in Q : Strolls(E, p)
  /\ \A p \in F : Strolls(E, p) /\ EndOf(p) = m
  /\ c = {} => Covers(E, Q, F, m)

(* A search starts with the path that is the entry alone.                  *)
LEMMA FreshIs ==
  ASSUME NEW E, NEW m
  PROVE  Searched(E, {<<Entry>>}, {}, {}, m)
<1>1. PICK e : e = <<Entry>>  OBVIOUS
<1>2. e \in Seq(Node) /\ Len(e) = 1 /\ e[1] = Entry  BY <1>1, SearchLimits DEF Entry, Node
<1>3. Strolls(E, e)
  <2>1. \A i, j \in 1 .. 1 : i = j  OBVIOUS
  <2>2. \A i \in 1 .. 1 - 1 : FALSE  OBVIOUS
  <2> QED  BY <1>2, <2>1, <2>2 DEF Strolls
<1>4. ASSUME NEW p, Strolls(E, p) PROVE Begins(e, p)
  <2>1. p \in Seq(Node) /\ Len(p) # 0 /\ p[1] = Entry  BY <1>4 DEF Strolls
  <2>2. 1 <= Len(p) /\ \A i \in 1 .. 1 : i = 1  BY <2>1
  <2> QED  BY <1>2, <2>1, <2>2 DEF Begins
<1> QED  BY <1>1, <1>3, <1>4 DEF Searched, Covers

(* A path that has got to the node is the whole of each it begins.         *)
LEMMA ArrivedIs ==
  ASSUME NEW E, NEW p, Strolls(E, p), NEW q, Strolls(E, q), Begins(q, p)
  PROVE  /\ EndOf(q) = EndOf(p) => q = p
         /\ EndOf(q) # EndOf(p) => Len(q) < Len(p)
<1>1. p \in Seq(Node) /\ q \in Seq(Node) /\ Len(q) # 0 /\ Len(q) \in Nat /\ Len(p) \in Nat /\ Len(q) <= Len(p)
  BY DEF Strolls, Begins
<1>2. Len(q) \in 1 .. Len(q) /\ Len(q) \in 1 .. Len(p) /\ Len(p) \in 1 .. Len(p)  BY <1>1
<1>3. EndOf(q) = p[Len(q)] /\ EndOf(p) = p[Len(p)]  BY <1>2 DEF EndOf, Begins
<1>4. EndOf(q) = EndOf(p) => Len(q) = Len(p)  BY <1>2, <1>3 DEF Strolls
<1>5. Len(q) = Len(p) => EndOf(q) = EndOf(p)  BY <1>3
<1>6. ASSUME Len(q) = Len(p) PROVE q = p
  <2>1. \A i \in 1 .. Len(q) : q[i] = p[i]  BY DEF Begins
  <2> QED  BY <1>1, <1>6, <2>1, SeqEqual
<1> QED  BY <1>1, <1>4, <1>5, <1>6

(* A path that has got to the node is found.                               *)
LEMMA FoundKeeps ==
  ASSUME NEW E, NEW Q, NEW F, NEW c, NEW m, NEW path, NEW R, Q = {path} \cup R,
         Searched(E, Q, F, c, m), EndOf(path) = m
  PROVE  Searched(E, R, F \cup {path}, c, m)
<1>1. Strolls(E, path)  BY DEF Searched
<1>2. ASSUME c = {}, NEW p, Strolls(E, p), EndOf(p) = m PROVE p \in F \cup {path} \/ \E b \in R : Begins(b, p)
  <2>1. p \in F \/ \E b \in Q : Begins(b, p)  BY <1>2 DEF Searched, Covers
  <2>2. Begins(path, p) => path = p  BY <1>1, <1>2, ArrivedIs
  <2> QED  BY <2>1, <2>2
<1>3. c = {} => Covers(E, R, F \cup {path}, m)  BY <1>2 DEF Covers
<1> QED  BY <1>1, <1>3 DEF Searched

(* The next node of a path that a prefix begins is listed among its        *)
(* successors.                                                             *)
LEMMA NextIsListed ==
  ASSUME NEW p, Strolls(arcs, p), NEW q, Strolls(arcs, q), Begins(q, p), Len(q) < Len(p)
  PROVE  /\ Last(q) \in Node /\ p[Len(q) + 1] \in Node
         /\ \E i \in 1 .. Len(Adjacency(Last(q))) : Adjacency(Last(q))[i] = p[Len(q) + 1]
<1>1. PICK n : n = Len(q)  OBVIOUS
<1>2. p \in Seq(Node) /\ q \in Seq(Node) /\ n \in Nat /\ n # 0 /\ Len(p) \in Nat /\ n < Len(p)  BY <1>1 DEF Strolls
<1>3. n \in 1 .. n /\ n \in 1 .. Len(p) - 1 /\ n \in 1 .. Len(p) /\ n + 1 \in 1 .. Len(p)  BY <1>2
<1>4. Last(q) = p[n]  BY <1>1, <1>3 DEF Last, Begins
<1>5. p[n] \in Node /\ p[n + 1] \in Node  BY <1>2, <1>3, ElementOfSeq
<1>6. <<p[n], p[n + 1]>> \in arcs  BY <1>3 DEF Strolls
<1>7. p[n + 1] \in Successors(Last(q))  BY <1>4, <1>5, <1>6 DEF Successors
<1> QED  BY <1>1, <1>4, <1>5, <1>7, AdjacencyIs

(* A path that is too long is dropped; when that loses anything, it is     *)
(* said.                                                                   *)
LEMMA DropKeeps ==
  ASSUME NEW Q, NEW F, NEW c, NEW c2, NEW m, NEW path, NEW R, Q = {path} \cup R,
         Searched(arcs, Q, F, c, m), EndOf(path) # m,
         c2 = {} => c = {} /\ Range(Adjacency(Last(path))) \subseteq Range(path)
  PROVE  Searched(arcs, R, F, c2, m)
<1>1. Strolls(arcs, path)  BY DEF Searched
<1>2. ASSUME c2 = {}, NEW p, Strolls(arcs, p), EndOf(p) = m PROVE p \in F \/ \E b \in R : Begins(b, p)
  <2>1. p \in F \/ \E b \in Q : Begins(b, p)  BY <1>2 DEF Searched, Covers
  <2>2. ASSUME Begins(path, p) PROVE FALSE
    <3>1. Len(path) < Len(p)  BY <1>1, <1>2, <2>2, ArrivedIs
    <3>2. PICK n, x, adj : n = Len(path) /\ x = p[n + 1] /\ adj = Adjacency(Last(path))  OBVIOUS
    <3>3. Last(path) \in Node /\ \E i \in 1 .. Len(adj) : adj[i] = x  BY <1>1, <1>2, <2>2, <3>1, <3>2, NextIsListed
    <3>4. adj \in Seq(Successors(Last(path)))  BY <3>2, <3>3, AdjacencyIs
    <3>5. x \in Range(adj)
      <4>1. DOMAIN adj = 1 .. Len(adj)  BY <3>4
      <4> QED  BY <3>3, <4>1 DEF Range
    <3>6. x \in Range(path)  BY <1>2, <3>2, <3>5
    <3>7. path \in Seq(Node) /\ n \in Nat /\ p \in Seq(Node) /\ Len(p) \in Nat  BY <1>1, <1>2, <3>2 DEF Strolls
    <3>8. DOMAIN path = 1 .. n  BY <3>2, <3>7
    <3>9. PICK i \in 1 .. n : path[i] = x  BY <3>6, <3>8 DEF Range
    <3>10. i \in 1 .. Len(p) /\ n + 1 \in 1 .. Len(p) /\ i # n + 1  BY <3>1, <3>2, <3>7
    <3>11. p[i] = p[n + 1]  BY <2>2, <3>2, <3>9 DEF Begins
    <3> QED  BY <1>2, <3>10, <3>11 DEF Strolls
  <2> QED  BY <2>1, <2>2
<1>3. c2 = {} => Covers(arcs, R, F, m)  BY <1>2 DEF Covers
<1> QED  BY <1>3 DEF Searched

(* A path is one longer.                                                   *)
LEMMA LongerStrolls ==
  ASSUME NEW q, Strolls(arcs, q), NEW x \in Successors(Last(q)), Admissible(q, x)
  PROVE  Strolls(arcs, Append(q, x))
<1>1. PICK n, y : n = Len(q) /\ y = Append(q, x)  OBVIOUS
<1>2. q \in Seq(Node) /\ n \in Nat /\ n # 0 /\ x \in Node  BY <1>1 DEF Strolls, Successors
<1>3. /\ y \in Seq(Node) /\ Len(y) = n + 1 /\ y[n + 1] = x
      /\ \A i \in 1 .. n : y[i] = q[i]
  BY <1>1, <1>2, AppendProperties
<1>4. \A i \in 1 .. n + 1 : i \in 1 .. n \/ i = n + 1  BY <1>2
<1>5. \A i \in 1 .. n : q[i] # x
  <2>1. x \notin Range(q) /\ DOMAIN q = 1 .. n  BY <1>1, <1>2 DEF Admissible
  <2> QED  BY <2>1 DEF Range
<1>6. \A i, j \in 1 .. n + 1 : y[i] = y[j] => i = j
  <2>1. \A i, j \in 1 .. n : q[i] = q[j] => i = j  BY <1>1 DEF Strolls
  <2> SUFFICES ASSUME NEW i \in 1 .. n + 1, NEW j \in 1 .. n + 1, y[i] = y[j] PROVE i = j  OBVIOUS
  <2> QED  BY <1>3, <1>4, <1>5, <2>1
<1>7. ASSUME NEW i \in 1 .. n PROVE <<y[i], y[i + 1]>> \in arcs
  <2>1. CASE i = n
    <3>1. Last(q) = q[n]  BY <1>1 DEF Last
    <3>2. y[i] = Last(q) /\ y[i + 1] = x  BY <1>3, <2>1, <3>1
    <3> QED  BY <3>2 DEF Successors
  <2>2. CASE i # n
    <3>1. i \in 1 .. n - 1 /\ i + 1 \in 1 .. n  BY <1>2, <2>2
    <3>2. <<q[i], q[i + 1]>> \in arcs  BY <1>1, <3>1 DEF Strolls
    <3> QED  BY <1>3, <3>1, <3>2
  <2> QED  BY <2>1, <2>2
<1>8. (n + 1) - 1 = n /\ n + 1 # 0 /\ 1 \in 1 .. n  BY <1>2
<1>9. y[1] = Entry  BY <1>3, <1>8 DEF Strolls
<1>10. Strolls(arcs, y)  BY <1>3, <1>6, <1>7, <1>8, <1>9 DEF Strolls
<1> QED  BY <1>1, <1>10

(* A path is extended by the successors that were seen; unless they are    *)
(* all, it is said.                                                        *)
LEMMA ExtendKeeps ==
  ASSUME Parted(arcs, comps), NEW Q, NEW F, NEW c, NEW c2, NEW m, NEW path, NEW R, Q = {path} \cup R,
         Searched(arcs, Q, F, c, m), EndOf(path) # m, NEW after, after = Adjacency(Last(path)),
         NEW part, part \in Seq(Node),
         \A i \in DOMAIN part : i \in DOMAIN after /\ part[i] = after[i],
         c2 = {} => c = {} /\ DOMAIN part = DOMAIN after
  PROVE  Searched(arcs, R \cup Range(Extensions(path, part)), F, c2, m)
<1>1. Strolls(arcs, path)  BY DEF Searched
<1>2. path \in NodePaths  BY <1>1 DEF Strolls, NodePaths
<1>3. PICK ext : ext = Extensions(path, part)  OBVIOUS
<1>4. /\ ext \in Seq(NodePaths)
      /\ \A k \in DOMAIN ext : \E i \in DOMAIN part : Admissible(path, part[i]) /\ ext[k] = Append(path, part[i])
      /\ \A i \in DOMAIN part : Admissible(path, part[i]) => \E k \in DOMAIN ext : ext[k] = Append(path, part[i])
  BY <1>2, <1>3, ExtensionsAre
<1>5. Last(path) \in Node
  <2>1. path \in Seq(Node) /\ Len(path) \in 1 .. Len(path)  BY <1>2 DEF NodePaths
  <2> QED  BY <2>1, ElementOfSeq DEF Last
<1>6. after \in Seq(Successors(Last(path)))  BY <1>5, AdjacencyIs
<1>7. \A i \in DOMAIN after : after[i] \in Successors(Last(path))  BY <1>6, ElementOfSeq
<1>8. ASSUME NEW p \in Range(ext) PROVE Strolls(arcs, p)
  <2>1. PICK k \in DOMAIN ext : p = ext[k]  BY DEF Range
  <2>2. PICK i \in DOMAIN part : Admissible(path, part[i]) /\ ext[k] = Append(path, part[i])  BY <1>4
  <2>3. part[i] \in Successors(Last(path))  BY <1>7
  <2> QED  BY <1>1, <2>1, <2>2, <2>3, LongerStrolls
<1>9. ASSUME c2 = {}, NEW p, Strolls(arcs, p), EndOf(p) = m
      PROVE  p \in F \/ \E b \in R \cup Range(ext) : Begins(b, p)
  <2>1. p \in F \/ \E b \in Q : Begins(b, p)  BY <1>9 DEF Searched, Covers
  <2>2. ASSUME Begins(path, p) PROVE \E b \in Range(ext) : Begins(b, p)
    <3>1. Len(path) < Len(p)  BY <1>1, <1>9, <2>2, ArrivedIs
    <3>2. PICK n, x : n = Len(path) /\ x = p[n + 1]  OBVIOUS
    <3>3. x \in Node /\ \E i \in 1 .. Len(after) : after[i] = x  BY <1>1, <1>9, <2>2, <3>1, <3>2, NextIsListed
    <3>4. DOMAIN after = 1 .. Len(after)  BY <1>6
    <3>5. PICK i \in DOMAIN part : part[i] = x  BY <1>9, <3>3, <3>4
    <3>6. Admissible(path, x)  BY <1>2, <1>9, <2>2, <3>1, <3>2, NextIsAdmissible
    <3>7. PICK k \in DOMAIN ext : ext[k] = Append(path, x)  BY <1>4, <3>5, <3>6
    <3>8. PICK y : y = Append(path, x)  OBVIOUS
    <3>9. path \in Seq(Node) /\ n \in Nat /\ p \in Seq(Node) /\ Len(p) \in Nat  BY <1>1, <1>9, <3>2 DEF Strolls
    <3>10. Len(y) = n + 1 /\ y[n + 1] = x /\ \A j \in 1 .. n : y[j] = path[j]
      BY <3>2, <3>3, <3>8, <3>9, AppendProperties
    <3>11. n + 1 <= Len(p) /\ \A j \in 1 .. n + 1 : j \in 1 .. n \/ j = n + 1  BY <3>1, <3>2, <3>9
    <3>12. \A j \in 1 .. n : path[j] = p[j]  BY <2>2, <3>2 DEF Begins
    <3>13. Begins(y, p)  BY <3>2, <3>10, <3>11, <3>12 DEF Begins
    <3> QED  BY <3>7, <3>8, <3>13 DEF Range
  <2> QED  BY <2>1, <2>2
<1>10. c2 = {} => Covers(arcs, R \cup Range(ext), F, m)  BY <1>9 DEF Covers
<1>11. \A p \in R \cup Range(ext) : Strolls(arcs, p)  BY <1>8 DEF Searched
<1>12. \A p \in F : Strolls(arcs, p) /\ EndOf(p) = m  BY DEF Searched
<1> QED  BY <1>3, <1>10, <1>11, <1>12 DEF Searched

(* What is kept while the paths are searched: a target that is not wanted  *)
(* is not searched for.                                                    *)
SearchGoes ==
  /\ Parted(arcs, comps)
  /\ Searched(arcs, Range(queue), Range(found), cut, targets[Current].node)
  /\ ~Wanted(Current) => queue = <<<<Entry>>>> /\ found = <<>> /\ cut = {}
(* What is kept for SearchIsHonest.                                        *)
HonestInv ==
  /\ phase = "components" => TarjanInv
  /\ phase = "search" => SearchGoes
  /\ SearchIsHonest

(* A search that begins.                                                   *)
LEMMA FreshGoes ==
  ASSUME NEW E, NEW m
  PROVE  Searched(E, Range(<<<<Entry>>>>), Range(<<>>), {}, m)
<1>1. PICK e, q : e = <<Entry>> /\ q = <<e>>  OBVIOUS
<1>2. DOMAIN q = {1} /\ q[1] = e  BY <1>1
<1>3. Range(q) = {e}  BY <1>2 DEF Range
<1>4. Range(<<<<Entry>>>>) = {<<Entry>>}  BY <1>1, <1>3
<1>5. Range(<<>>) = {}
  <2>1. DOMAIN <<>> = {}  OBVIOUS
  <2> QED  BY <2>1 DEF Range
<1> QED  BY <1>4, <1>5, FreshIs

(* Finding the components.                                                 *)
LEMMA ComponentsKeep == ASSUME HonestInv, Components PROVE HonestInv'
<1>1. /\ phase = "components" /\ phase' = phase /\ arcs' = arcs /\ targets' = targets /\ tasks' = tasks
      /\ VisitNext \/ Examine \/ Return
  BY DEF Components
<1>2. TarjanInv  BY <1>1 DEF HonestInv
<1>3. TarjanInv'  BY <1>1, <1>2, VisitKeeps, ExamineKeeps, ReturnStep
<1>4. SearchIsHonest'
  <2>1. \A m : SimplePaths(m)' = SimplePaths(m)  BY <1>1 DEF SimplePaths, PathEdges
  <2> QED  BY <1>1, <2>1 DEF HonestInv, SearchIsHonest
<1> QED  BY <1>1, <1>3, <1>4 DEF HonestInv

(* The first search begins when they are found.                            *)
LEMMA BeginKeeps == ASSUME HonestInv, BeginSearch PROVE HonestInv'
<1>1. /\ phase = "components" /\ calls = <<>> /\ \A n \in Node : index[n] > 0
      /\ phase' = IF targets = <<>> THEN "planned" ELSE "search"
      /\ queue' = <<<<Entry>>>> /\ found' = <<>> /\ cut' = {}
      /\ arcs' = arcs /\ targets' = targets /\ tasks' = tasks /\ comps' = comps
  BY DEF BeginSearch, FreshSearch, tarjan
<1>2. Parted(arcs, comps)  BY <1>1, AllVisited DEF HonestInv
<1>3. Parted(arcs, comps)'
  <2>1. PICK E, cs : E = arcs /\ cs = comps  OBVIOUS
  <2>2. E = arcs' /\ cs = comps'  BY <1>1, <2>1
  <2> QED  BY <1>2, <2>1, <2>2
<1>4. SearchGoes'
  <2>1. queue' = <<<<Entry>>>> /\ found' = <<>> /\ cut' = {}  BY <1>1, <1>2
  <2>2. PICK E, m : E = arcs' /\ m = targets'[Current'].node  OBVIOUS
  <2>3. Searched(E, Range(<<<<Entry>>>>), Range(<<>>), {}, m)  BY FreshGoes
  <2>4. Searched(arcs', Range(queue'), Range(found'), cut', targets'[Current'].node)  BY <2>1, <2>2, <2>3
  <2> QED  BY <1>3, <2>1, <2>4 DEF SearchGoes
<1>5. SearchIsHonest'
  <2>1. \A m : SimplePaths(m)' = SimplePaths(m)  BY <1>1 DEF SimplePaths, PathEdges
  <2> QED  BY <1>1, <2>1 DEF HonestInv, SearchIsHonest
<1> QED  BY <1>1, <1>4, <1>5 DEF HonestInv

(* A target that is not wanted leaves the search as it was begun.          *)
LEMMA SkipGoes == ASSUME HonestInv, Skip PROVE HonestInv'
<1>1. /\ phase = "search" /\ ~Wanted(Current)
      /\ phase' = "planned" \/ phase' = phase
      /\ arcs' = arcs /\ targets' = targets /\ tasks' = tasks /\ comps' = comps
      /\ queue' = queue /\ found' = found /\ cut' = cut
  BY DEF Skip, search, tarjan
<1>2. queue = <<<<Entry>>>> /\ found = <<>> /\ cut = {} /\ Parted(arcs, comps)  BY <1>1 DEF HonestInv, SearchGoes
<1>3. Parted(arcs, comps)'
  <2>1. PICK E, cs : E = arcs /\ cs = comps  OBVIOUS
  <2>2. E = arcs' /\ cs = comps'  BY <1>1, <2>1
  <2> QED  BY <1>2, <2>1, <2>2
<1>4. SearchGoes'
  <2>1. queue' = <<<<Entry>>>> /\ found' = <<>> /\ cut' = {}  BY <1>1, <1>2
  <2>2. PICK E, m : E = arcs' /\ m = targets'[Current'].node  OBVIOUS
  <2>3. Searched(E, Range(<<<<Entry>>>>), Range(<<>>), {}, m)  BY FreshGoes
  <2>4. Searched(arcs', Range(queue'), Range(found'), cut', targets'[Current'].node)  BY <2>1, <2>2, <2>3
  <2> QED  BY <1>3, <2>1, <2>4 DEF SearchGoes
<1>5. SearchIsHonest'
  <2>1. \A m : SimplePaths(m)' = SimplePaths(m)  BY <1>1 DEF SimplePaths, PathEdges
  <2> QED  BY <1>1, <2>1 DEF HonestInv, SearchIsHonest
<1> QED  BY <1>1, <1>4, <1>5 DEF HonestInv

(* A path is taken from the queue.                                         *)
LEMMA PopGoes == ASSUME PlanInv, HonestInv, Pop PROVE HonestInv'
<1> DEFINE path == Head(queue)
           after == Adjacency(Last(path))
           many == Min2(Len(after), MaxExpansions - spent)
           node == targets[Current].node
<1>1. /\ phase = "search" /\ queue # <<>> /\ Wanted(Current)
      /\ arcs' = arcs /\ targets' = targets /\ phase' = phase /\ place' = place /\ tasks' = tasks /\ comps' = comps
  BY DEF Pop, Searching, tarjan
<1>2. \/ /\ Last(path) = node /\ found' = Append(found, path) /\ queue' = Tail(queue) /\ cut' = cut
      \/ /\ Last(path) # node /\ found' = found /\ queue' = Tail(queue)
         /\ cut' = IF Range(after) \subseteq Range(path) THEN cut ELSE cut \cup {"node_limit"}
      \/ /\ Last(path) # node /\ found' = found
         /\ queue' = Tail(queue) \o Extensions(path, SubSeq(after, 1, many))
         /\ cut' = IF many < Len(after) THEN cut \cup {"expansion_budget"} ELSE cut
  BY DEF Pop
<1>3. SearchType  BY DEF PlanInv
<1>4. queue \in Seq(NodePaths) /\ found \in Seq(NodePaths) /\ spent \in Nat /\ spent <= MaxExpansions
      /\ MaxExpansions \in Nat
  BY <1>3, SearchLimits DEF SearchType
<1>5. Parted(arcs, comps) /\ Searched(arcs, Range(queue), Range(found), cut, node)  BY <1>1 DEF HonestInv, SearchGoes
<1>6. PICK R : R = Range(Tail(queue))  OBVIOUS
<1>7. path \in NodePaths /\ Tail(queue) \in Seq(NodePaths) /\ Range(queue) = {path} \cup R
  BY <1>1, <1>4, <1>6, TailRange
<1>8. Last(path) = EndOf(path)  BY DEF Last, EndOf
<1>9. Last(path) \in Node
  <2>1. path \in Seq(Node) /\ Len(path) \in 1 .. Len(path)  BY <1>7 DEF NodePaths
  <2> QED  BY <2>1, ElementOfSeq DEF Last
<1>10. after \in Seq(Node) /\ Len(after) \in Nat /\ DOMAIN after = 1 .. Len(after)
  <2>1. Adjacency(Last(path)) \in Seq(Successors(Last(path)))  BY <1>9, AdjacencyIs
  <2>2. Successors(Last(path)) \subseteq Node  BY DEF Successors
  <2>3. after \in Seq(Node)  BY <2>1, <2>2, SeqMonotone
  <2> QED  BY <2>3
<1> HIDE DEF path, after
<1>11. many \in Nat /\ many <= Len(after)  BY <1>4, <1>10 DEF Min2
<1> HIDE DEF many, node
<1>12. Searched(arcs, Range(queue'), Range(found'), cut', node)
  <2>1. CASE Last(path) = node /\ found' = Append(found, path) /\ queue' = Tail(queue) /\ cut' = cut
    <3>1. Range(found') = Range(found) \cup {path}  BY <1>4, <1>7, <2>1, AppendRange
    <3>2. Searched(arcs, R, Range(found) \cup {path}, cut, node)  BY <1>5, <1>7, <1>8, <2>1, FoundKeeps
    <3> QED  BY <1>6, <2>1, <3>1, <3>2
  <2>2. CASE /\ Last(path) # node /\ found' = found /\ queue' = Tail(queue)
             /\ cut' = IF Range(after) \subseteq Range(path) THEN cut ELSE cut \cup {"node_limit"}
    <3>1. cut' = {} => cut = {} /\ Range(after) \subseteq Range(path)  BY <2>2
    <3>2. PICK c2 : c2 = cut'  OBVIOUS
    <3>3. Searched(arcs, R, Range(found), c2, node)  BY <1>5, <1>7, <1>8, <2>2, <3>1, <3>2, DropKeeps DEF after
    <3> QED  BY <1>6, <2>2, <3>2, <3>3
  <2>3. CASE /\ Last(path) # node /\ found' = found
             /\ queue' = Tail(queue) \o Extensions(path, SubSeq(after, 1, many))
             /\ cut' = IF many < Len(after) THEN cut \cup {"expansion_budget"} ELSE cut
    <3>1. PICK part, ext, c2 : part = SubSeq(after, 1, many) /\ ext = Extensions(path, part) /\ c2 = cut'  OBVIOUS
    <3>2. part \in Seq(Node) /\ DOMAIN part = 1 .. many /\ \A i \in 1 .. many : part[i] = after[i]
      <4>1. \A i \in 1 .. many : i \in 1 .. Len(after)  BY <1>10, <1>11
      <4>2. \A i \in 1 .. many : after[i] \in Node  BY <4>1, <1>10, ElementOfSeq
      <4>3. 1 \in Int /\ many \in Int /\ many - 1 + 1 = many /\ \A i \in 1 .. many : 1 + i - 1 = i  BY <1>11
      <4>4. /\ SubSeq(after, 1, many) \in Seq(Node)
            /\ Len(SubSeq(after, 1, many)) = IF 1 <= many THEN many - 1 + 1 ELSE 0
            /\ \A i \in 1 .. many - 1 + 1 : SubSeq(after, 1, many)[i] = after[1 + i - 1]
        BY <4>2, <4>3, SubSeqProperties
      <4>5. part \in Seq(Node) /\ Len(part) = many  BY <1>11, <3>1, <4>3, <4>4
      <4>6. DOMAIN part = 1 .. many  BY <4>5
      <4> QED  BY <3>1, <4>3, <4>4, <4>5, <4>6
    <3>3. c2 = {} => cut = {} /\ many = Len(after)
      <4>1. c2 = {} => cut = {} /\ ~(many < Len(after))  BY <2>3, <3>1
      <4>2. PICK n : n = Len(after)  OBVIOUS
      <4>3. many \in Nat /\ n \in Nat /\ many <= n  BY <1>10, <1>11, <4>2
      <4>4. ~(many < n) => many = n  BY <4>3
      <4> QED  BY <4>1, <4>2, <4>4
    <3>4. c2 = {} => cut = {} /\ DOMAIN part = DOMAIN after  BY <1>10, <3>2, <3>3
    <3>5. \A i \in DOMAIN part : i \in DOMAIN after /\ part[i] = after[i]  BY <1>10, <1>11, <3>2
    <3>6. Searched(arcs, R \cup Range(Extensions(path, part)), Range(found), c2, node)
      <4>1. after = Adjacency(Last(path))  BY DEF after
      <4> QED  BY <1>5, <1>7, <1>8, <2>3, <3>2, <3>4, <3>5, <4>1, ExtendKeeps
    <3>7. ext \in Seq(NodePaths)  BY <1>7, <3>1, <3>2, ExtensionsAre
    <3>8. PICK rest : rest = Tail(queue)  OBVIOUS
    <3>9. queue' = rest \o ext  BY <2>3, <3>1, <3>8
    <3>10. Range(queue') = R \cup Range(ext)
      <4>1. rest \in Seq(NodePaths) /\ R = Range(rest)  BY <1>6, <1>7, <3>8
      <4>2. Range(rest \o ext) = Range(rest) \cup Range(ext)  BY <4>1, <3>7, ConcatRange
      <4> QED  BY <4>1, <4>2, <3>9
    <3> QED  BY <2>3, <3>1, <3>6, <3>10
  <2> QED  BY <1>2, <2>1, <2>2, <2>3
<1>13. SearchGoes'
  <2>1. Exploring' = Exploring /\ Current' = Current  BY <1>1 DEF Exploring, Current
  <2>2. node' = node  BY <1>1, <2>1 DEF node
  <2>3. Wanted(Current)'
    <3>1. \A t : Wanted(t)' <=> Wanted(t)  BY <1>1, <2>1 DEF Wanted, PairedUnmapped, Claimed, IsTerminal
    <3> QED  BY <1>1, <2>1, <3>1
  <2>4. Parted(arcs, comps)'
    <3>1. PICK E, cs : E = arcs /\ cs = comps  OBVIOUS
    <3>2. E = arcs' /\ cs = comps'  BY <1>1, <3>1
    <3> QED  BY <1>5, <3>1, <3>2
  <2>5. Searched(arcs, Range(queue), Range(found), cut, node)'
    <3>1. PICK E, m : E = arcs /\ m = node  OBVIOUS
    <3>2. E = arcs' /\ m = node'  BY <1>1, <2>2, <3>1
    <3> QED  BY <1>12, <3>1, <3>2
  <2> QED  BY <2>3, <2>4, <2>5 DEF SearchGoes, node
<1>14. SearchIsHonest'
  <2>1. \A m : SimplePaths(m)' = SimplePaths(m)  BY <1>1 DEF SimplePaths, PathEdges
  <2> QED  BY <1>1, <2>1 DEF HonestInv, SearchIsHonest
<1> QED  BY <1>1, <1>13, <1>14 DEF HonestInv

(* The search is over and its target has its task.                         *)
LEMMA AddTaskGoes == ASSUME PlanInv, HonestInv, AddTask PROVE HonestInv'
<1>1. /\ phase = "search" /\ ~Searching /\ tasks' = Append(tasks, Task(Current))
      /\ phase' = "planned" \/ phase' = phase
      /\ queue' = <<<<Entry>>>> /\ found' = <<>> /\ cut' = {}
      /\ arcs' = arcs /\ targets' = targets /\ comps' = comps
  BY DEF AddTask, FreshSearch, tarjan
<1>2. Parted(arcs, comps)  BY <1>1 DEF HonestInv, SearchGoes
<1>3. Parted(arcs, comps)'
  <2>1. PICK E, cs : E = arcs /\ cs = comps  OBVIOUS
  <2>2. E = arcs' /\ cs = comps'  BY <1>1, <2>1
  <2> QED  BY <1>2, <2>1, <2>2
<1>4. SearchGoes'
  <2>1. queue' = <<<<Entry>>>> /\ found' = <<>> /\ cut' = {}  BY <1>1
  <2>2. PICK E, m : E = arcs' /\ m = targets'[Current'].node  OBVIOUS
  <2>3. Searched(E, Range(<<<<Entry>>>>), Range(<<>>), {}, m)  BY FreshGoes
  <2>4. Searched(arcs', Range(queue'), Range(found'), cut', targets'[Current'].node)  BY <2>1, <2>2, <2>3
  <2> QED  BY <1>3, <2>1, <2>4 DEF SearchGoes
<1>5. SearchType /\ TasksFit  BY DEF PlanInv
<1>6. Current \in DOMAIN targets  BY <1>1, <1>5, CurrentIs
<1>7. PICK task, now, node : task = Task(Current) /\ now = Current /\ node = targets[Current].node  OBVIOUS
<1>8. task.target = now /\ task.nodes = found /\ task.truncated = (Reasons # {})  BY <1>5, <1>6, <1>7, TaskIs
<1>9. Searched(arcs, Range(queue), Range(found), cut, node)  BY <1>1, <1>7 DEF HonestInv, SearchGoes
<1>10. Range(found) \subseteq SimplePaths(node)  BY <1>9, SimpleIs DEF Searched
<1>11. ASSUME Reasons = {} PROVE SimplePaths(node) \subseteq Range(found)
  <2>1. cut = {} /\ ~(queue # <<>> /\ Len(found) >= PathLimit)
    <3>1. \A x : x \notin Reasons  BY <1>11
    <3>2. cut = {}  BY <3>1 DEF Reasons
    <3>3. ASSUME queue # <<>> /\ Len(found) >= PathLimit PROVE FALSE
      <4>1. "path_limit" \in Reasons  BY <3>3 DEF Reasons
      <4> QED  BY <3>1, <4>1
    <3> QED  BY <3>2, <3>3
  <2>2. queue = <<>>
    <3>1. Len(found) \in Nat /\ PathLimit \in Nat  BY <1>5, SearchLimits DEF SearchType, PathLimit
    <3> QED  BY <1>1, <2>1, <3>1 DEF Searching
  <2>3. Range(queue) = {}
    <3>1. DOMAIN <<>> = {}  OBVIOUS
    <3> QED  BY <2>2, <3>1 DEF Range
  <2>4. Covers(arcs, {}, Range(found), node)  BY <1>9, <2>1, <2>3 DEF Searched
  <2>5. \A p : Strolls(arcs, p) /\ EndOf(p) = node => p \in Range(found)  BY <2>4 DEF Covers
  <2> QED  BY <2>5, SimpleIs
<1>12. PICK S : tasks \in Seq(S)  BY <1>5 DEF TasksFit
<1>13. /\ DOMAIN tasks = 1 .. Len(tasks) /\ DOMAIN tasks' = 1 .. Len(tasks) + 1 /\ Len(tasks) \in Nat
       /\ \A i \in 1 .. Len(tasks) : tasks'[i] = tasks[i]
       /\ tasks'[Len(tasks) + 1] = task
  <2>1. tasks \in Seq(S \cup {task})  BY <1>12, SeqMonotone
  <2>2. PICK y : y = Append(tasks, task)  OBVIOUS
  <2>3. /\ y \in Seq(S \cup {task}) /\ Len(y) = Len(tasks) + 1 /\ Len(tasks) \in Nat
        /\ \A i \in 1 .. Len(tasks) : y[i] = tasks[i]
        /\ y[Len(tasks) + 1] = task
    BY <2>1, <2>2, AppendProperties
  <2>4. DOMAIN tasks = 1 .. Len(tasks) /\ DOMAIN y = 1 .. Len(tasks) + 1  BY <2>1, <2>3
  <2>5. tasks' = y  BY <1>1, <1>7, <2>2
  <2> QED  BY <2>3, <2>4, <2>5
<1>14. SearchIsHonest'
  <2>1. \A m : SimplePaths(m)' = SimplePaths(m)  BY <1>1 DEF SimplePaths, PathEdges
  <2> DEFINE Honest(x) == /\ Range(x.nodes) \subseteq SimplePaths(targets[x.target].node)
                          /\ ~x.truncated => Range(x.nodes) = SimplePaths(targets[x.target].node)
  <2>2. \A i \in DOMAIN tasks : Honest(tasks[i])  BY <1>1 DEF HonestInv, SearchIsHonest
  <2>3. Honest(task)
    <3>1. targets[task.target].node = node  BY <1>7, <1>8
    <3>2. ~task.truncated => Reasons = {}  BY <1>8
    <3> QED  BY <1>8, <1>10, <1>11, <3>1, <3>2
  <2>4. \A i \in DOMAIN tasks' : i \in DOMAIN tasks \/ i = Len(tasks) + 1  BY <1>13
  <2> HIDE DEF Honest
  <2>5. \A i \in DOMAIN tasks' : Honest(tasks'[i])  BY <1>13, <2>2, <2>3, <2>4
  <2> USE DEF Honest
  <2>6. ASSUME NEW i \in DOMAIN tasks' PROVE Honest(tasks[i])'
    <3>1. Honest(tasks'[i])  BY <2>5
    <3>2. PICK x : x = tasks'[i]  OBVIOUS
    <3>3. PICK m : m = targets[x.target].node  OBVIOUS
    <3>4. m = targets'[x.target].node /\ SimplePaths(m)' = SimplePaths(m)  BY <1>1, <2>1, <3>3
    <3>5. SimplePaths(targets[tasks[i].target].node)' = SimplePaths(m)  BY <3>2, <3>4
    <3> QED  BY <3>1, <3>2, <3>3, <3>5
  <2> QED  BY <2>6 DEF SearchIsHonest
<1> QED  BY <1>1, <1>4, <1>14 DEF HonestInv

(* Before the first step.                                                  *)
LEMMA HonestInit == PrepareInit => HonestInv
<1> SUFFICES ASSUME PrepareInit PROVE HonestInv  OBVIOUS
<1>1. InitPlan /\ phase = "components" /\ tasks = <<>>  BY DEF PrepareInit, InitPlan
<1>2. TarjanInv  BY <1>1, TarjanInit
<1>3. DOMAIN tasks = {}  BY <1>1
<1> QED  BY <1>1, <1>2, <1>3 DEF HonestInv, SearchIsHonest

(* Every step of the preparation keeps it.                                 *)
LEMMA PrepareKeepsHonest == PlanInv /\ HonestInv /\ [PrepareNext]_all => HonestInv'
<1> SUFFICES ASSUME PlanInv, HonestInv, [PrepareNext]_all PROVE HonestInv'  OBVIOUS
<1>1. CASE Planning
  <2>1. NextPlan  BY <1>1 DEF Planning
  <2> QED  BY <2>1, ComponentsKeep, BeginKeeps, SkipGoes, PopGoes, AddTaskGoes DEF NextPlan
<1>2. CASE PlanWritten
  <2>1. phase' = "over"  BY <1>2 DEF PlanWritten
  <2> QED  BY <2>1 DEF HonestInv, SearchIsHonest
<1>3. CASE planVars' = planVars
  <2>1. /\ phase' = phase /\ arcs' = arcs /\ targets' = targets /\ place' = place /\ tasks' = tasks
        /\ queue' = queue /\ found' = found /\ cut' = cut
        /\ index' = index /\ low' = low /\ stack' = stack /\ calls' = calls /\ comps' = comps
    BY <1>3 DEF planVars, search, tarjan
  <2>2. TarjanInv => TarjanInv'
    <3> SUFFICES ASSUME TarjanInv PROVE TarjanInv'  OBVIOUS
    <3>1. PICK a, b, c, d, e, f : a = arcs /\ b = index /\ c = low /\ d = stack /\ e = calls /\ f = comps  OBVIOUS
    <3>2. a = arcs' /\ b = index' /\ c = low' /\ d = stack' /\ e = calls' /\ f = comps'  BY <2>1, <3>1
    <3>3. TInv(a, b, c, d, e, f)  BY <3>1 DEF TarjanInv
    <3> QED  BY <3>2, <3>3 DEF TarjanInv
  <2>3. SearchGoes => SearchGoes'
    <3> SUFFICES ASSUME SearchGoes PROVE SearchGoes'  OBVIOUS
    <3>1. Current' = Current /\ (Wanted(Current)' <=> Wanted(Current))
      BY <2>1 DEF Current, Exploring, Wanted, PairedUnmapped, Claimed, IsTerminal
    <3>2. PICK a, f, q, d, c, m : /\ a = arcs /\ f = comps /\ q = Range(queue) /\ d = Range(found) /\ c = cut
                                  /\ m = targets[Current].node
      OBVIOUS
    <3>3. a = arcs' /\ f = comps' /\ q = Range(queue') /\ d = Range(found') /\ c = cut' /\ m = targets'[Current'].node
      BY <2>1, <3>1, <3>2
    <3>4. Parted(a, f) /\ Searched(a, q, d, c, m)  BY <3>2 DEF SearchGoes
    <3>5. Parted(arcs, comps)' /\ Searched(arcs, Range(queue), Range(found), cut, targets[Current].node)'
      BY <3>3, <3>4
    <3> QED  BY <2>1, <3>1, <3>5 DEF SearchGoes
  <2>4. SearchIsHonest'
    <3>1. \A m : SimplePaths(m)' = SimplePaths(m)  BY <2>1 DEF SimplePaths, PathEdges
    <3> QED  BY <2>1, <3>1 DEF HonestInv, SearchIsHonest
  <2> QED  BY <2>1, <2>2, <2>3, <2>4 DEF HonestInv
<1> QED  BY <1>1, <1>2, <1>3, PlanAlone DEF PrepareNext

(* PlanIsComplete: the search is honest and no target is forgotten.        *)
THEOREM PlanHolds == PrepareSpec => []PlanIsComplete
<1>1. PlanInv /\ HonestInv => PlanIsComplete  BY NoneForgotten DEF HonestInv, PlanIsComplete
<1>2. PlanInv /\ HonestInv /\ [PrepareNext]_all => PlanInv' /\ HonestInv'
  BY PrepareKeepsPlan, PrepareKeepsHonest
<1> QED  BY <1>1, <1>2, PlanInit, HonestInit, PTL DEF PrepareSpec
=============================================================================
