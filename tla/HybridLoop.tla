----------------------------- MODULE HybridLoop -----------------------------
(***************************************************************************)
(* The feedback loop of a hybrid campaign: the native engine (GoalStage)   *)
(* and the symbolic solver (LiveSolver) run concurrently and exchange      *)
(* prefixes and testcases through files (SolverFiles).  run_rust_engine of *)
(* fuzzer/pipeline/campaign.py starts both and tells the solver when the   *)
(* engine is gone.                                                         *)
(***************************************************************************)
EXTENDS GoalStage, LiveSolver

vars == <<stageVars, solverVars, fileVars>>

Init == FilesInit /\ StageInit /\ SolverInit

(* The engine process and the solver thread are started.                   *)
Launch ==
  /\ at = "off" /\ at' = "select"
  /\ StartLive
  /\ UNCHANGED <<scheduleVars, attempts, reached, best, seedVars, current, result, reaches,
                 prefixVars, found, executions>>

(* mutant: only an engine that ended by itself stops the solver            *)
EndedByItself == at = "ended"

(* communicate() returns, or its timeout killed the engine.                *)
EngineGone == at \in {"ended", "dead"}

Collect ==
  /\ EngineGone /\ ~stop
  /\ stop' = TRUE
  /\ UNCHANGED <<stageVars, solverVars, queue, torn, seeds, meta, goals>>

Engine == StageStep /\ UNCHANGED solverVars
EngineLeaves == (TimeUp \/ StageDies) /\ UNCHANGED solverVars
Solver == SolverStep /\ UNCHANGED stageVars

Terminated == at \in {"ended", "dead"} /\ on = "ended" /\ UNCHANGED vars

Next == Launch \/ Engine \/ EngineLeaves \/ Solver \/ Collect \/ Terminated

Spec == Init /\ [][Next]_vars

(* The operating system runs the engine process and the solver thread, and *)
(* communicate() notices the end of the engine.  Nothing makes the engine  *)
(* end: its time budget may be as long as one likes.                       *)
FairSpec == Spec /\ WF_vars(Engine) /\ WF_vars(Solver) /\ WF_vars(Collect)

-----------------------------------------------------------------------------
Elements(seq) == {seq[i] : i \in DOMAIN seq}
NoRepeats(seq) == \A i, j \in DOMAIN seq : seq[i] = seq[j] => i = j

TypeOK == FilesTypeOK /\ StageTypeOK /\ SolverTypeOK

(* Every solver seed the engine has taken in carries the task and the      *)
(* query it was found for: the .json file is in place before the .seed     *)
(* file can be seen (_offer_solver_seed, ingest_solver_seeds).             *)
Origin(input) == input.id # 0 => \E s \in seeds : s = input

SeedsKeepTheirOrigin == Origin(current) /\ \A i \in DOMAIN waiting : Origin(waiting[i])

(* The numbers of the published seeds have no gap, whatever write failed:  *)
(* ingest_solver_seeds stops at the first missing number, so every seed    *)
(* beyond a gap would be lost for the engine.                              *)
SeedNumbers == {s.id : s \in seeds}

NoSeedIsStranded == SeedNumbers = 1..Cardinality(SeedNumbers)

(* A goal is written as a candidate once, though it is hit many times and  *)
(* by seeds of other tasks, and only an exact one (on_result).             *)
OneCandidatePerGoal == NoRepeats(found) /\ Elements(found) \subseteq reached \cap Exact

(* From the choice of the input to the end of on_result the active task,   *)
(* to which remember credits prefixes and queue records, is the task that  *)
(* attempts and distances are counted for: a solver seed may switch it     *)
(* after select_task chose another one.                                    *)
CreditGoesToTheTask ==
  at \in {"run", "reach", "retain", "goals"} => active = TaskOfRun

(* Every hazard_reach that the engine has counted, and so will not look    *)
(* for again, has its prefix in the store, however many prefixes of the    *)
(* solver come after it, unless the store was full of prefixes that        *)
(* remember does not give up.                                              *)
ReachesAreKept ==
  \A t \in reaches :
    \/ \E p \in prefixes : p.source = "relevant_reach" /\ p.task = t
    \/ Full /\ Evictable = {}

(* The thread asks one query for a prefix and task, although every poll    *)
(* reads the whole file again (seen in _run_live_prefix_solver).           *)
AskedOnce == NoRepeats(asked)

(* Startup and thread together stay within the query budget of every task  *)
(* and of the campaign (_claim_solver_budget).                             *)
BudgetsHold ==
  /\ used <= MaxQueries
  /\ \A t \in Tasks : queries[t] <= claimed[t] /\ claimed[t] <= QueryLimit[t]

(* Live solving stays bounded although startup and thread draw on the same *)
(* budgets and every poll rereads the whole queue: no prefix is asked      *)
(* twice and no budget is exceeded.                                        *)
SolvingIsBounded == AskedOnce /\ BudgetsHold

(* A complete record of the queue is decided, even one that a poll found   *)
(* half written ("Retry the line on the next poll instead of dropping it"  *)
(* in _run_live_prefix_solver) or whose frames could not be read at first, *)
(* unless they can never be read again or the thread ends before.          *)
QueuedIsDecided ==
  \A p \in 1..((NTasks + 2) * MaxExecutions), t \in Tasks :
    <>[](<<p, t>> \notin unread) =>
      ((\E r \in CompleteLines : Key(r) = <<p, t>>) ~> (<<p, t>> \in decided \/ on = "ended"))

(* When the engine is gone, by its own end, a crash or the kill after its  *)
(* deadline, the solver thread ends too (the finally of run_rust_engine).  *)
SolverFollowsEngine == (at \in {"ended", "dead"}) ~> (on = "ended")
=============================================================================
