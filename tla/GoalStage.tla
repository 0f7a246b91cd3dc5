------------------------------ MODULE GoalStage ------------------------------
(***************************************************************************)
(* The goal stage of the native engine, fuzzer/engine/src/v3_stage.rs, and *)
(* the loop that drives it in inprocess.rs: select_task, next_input with   *)
(* the ingestion of solver seeds, the execution, and on_result, whose      *)
(* effects on files are steps of their own.                                *)
(*                                                                         *)
(* What an execution shows is chosen: the goals it hits, the hazard_reach  *)
(* ids it hits, its distance to the task, and whether it is new.           *)
(***************************************************************************)
EXTENDS SolverFiles

CONSTANTS
  AttemptLimit,     \* AttemptLimit[t]: budget.attempts of task t
  Exact,            \* defect tasks whose goal is modelled exactly
  Reachable,        \* tasks with a hazard_reach id (at most one is modelled)
  FullDuration,     \* --v3-full-duration
  Planned,          \* number of planned prefixes
  PrefixLimit,      \* retained_prefix_limit
  MaxDistance,      \* the infinite distance; smaller numbers are finite ones
  MaxExecutions     \* --fuzz-iterations, and a bound of the model

ASSUME StageAssumption ==
  /\ AttemptLimit \in [Tasks -> Nat]
  /\ Exact \subseteq Tasks /\ Reachable \subseteq Tasks
  /\ FullDuration \in BOOLEAN
  /\ Planned \in Nat /\ PrefixLimit \in Nat /\ PrefixLimit > Planned
  /\ MaxDistance \in Nat /\ MaxExecutions \in Nat

VARIABLES
  at,          \* where the engine's loop is
  cursor,      \* task_cursor, modulo the number of tasks
  active,      \* active_task_id
  scheduled,   \* scheduled_task of the loop
  attempts,    \* task_attempts
  reached,     \* stats.reached
  best,        \* best_distance
  nextSeed,    \* next_solver_seed
  waiting,     \* pending_solver_seeds
  current,     \* the input: current_solver_seed_id, _task_id and _query_id
  result,      \* what on_result has still to do
  reaches,     \* seen_task_reaches
  prefixes,    \* prefixes
  nextPrefix,  \* next_prefix_number
  found,       \* semantic_goal candidates written, in order
  ran,         \* ids of the solver seeds that were inputs, in order
  rejected,    \* ids of the solver seeds that were rejected
  executions   \* stats.executions

stageVars == <<at, cursor, active, scheduled, attempts, reached, best, nextSeed,
               waiting, current, result, reaches, prefixes, nextPrefix, found, ran,
               rejected, executions>>
scheduleVars == <<cursor, active, scheduled>>
seedVars == <<nextSeed, waiting, ran, rejected>>
prefixVars == <<prefixes, nextPrefix>>

Sources == {"seed", "planning", "fuzz", "solver", "relevant_reach", "state_novelty", "random"}
Prefix == [id : Int, task : Tasks \cup {NoTask}, source : Sources]

(* An input: the id of a solver seed, or 0 for a seed of the corpus or a   *)
(* mutated prefix.                                                         *)
Input == [id : Nat, task : Tasks \cup {NoTask}, query : Nat]
NoInput == [id |-> 0, task |-> NoTask, query |-> NoQuery]

(* What on_result has still to work off: the hazard reaches to keep, the   *)
(* distance, whether it improved, whether the run showed anything new (for *)
(* a solver seed hits or states never seen, for the others hits that the   *)
(* last novel run did not have), and the goals to report.                  *)
Result == [reach : SUBSET Tasks, distance : 0..MaxDistance, improved : BOOLEAN,
           new : BOOLEAN, goals : SUBSET Tasks]
NoResult == [reach |-> {}, distance |-> MaxDistance, improved |-> FALSE,
             new |-> FALSE, goals |-> {}]

StageTypeOK ==
  /\ at \in {"off", "select", "ingest", "metadata", "run", "reach", "retain", "goals",
             "ended", "dead"}
  /\ cursor \in Nat
  /\ active \in Tasks \cup {NoTask} /\ scheduled \in Tasks \cup {NoTask}
  /\ attempts \in [Tasks -> Nat]
  /\ reached \subseteq Tasks /\ reaches \subseteq Tasks
  /\ best \in [Tasks -> 0..MaxDistance]
  /\ nextSeed \in Nat \ {0} /\ waiting \in Seq(Input) /\ current \in Input
  /\ result \in Result
  /\ prefixes \subseteq Prefix /\ nextPrefix \in Nat
  /\ found \in Seq(Tasks) /\ ran \in Seq(Nat) /\ rejected \subseteq Nat
  /\ executions \in Nat

(* Planned prefixes have numbers of their own; here they are negative.     *)
StageInit ==
  /\ at = "off" /\ cursor = 0 /\ active = NoTask /\ scheduled = NoTask
  /\ attempts = [t \in Tasks |-> 0] /\ reached = {} /\ reaches = {}
  /\ best = [t \in Tasks |-> MaxDistance]
  /\ nextSeed = 1 /\ waiting = <<>> /\ current = NoInput /\ result = NoResult
  /\ \E owner \in [1..Planned -> Tasks] :
       prefixes = {[id |-> 0, task |-> NoTask, source |-> "seed"]}
                    \cup {[id |-> -p, task |-> owner[p], source |-> "planning"] : p \in 1..Planned}
  /\ nextPrefix = 1 /\ found = <<>> /\ ran = <<>> /\ rejected = {} /\ executions = 0

-----------------------------------------------------------------------------
(***************************************************************************)
(* The loop: select_task, then next_input.                                 *)
(***************************************************************************)
Schedulable(t) == t \notin reached /\ attempts[t] < AttemptLimit[t]

(* The task k turns after the cursor.                                      *)
TaskAt(k) == ((cursor + k) % NTasks) + 1

(* The turns, of one round, that would find a task.                        *)
Turns == {k \in 0..(NTasks - 1) : Schedulable(TaskAt(k))}

SelectTask ==
  /\ at = "select" /\ executions < MaxExecutions
  /\ \E k \in Turns :
       /\ \A j \in Turns : k <= j
       /\ cursor' = (cursor + k + 1) % NTasks
       /\ active' = TaskAt(k) /\ scheduled' = TaskAt(k)
  /\ at' = "ingest"
  /\ UNCHANGED <<attempts, reached, best, seedVars, current, result, reaches,
                 prefixVars, found, executions, fileVars>>

(* No task is left.  The loop breaks unless it runs its full duration or   *)
(* there never were tasks.                                                 *)
SelectNone ==
  /\ at = "select" /\ executions < MaxExecutions /\ Turns = {}
  /\ active' = NoTask /\ scheduled' = NoTask
  /\ at' = IF FullDuration \/ Tasks = {} THEN "ingest" ELSE "ended"
  /\ UNCHANGED <<cursor, attempts, reached, best, seedVars, current, result, reaches,
                 prefixVars, found, executions, fileVars>>

(* The time budget or the execution limit ends the loop.                   *)
TimeUp ==
  /\ at = "select"
  /\ at' = "ended"
  /\ UNCHANGED <<scheduleVars, attempts, reached, best, seedVars, current, result,
                 reaches, prefixVars, found, executions, fileVars>>

(* ingest_solver_seeds: the file with the next number is read; it may be   *)
(* longer than max_depth.                                                  *)
IngestSeed ==
  /\ at = "ingest" /\ \E s \in seeds : s.id = nextSeed
  /\ nextSeed' = nextSeed + 1
  /\ \/ at' = "metadata" /\ UNCHANGED rejected
     \/ rejected' = rejected \cup {nextSeed} /\ UNCHANGED at
  /\ UNCHANGED <<scheduleVars, attempts, reached, best, waiting, ran, current, result,
                 reaches, prefixVars, found, executions, fileVars>>

(* Its metadata is read, if there is any, and the seed queued.             *)
MetadataOf(id) ==
  LET own == {m \in meta : m.id = id} IN
    IF own = {} THEN {[id |-> id, query |-> NoQuery, task |-> NoTask]} ELSE own

PushBack(m) == Append(waiting, m)

ReadMetadata ==
  /\ at = "metadata"
  /\ \E m \in MetadataOf(nextSeed - 1) : waiting' = PushBack(m)
  /\ at' = "ingest"
  /\ UNCHANGED <<scheduleVars, attempts, reached, best, nextSeed, ran, rejected, current,
                 result, reaches, prefixVars, found, executions, fileVars>>

(* mutant: the task of the seed does not become the active one             *)
KeepActive(input) == active

(* The task a solver seed was found for becomes the active one.            *)
ActiveFor(input) == IF input.task = NoTask THEN active ELSE input.task

(* Is the next input a solver seed?                                        *)
SolverIsNext == waiting # <<>>

(* next_input, once no further seed file is there: solver seeds go first.  *)
(* The read that finds no file and the pop that follows share nothing.     *)
NextInput ==
  /\ at = "ingest" /\ ~\E s \in seeds : s.id = nextSeed
  /\ IF SolverIsNext
       THEN /\ current' = Head(waiting) /\ waiting' = Tail(waiting)
            /\ active' = ActiveFor(Head(waiting))
            /\ ran' = Append(ran, Head(waiting).id)
       ELSE current' = NoInput /\ UNCHANGED <<waiting, active, ran>>
  /\ at' = "run"
  /\ UNCHANGED <<cursor, scheduled, attempts, reached, best, nextSeed, rejected, result,
                 reaches, prefixVars, found, executions, fileVars>>

-----------------------------------------------------------------------------
(***************************************************************************)
(* The execution and on_result.                                            *)
(***************************************************************************)
IsSolverSeed == current.id # 0

(* The task the loop passes to on_result.                                  *)
TaskOfRun == IF current.task # NoTask THEN current.task ELSE scheduled

Count ==
  /\ executions' = executions + 1
  /\ attempts' = [t \in Tasks |-> IF t = TaskOfRun THEN attempts[t] + 1 ELSE attempts[t]]

(* The cold preflight, or the run itself, ends in a crash or a timeout.    *)
RunStops ==
  /\ at = "run"
  /\ Count
  /\ current' = NoInput
  /\ at' = "select"
  /\ UNCHANGED <<scheduleVars, reached, best, seedVars, result, reaches, prefixVars,
                 found, fileVars>>

(* Goals hit for the first time.                                           *)
FirstHits(hits) == hits \ reached

(* The run is clean: the goals it hit are recorded and the rest of         *)
(* on_result prepared.                                                     *)
RunEnds ==
  /\ at = "run"
  /\ Count
  /\ \E hits \in SUBSET Tasks, reach \in SUBSET Reachable, d \in 0..MaxDistance, new \in BOOLEAN :
       /\ reached' = reached \cup hits
       /\ result' = [reach |-> IF IsSolverSeed THEN {} ELSE (reach \ reached') \ reaches,
                     distance |-> d,
                     improved |-> TaskOfRun # NoTask /\ d < best[TaskOfRun],
                     new |-> new,
                     goals |-> FirstHits(hits) \cap Exact]
  /\ at' = "reach"
  /\ UNCHANGED <<scheduleVars, best, seedVars, current, reaches, prefixVars, found, fileVars>>

(* remember, called with a source, the active task and a distance.         *)
Full == Cardinality(prefixes) >= PrefixLimit

Evictable == {p \in prefixes : p.source \in {"random", "fuzz", "state_novelty"}}

(* mutant: the last prefix goes, whatever its source                       *)
NewestPrefix == {p \in prefixes : \A q \in prefixes : q.id <= p.id}

(* The prefix to go: the first that is evictable.                          *)
Victim == {p \in Evictable : \A q \in Evictable : p.id <= q.id}

CanRemember(source) == ~Full \/ (source \in {"solver", "relevant_reach"} /\ Evictable # {})

Store(source, task) ==
  /\ prefixes' = (IF Full THEN prefixes \ Victim ELSE prefixes)
                   \cup {[id |-> nextPrefix, task |-> task, source |-> source]}
  /\ nextPrefix' = nextPrefix + 1

(* The record for the solver: the last line of the file until it is        *)
(* complete is a torn one.                                                 *)
Enqueue(source, task) ==
  /\ queue' = Append(queue, [prefix |-> nextPrefix, task |-> task,
                             reach |-> source = "relevant_reach"])
  /\ torn' = TRUE

Queued(source, task, d) ==
  /\ source \in {"fuzz", "relevant_reach"}
  /\ task # NoTask /\ task \notin reached
  /\ d < MaxDistance \/ source = "relevant_reach"

(* The frames file may not be writable: then the prefix is kept and no     *)
(* record written.                                                         *)
Remember(source, task, d) ==
  IF CanRemember(source)
    THEN /\ Store(source, task)
         /\ \/ Queued(source, task, d) /\ Enqueue(source, task)
            \/ UNCHANGED <<queue, torn>>
    ELSE UNCHANGED <<prefixVars, queue, torn>>

(* The write of the line completes.                                        *)
FinishLine ==
  /\ torn /\ at \notin {"ended", "dead"}
  /\ torn' = FALSE
  /\ UNCHANGED <<stageVars, queue, seeds, meta, goals, stop>>

(* A first hit of a task's hazard_reach id: the prefix is kept for that    *)
(* task, which is active for the call only.                                *)
RememberReach ==
  /\ at = "reach" /\ ~torn
  /\ \E t \in result.reach :
       /\ \A u \in result.reach : t <= u
       /\ reaches' = reaches \cup {t}
       /\ Remember("relevant_reach", t, MaxDistance)
       /\ result' = [result EXCEPT !.reach = @ \ {t}]
  /\ UNCHANGED <<at, scheduleVars, attempts, reached, best, seedVars, current, found,
                 executions, seeds, meta, goals, stop>>

(* The distance improved: the prefix is kept, unless a solver seed made it.*)
RememberDistance ==
  /\ at = "reach" /\ ~torn /\ result.reach = {}
  /\ at' = "retain"
  /\ IF result.improved
       THEN /\ best' = [best EXCEPT ![TaskOfRun] = result.distance]
            /\ IF IsSolverSeed THEN UNCHANGED <<prefixVars, queue, torn>>
                               ELSE Remember("fuzz", active, result.distance)
       ELSE UNCHANGED <<best, prefixVars, queue, torn>>
  /\ UNCHANGED <<scheduleVars, attempts, reached, seedVars, current, result, reaches,
                 found, executions, seeds, meta, goals, stop>>

(* A solver seed that brought something new becomes a prefix; so does an   *)
(* input with new hits, and every 64th of the others.                      *)
Retain ==
  /\ at = "retain" /\ ~torn
  /\ at' = "goals"
  /\ IF IsSolverSeed
       THEN IF result.new \/ result.improved
              THEN Remember("solver", active, result.distance)
              ELSE UNCHANGED <<prefixVars, queue, torn>>
       ELSE \/ ~Full /\ Remember(IF result.new THEN "state_novelty" ELSE "random",
                                 active, result.distance)
            \/ (Full \/ ~result.new) /\ UNCHANGED <<prefixVars, queue, torn>>
  /\ UNCHANGED <<scheduleVars, attempts, reached, best, seedVars, current, result,
                 reaches, found, executions, seeds, meta, goals, stop>>

(* A first hit of an exact goal is written as a candidate and an event;    *)
(* then the loop goes on, or ends when all goals are reached.              *)
WriteGoal ==
  /\ at = "goals" /\ ~torn
  /\ \E t \in result.goals :
       /\ \A u \in result.goals : t <= u
       /\ found' = Append(found, t)
       /\ goals' = goals \cup {t}
       /\ result' = [result EXCEPT !.goals = @ \ {t}]
  /\ UNCHANGED <<at, scheduleVars, attempts, reached, best, seedVars, current, reaches,
                 prefixVars, executions, queue, torn, seeds, meta, stop>>

EndIteration ==
  /\ at = "goals" /\ ~torn /\ result.goals = {}
  /\ current' = NoInput /\ result' = NoResult
  /\ at' = IF ~FullDuration /\ Tasks # {} /\ reached = Tasks THEN "ended" ELSE "select"
  /\ UNCHANGED <<scheduleVars, attempts, reached, best, seedVars, reaches, prefixVars,
                 found, executions, fileVars>>

(* The process dies, or main kills it.                                     *)
StageDies ==
  /\ at \notin {"off", "ended", "dead"}
  /\ at' = "dead"
  /\ UNCHANGED <<scheduleVars, attempts, reached, best, seedVars, current, result,
                 reaches, prefixVars, found, executions, fileVars>>

(* What the engine does by itself, the end of its time apart.              *)
StageStep ==
  \/ SelectTask \/ SelectNone \/ IngestSeed \/ ReadMetadata \/ NextInput
  \/ RunStops \/ RunEnds \/ FinishLine \/ RememberReach \/ RememberDistance
  \/ Retain \/ WriteGoal \/ EndIteration
=============================================================================
