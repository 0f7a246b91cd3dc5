----------------------------- MODULE SolverFiles -----------------------------
(***************************************************************************)
(* The files by which the native engine (GoalStage) and the solver thread  *)
(* of the campaign (LiveSolver) work on each other's results:              *)
(*                                                                         *)
(*  - prefixes/klee-queue.jsonl, appended by the engine: prefixes that     *)
(*    made progress on a task, for the solver to continue from;            *)
(*  - solver/reinject/solver-seed-NNNNNNNN.seed with its .json, written by *)
(*    the solver: testcases for the engine to run;                         *)
(*  - metrics/events.jsonl, of which only goal_reached matters here.       *)
(*                                                                         *)
(* A prefix is its number and a testcase of the solver is the query it     *)
(* came from.  The tasks of goal-tasks.json are numbered in file order.    *)
(***************************************************************************)
EXTENDS Integers, Sequences, FiniteSets

CONSTANTS
  NTasks,       \* number of tasks in goal-tasks.json
  MaxSeeds      \* bound: seeds the solver publishes

ASSUME FilesAssumption == NTasks \in Nat /\ MaxSeeds \in Nat

VARIABLES
  queue,    \* klee-queue.jsonl: the records written so far
  torn,     \* is the last of them only partly written?
  seeds,    \* the .seed files
  meta,     \* the .json files beside them
  goals,    \* tasks with a goal_reached event
  stop      \* online_stop is set: the engine process was collected

fileVars == <<queue, torn, seeds, meta, goals, stop>>

Tasks == 1..NTasks
NoTask == 0
NoQuery == 0

(* A record of the queue: the trigger is native_hazard_reach or            *)
(* task_distance_improved.                                                 *)
QueueRecord == [prefix : Nat, task : Tasks, reach : BOOLEAN]

SeedFile == [id : Nat \ {0}, query : Nat \ {0}, task : Tasks]

FilesTypeOK ==
  /\ queue \in Seq(QueueRecord)
  /\ torn \in BOOLEAN /\ (torn => queue # <<>>)
  /\ seeds \subseteq SeedFile /\ meta \subseteq SeedFile
  /\ goals \subseteq Tasks
  /\ stop \in BOOLEAN

FilesInit ==
  /\ queue = <<>> /\ torn = FALSE
  /\ seeds = {} /\ meta = {} /\ goals = {} /\ stop = FALSE
=============================================================================
