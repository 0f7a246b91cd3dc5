---------------------------- MODULE Preparation ----------------------------
(***************************************************************************)
(* What is prepared before a campaign's search, in the order of            *)
(* fuzzer/pipeline/core.py and campaign.py: the semantic task plan, the    *)
(* goal tasks, and the seeds that a language model plans. Each part hands  *)
(* on a file; its local state is gone when it is done.                     *)
(***************************************************************************)
EXTENDS TaskPlan, GoalTasks, PlanBatches

VARIABLES
  stage,       \* "plan", then "goals", then "batches"
  temporal,    \* some task of the plan has a temporal requirement
  wanted       \* the number of tasks of the plan

Limit(mode) == CASE mode = "single_cycle" -> 1 [] mode = "unknown" -> FewFrames [] OTHER -> ManyFrames

all == <<planVars, gvars, pvars, stage, temporal, wanted>>

PrepareInit ==
  /\ InitPlan /\ InitBatches
  /\ graph = {} /\ facts = <<>> /\ walk = <<>> /\ reasons = {} /\ unknown = {}
  /\ gphase = "effects" /\ goals = <<>>
  /\ stage = "plan" /\ temporal = FALSE /\ wanted = 0

Planning == stage = "plan" /\ NextPlan /\ UNCHANGED <<gvars, pvars, stage, temporal, wanted>>

(* The plan is written; the goal tasks read it together with the effect    *)
(* model of the program.                                                   *)
PlanWritten ==
  /\ stage = "plan" /\ phase = "planned"
  /\ stage' = "goals"
  /\ graph' \in CallGraphs
  /\ facts' \in PouFacts
  /\ temporal' = \E i \in DOMAIN tasks : tasks[i].temporal
  /\ wanted' = Len(tasks)
  /\ arcs' = {} /\ targets' = <<>> /\ comps' = {} /\ tasks' = <<>>
  /\ index' = [n \in Node |-> 0] /\ low' = index'
  /\ queue' = <<>> /\ found' = <<>> /\ spent' = 0 /\ cut' = {} /\ place' = 1
  /\ phase' = "over"
  /\ UNCHANGED <<stack, calls, walk, reasons, unknown, gphase, goals, pvars>>

Deriving ==
  /\ stage = "goals"
  /\ \/ \E own \in SUBSET {"state", "instance"} : StartEffects(own)
     \/ WalkCalls
     \/ \E s \in Shapes, arrays \in BOOLEAN : WriteGoals(temporal, wanted, s, arrays)
  /\ UNCHANGED <<planVars, pvars, stage, temporal, wanted>>

(* The goal tasks are written; planning starts with the frames that their  *)
(* cycle effects allow. A cache may hold answers of an earlier campaign.   *)
GoalsWritten ==
  /\ stage = "goals" /\ gphase = "written" /\ goals # <<>>
  /\ stage' = "batches"
  /\ step' = "start"
  /\ maxFrames' = Limit(Head(goals).mode)
  /\ cached' \in {{}, {1}}
  /\ temporal' = FALSE /\ wanted' = 0
  /\ graph' = {} /\ facts' = <<>> /\ reasons' = {} /\ unknown' = {} /\ goals' = <<>>
  /\ gphase' = "over"
  /\ UNCHANGED <<planVars, walk, round, asked, tokens, late, seen, todo,
                 hits, states, best, seeds, outcome>>

Asking == stage = "batches" /\ NextBatches /\ UNCHANGED <<planVars, gvars, stage, temporal, wanted>>

(* A target without any task is searched without goals.                    *)
PrepareRest ==
  /\ \/ stage = "batches" /\ step = "done"
     \/ stage = "goals" /\ gphase = "written" /\ goals = <<>>
  /\ UNCHANGED all

PrepareNext == Planning \/ PlanWritten \/ Deriving \/ GoalsWritten \/ Asking \/ PrepareRest

PrepareSpec == PrepareInit /\ [][PrepareNext]_all
=============================================================================
