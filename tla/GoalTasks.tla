------------------------------ MODULE GoalTasks ------------------------------
(***************************************************************************)
(* fuzzer/pipeline/goal_tasks.py: what may survive from one frame to the   *)
(* next (cycle_effects), and with it how long the planned input prefixes   *)
(* of a goal task are and which of them are kept.                          *)
(*                                                                         *)
(* A program is a call graph of POUs; what a POU's symbols and calls say   *)
(* about its state is one fact per POU. The values of a prefix are left    *)
(* out: a prefix is its number of frames.                                  *)
(***************************************************************************)
EXTENDS Integers, Sequences, FiniteSets, SequencesExt, FiniteSetsExt

CONSTANTS
  Pous,           \* the POUs of the effect model; POU 1 is the target
  CallGraphs,     \* the call graphs it may have: sets of <<caller, callee>>
  PouFacts,       \* the facts it may hold: functions from Pous to sets of facts
  MaxPrefixes,    \* MAX_PLANNED_PREFIXES_PER_TASK
  Focused,        \* prefixes that every task keeps
  Shapes          \* the shapes that a task may have

ASSUME PrefixLimits ==
  /\ MaxPrefixes \in Nat /\ Focused \in Nat /\ Focused < MaxPrefixes
  /\ 1 \in Pous

(* What is known to carry state over a frame, and what is merely unknown.  *)
StateFacts == {"state", "pointer_write", "io_call"}
UnknownFacts == {"instance", "inout_alias", "external_call"}

(* The effect model lists finitely many POUs and, for each, its calls; a   *)
(* callee need not be one of them.                                         *)
ASSUME EffectModel ==
  /\ Pous \subseteq Nat /\ IsFiniteSet(Pous)
  /\ \A g \in CallGraphs : g \subseteq Pous \X Nat /\ IsFiniteSet(g)
  /\ PouFacts \subseteq [Pous -> SUBSET (StateFacts \cup UnknownFacts)]

VARIABLES
  graph, facts,   \* the program
  walk,           \* active calls of inspect(): [pou, rest], innermost last
  reasons,        \* effects found
  unknown,        \* effects that could not be resolved
  gphase,         \* "effects", "walk", "written"
  goals           \* the goal tasks: what each keeps of its prefixes

gvars == <<graph, facts, walk, reasons, unknown, gphase, goals>>

CalledBy(p) == {c[2] : c \in {d \in graph : d[1] = p}}

Callees(p) ==
  CHOOSE s \in [1..Cardinality(CalledBy(p)) -> CalledBy(p)] :
    \A i, j \in DOMAIN s : i < j => s[i] < s[j]

Visiting == {walk[i].pou : i \in DOMAIN walk}

(* A POU that is being visited is called again: the recursion is given up. *)
Recursive(p) == p \in Visiting

(* Mutant: only the calls of the target itself are followed.               *)
InspectShallow(p, under) ==
  /\ walk' = under
  /\ reasons' = reasons \cup (IF p \in Pous THEN facts[p] \cap StateFacts ELSE {})
  /\ unknown' = unknown \cup (IF p \in Pous THEN facts[p] \cap UnknownFacts ELSE {"unavailable"})

Inspect(p, under) ==
  IF p \notin Pous
  THEN /\ unknown' = unknown \cup {"unavailable"}
       /\ walk' = under
       /\ UNCHANGED reasons
  ELSE IF Recursive(p)
  THEN /\ unknown' = unknown \cup {"recursive"}
       /\ walk' = under
       /\ UNCHANGED reasons
  ELSE /\ reasons' = reasons \cup (facts[p] \cap StateFacts)
       /\ unknown' = unknown \cup (facts[p] \cap UnknownFacts)
       /\ walk' = Append(under, [pou |-> p, rest |-> Callees(p)])

(* The target's own interface: in-out and shared fields are state, an      *)
(* instance or a pointer field is unknown.                                 *)
StartEffects(own) ==
  /\ gphase = "effects"
  /\ walk = <<>>
  /\ reasons' = (own \cup facts[1]) \cap StateFacts
  /\ unknown' = (own \cup facts[1]) \cap UnknownFacts
  /\ walk' = <<[pou |-> 1, rest |-> Callees(1)]>>
  /\ gphase' = "walk"
  /\ UNCHANGED <<graph, facts, goals>>

WalkCalls ==
  /\ gphase = "walk"
  /\ walk # <<>>
  /\ IF Last(walk).rest # <<>>
     THEN Inspect(Head(Last(walk).rest), [walk EXCEPT ![Len(walk)].rest = Tail(@)])
     ELSE walk' = Front(walk) /\ UNCHANGED <<reasons, unknown>>
  /\ UNCHANGED <<graph, facts, gphase, goals>>

Mode(temporal) ==
  IF reasons # {} \/ temporal THEN "multi_cycle"
  ELSE IF unknown # {} THEN "unknown" ELSE "single_cycle"

(* _bounded_prefixes: the first ones, and an even sample of the others     *)
(* that starts at another place for every task.                            *)
Kept(total, task, count) ==
  LET rest == total - Focused
      slots == MaxPrefixes - Focused IN
  IF total <= MaxPrefixes THEN [i \in 1..total |-> i]
  ELSE [i \in 1..MaxPrefixes |->
          IF i <= Focused THEN i
          ELSE Focused + 1 + (((i - Focused - 1) * count + task - 1) * rest) \div (slots * count)]

(***************************************************************************)
(* _planned_prefixes: how many prefixes of how many frames are planned for *)
(* a task. The shape of a task is what decides it: whether a condition, an *)
(* array bound reached over several cycles or an array guard applies, and  *)
(* the numbers of fields and literals to combine.                          *)
(***************************************************************************)
Cap(n, limit) == IF n < limit THEN n ELSE limit

Copies(frames, n) == [i \in 1..n |-> frames]

(* Ordered choices of four of the other Boolean fields.                    *)
Roles(bools) == IF bools < 5 THEN 0 ELSE (bools - 1) * (bools - 2) * (bools - 3) * (bools - 4)

BoundaryPrefixes(s) ==
  IF s.boundary THEN Copies(1 + Cap(s.elements + 3, 299), Cap(s.controls, 2) * 2^Cap(s.switches, 3))
  ELSE <<>>

GuardPrefixes(s) ==
  IF s.guarded THEN Copies(1 + Cap(s.elements + 2, 299), 1 + Cap(s.controls, 4) * Cap(s.literals, 4))
  ELSE <<>>

PlannedPrefixes(s) ==
  LET bools == Cap(s.bools, 6)
      plain == Copies(5, IF s.condition THEN 1 ELSE 0)
               \o BoundaryPrefixes(s) \o GuardPrefixes(s)
               \o Copies(2, s.ints * Cap(s.literals, 128))
               \o Copies(15, ((bools * (bools - 1)) \div 2) * Cap(3 * s.literals, 4))
               \o Copies(23, bools * Roles(bools) * Cap(3 * s.literals, 2))
  IN IF s.timers /\ plain # <<>> THEN [plain EXCEPT ![Len(plain)] = @ + 210] ELSE plain

(* The combined prefixes: every condition at once, with each literal and   *)
(* its neighbours in each integer field, under each mode of the Booleans.  *)
CombinedPrefixes(s, mode) ==
  Copies((IF mode = "multi_cycle" THEN 5 ELSE 1) + (IF s.timers THEN 210 ELSE 0),
         Cap(1 + 3 * Cap(s.ints, 4) * Cap(s.literals, 256), 96) * (Cap(s.bools, 6) + 2))

(* Unless state is known to survive a frame, the last frame of a planned   *)
(* prefix stands for all of it. The combined ones go to the array tasks,   *)
(* or to the first defect.                                                 *)
SeedPrefixes(s, mode, global) ==
  LET planned == PlannedPrefixes(s) IN
  [i \in DOMAIN planned |-> IF mode = "multi_cycle" THEN planned[i] ELSE 1]
  \o (IF global THEN CombinedPrefixes(s, mode) ELSE <<>>)

WriteGoals(temporal, count, s, arrays) ==
  /\ gphase = "walk"
  /\ walk = <<>>
  /\ gphase' = "written"
  /\ goals' = [i \in 1..count |->
       LET all == SeedPrefixes(s, Mode(temporal), arrays \/ i = 1)
           kept == Kept(Len(all), i, count) IN
       [mode |-> Mode(temporal),
        planned |-> Len(all),
        kept |-> kept,
        frames |-> [k \in DOMAIN kept |-> all[kept[k]]]]]
  /\ UNCHANGED <<graph, facts, walk, reasons, unknown>>

(***************************************************************************)
(* Properties.                                                             *)
(***************************************************************************)

Called(p) ==
  LET grow[k \in 0..Cardinality(Pous)] ==
        IF k = 0 THEN CalledBy(p)
        ELSE grow[k - 1] \cup {c[2] : c \in {d \in graph : d[1] \in grow[k - 1]}}
  IN grow[Cardinality(Pous)]

(* The walk over the calls (goal_tasks.py 62-101) finds the state of every *)
(* POU that the target can call, however deep, and reports a recursion     *)
(* exactly when the calls have one: a POU called from two places is not    *)
(* one. A target is single-cycle only if nothing it calls keeps state or   *)
(* is unknown.                                                             *)
EffectsAreComplete ==
  gphase = "written" =>
    LET reached == {1} \cup Called(1)
        known == reached \cap Pous IN
    /\ \A p \in known : facts[p] \cap StateFacts \subseteq reasons
    /\ "recursive" \in unknown <=> \E p \in known : p \in Called(p)
    /\ \A g \in Range(goals) : g.mode = "single_cycle" =>
         known = reached /\ \A p \in known : facts[p] = {}

=============================================================================
