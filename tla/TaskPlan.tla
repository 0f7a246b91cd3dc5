------------------------------ MODULE TaskPlan ------------------------------
(***************************************************************************)
(* The semantic task planner of fuzzer/semantic/planning.py, for one POU.  *)
(* Its state-transition graph is searched for paths from the entry to each *)
(* target; a path becomes a list of waypoints, and every target that is    *)
(* worth a search becomes a task.                                          *)
(*                                                                         *)
(* Nodes are numbers, ordered as their identifiers are; an edge is the     *)
(* pair it joins; a target is its place in the POU's list of targets.      *)
(* Expressions, digests and the wording of a plan are left out.            *)
(***************************************************************************)
EXTENDS Integers, Sequences, FiniteSets, SequencesExt

CONSTANTS
  N,                \* nodes of the graph; node 1 is its entry
  TargetLists,      \* the lists of targets a graph may come with
  EdgeKind(_),      \* "evaluation", "temporal" or "other"
  EdgeModel(_),     \* how exactly an edge's effect is modelled, 0 exact .. 2 opaque
  Writes(_),        \* the symbols that an edge's transfer writes
  Persistent,       \* the symbols that outlive a cycle
  MaxPaths,         \* paths wanted for a violation
  MaxGuidePaths,    \* paths wanted for an exploration
  MaxExpansions     \* edges examined in one search

ASSUME SearchLimits ==
  /\ N \in Nat \ {0}
  /\ {MaxPaths, MaxGuidePaths, MaxExpansions} \subseteq Nat \ {0}

Node == 1..N
Entry == 1
GuideKinds == {"cycle", "branch", "transfer", "reach"}
TerminalKinds == {"violation", "property"}
Modeling == 0..2

(* A target is of one of the kinds, at a node of the graph, and needs      *)
(* finitely many symbols.                                                  *)
ASSUME TargetAssumption ==
  \A list \in TargetLists :
    /\ list \in Seq([kind : GuideKinds \cup TerminalKinds, node : Node,
                     edges : SUBSET (Node \X Node), mapped : BOOLEAN,
                     modeling : Modeling, needs : SUBSET STRING])
    /\ \A t \in DOMAIN list : IsFiniteSet(list[t].needs)

VARIABLES
  arcs,       \* the edges of the graph
  targets,    \* the targets of the POU
  phase,      \* "components", "search", "planned"
  index,      \* number of a node in the order of visits, 0 before its visit
  low,        \* its low link
  stack,      \* Tarjan's stack
  calls,      \* the active calls of visit(), innermost last
  comps,      \* the components found
  place,      \* the target whose task is built: terminals first, then guides
  queue,      \* path prefixes to extend
  found,      \* paths found for this target
  spent,      \* edges examined for this target
  cut,        \* why the search stopped early, if it did
  tasks       \* the tasks of the plan, in the order they were made

tarjan == <<index, low, stack, calls, comps>>
search == <<queue, found, spent, cut>>
planVars == <<arcs, targets, phase, tarjan, place, search, tasks>>

Min2(a, b) == IF a < b THEN a ELSE b

Successors(n) == {m \in Node : <<n, m>> \in arcs}

Adjacency(n) ==
  CHOOSE s \in [1..Cardinality(Successors(n)) -> Successors(n)] :
    \A i, j \in DOMAIN s : i < j => s[i] < s[j]

(***************************************************************************)
(* strongly_connected_components                                           *)
(***************************************************************************)
Enter(n, under) ==
  LET number == Cardinality({m \in Node : index[m] > 0}) + 1 IN
  /\ index' = [index EXCEPT ![n] = number]
  /\ low' = [low EXCEPT ![n] = number]
  /\ stack' = Append(stack, n)
  /\ calls' = Append(under, [node |-> n, rest |-> Adjacency(n)])
  /\ UNCHANGED comps

VisitNext ==
  /\ calls = <<>>
  /\ \E n \in Node : /\ index[n] = 0
                     /\ \A m \in Node : index[m] = 0 => n <= m
                     /\ Enter(n, <<>>)

LookBack(n, m) ==
  /\ index[m] > 0
  /\ low' = [low EXCEPT ![n] = IF m \in Range(stack) THEN Min2(low[n], index[m])
                               ELSE low[n]]

Examine ==
  /\ calls # <<>>
  /\ LET top == Last(calls)
         under == [calls EXCEPT ![Len(calls)].rest = Tail(top.rest)] IN
     /\ top.rest # <<>>
     /\ \/ /\ index[Head(top.rest)] = 0
           /\ Enter(Head(top.rest), under)
        \/ /\ LookBack(top.node, Head(top.rest))
           /\ calls' = under
           /\ UNCHANGED <<index, stack, comps>>

Return ==
  /\ calls # <<>>
  /\ LET n == Last(calls).node
         up == Front(calls)
         at == CHOOSE i \in DOMAIN stack : stack[i] = n IN
     /\ Last(calls).rest = <<>>
     /\ calls' = up
     /\ low' = IF up = <<>> THEN low
               ELSE [low EXCEPT ![Last(up).node] = Min2(low[Last(up).node], low[n])]
     /\ IF low[n] = index[n]
        THEN /\ comps' = comps \cup {Range(SubSeq(stack, at, Len(stack)))}
             /\ stack' = SubSeq(stack, 1, at - 1)
        ELSE UNCHANGED <<comps, stack>>
     /\ UNCHANGED index

Components ==
  /\ phase = "components"
  /\ VisitNext \/ Examine \/ Return
  /\ UNCHANGED <<arcs, targets, phase, place, search, tasks>>

ComponentOf(n) == CHOOSE c \in comps : n \in c

(***************************************************************************)
(* The targets in the order of _build_pou: every terminal, then every      *)
(* guide target that no violation path has claimed.                        *)
(***************************************************************************)
IsTerminal(t) == targets[t].kind \in TerminalKinds

Exploring == place > Len(targets)

Current == IF Exploring THEN place - Len(targets) ELSE place

Claimed == UNION {Range(p) : p \in UNION {Range(tasks[i].paths) :
                             i \in {j \in DOMAIN tasks : tasks[j].kind = "violation"}}}

(* A hazard whose violation has no probe is still worth reaching.          *)
PairedUnmapped(t) ==
  /\ targets[t].kind = "reach"
  /\ \E u \in DOMAIN targets : /\ targets[u].kind = "violation"
                               /\ targets[u].node = targets[t].node
                               /\ ~targets[u].mapped

Wanted(t) ==
  IF Exploring THEN /\ targets[t].kind \in GuideKinds
                    /\ t \notin Claimed \/ PairedUnmapped(t)
  ELSE IsTerminal(t)

FreshSearch ==
  /\ queue' = <<<<Entry>>>>
  /\ found' = <<>>
  /\ spent' = 0
  /\ cut' = {}

BeginSearch ==
  /\ phase = "components"
  /\ calls = <<>>
  /\ \A n \in Node : index[n] > 0
  /\ phase' = IF targets = <<>> THEN "planned" ELSE "search"
  /\ FreshSearch
  /\ UNCHANGED <<arcs, targets, tarjan, place, tasks>>

Skip ==
  /\ phase = "search"
  /\ ~Wanted(Current)
  /\ IF place = 2 * Len(targets) THEN phase' = "planned" /\ UNCHANGED place
     ELSE place' = place + 1 /\ UNCHANGED phase
  /\ UNCHANGED <<arcs, targets, tarjan, search, tasks>>

(***************************************************************************)
(* bounded_paths: breadth first; a path visits no node twice and enters no *)
(* component twice; an examined edge costs one expansion, even a rejected. *)
(***************************************************************************)
PathLimit == IF Exploring THEN MaxGuidePaths ELSE MaxPaths
Searching == queue # <<>> /\ Len(found) < PathLimit /\ "expansion_budget" \notin cut
NodeLimit == LET n == N + Cardinality(comps) IN IF n < 2 THEN 2 ELSE n

Admissible(path, m) ==
  /\ m \notin Range(path)
  /\ ComponentOf(m) # ComponentOf(Last(path)) =>
       \A n \in Range(path) : ComponentOf(n) # ComponentOf(m)

Extensions(path, next) ==
  LET upto[i \in 0..Len(next)] ==
        IF i = 0 THEN <<>>
        ELSE IF Admissible(path, next[i]) THEN Append(upto[i - 1], Append(path, next[i]))
        ELSE upto[i - 1]
  IN upto[Len(next)]

Pop ==
  /\ phase = "search"
  /\ Wanted(Current)
  /\ Searching
  /\ LET path == Head(queue)
         next == Adjacency(Last(path))
         seen == Min2(Len(next), MaxExpansions - spent) IN
     IF Last(path) = targets[Current].node
     THEN /\ found' = Append(found, path)
          /\ queue' = Tail(queue)
          /\ UNCHANGED <<spent, cut>>
     ELSE IF Len(path) >= NodeLimit
     THEN /\ cut' = IF Range(next) \subseteq Range(path) THEN cut ELSE cut \cup {"node_limit"}
          /\ queue' = Tail(queue)
          /\ UNCHANGED <<found, spent>>
     ELSE /\ spent' = spent + seen
          /\ queue' = Tail(queue) \o Extensions(path, SubSeq(next, 1, seen))
          /\ cut' = IF seen < Len(next) THEN cut \cup {"expansion_budget"} ELSE cut
          /\ UNCHANGED found
  /\ UNCHANGED <<arcs, targets, phase, tarjan, place, tasks>>

PathEdges(path) == {<<path[i], path[i + 1]>> : i \in 1..(Len(path) - 1)}

(* Mutant: a full list of paths is taken for a complete one.               *)
ReasonsFull == cut

Reasons ==
  cut \cup (IF queue # <<>> /\ Len(found) >= PathLimit THEN {"path_limit"} ELSE {})

(***************************************************************************)
(* _path_targets: the guide targets met along a path, the terminal last;   *)
(* a violation is preceded by the reach target of its node.                *)
(***************************************************************************)
KindOrder(k) == CASE k = "cycle" -> 0 [] k = "branch" -> 1 [] k = "transfer" -> 2
                  [] k = "reach" -> 3 [] OTHER -> 4

SortKey(t, u) ==
  \/ KindOrder(targets[t].kind) < KindOrder(targets[u].kind)
  \/ KindOrder(targets[t].kind) = KindOrder(targets[u].kind) /\ t < u

Guides(n, edges, t) ==
  {u \in DOMAIN targets \ {t} :
     /\ targets[u].node = n
     /\ targets[u].kind \in GuideKinds
     /\ targets[u].edges = {} \/ targets[u].edges \cap edges # {}}

TargetsAt(n, edges, t) ==
  CHOOSE s \in [1..Cardinality(Guides(n, edges, t)) -> Guides(n, edges, t)] :
    \A i, j \in DOMAIN s : i < j => SortKey(s[i], s[j])

PathTargets(path, t) ==
  LET upto[i \in 0..Len(path)] ==
        IF i = 0 THEN <<>> ELSE upto[i - 1] \o TargetsAt(path[i], PathEdges(path), t)
  IN Append(upto[Len(path)], t)

Reaches(t) == {u \in DOMAIN targets : targets[u].kind = "reach" /\ targets[u].node = targets[t].node}

HazardReach(t) == CHOOSE u \in Reaches(t) : \A v \in Reaches(t) : u <= v

Waypoints(path, t) ==
  LET ids == PathTargets(path, t) IN
  IF /\ ~Exploring
     /\ targets[t].kind = "violation"
     /\ Reaches(t) # {}
     /\ HazardReach(t) \notin Range(ids)
  THEN Front(ids) \o <<HazardReach(t), t>>
  ELSE ids

(***************************************************************************)
(* _task: what a task asks for, gathered over the edges of all its paths.  *)
(***************************************************************************)
Obligations(edges) ==
  {e \in edges : /\ EdgeKind(e) = "evaluation"
                 /\ \E u \in DOMAIN targets : e \in targets[u].edges \/ targets[u].node = e[2]}

Transfers(edges, t) ==
  {e \in edges : Writes(e) \cap (targets[t].needs \cup Persistent) # {}}

TemporalRequirements(t) ==
  IF targets[t].needs \cap Persistent # {} THEN {e \in arcs : EdgeKind(e) = "temporal"} ELSE {}

ModelingMax(values) == CHOOSE m \in values : \A k \in values : k <= m

InitialState(t, paths) ==
  IF ~targets[t].mapped THEN "unmapped" ELSE IF paths = <<>> THEN "blocked" ELSE "ready"

(* The target an obligation is about: one that names the edge goes before  *)
(* one that is at the node the edge leads to.                              *)
Obliged(e) ==
  LET naming == {u \in DOMAIN targets : e \in targets[u].edges}
      there == {u \in DOMAIN targets : targets[u].node = e[2]}
      fit == IF naming # {} THEN naming ELSE there
  IN CHOOSE u \in fit : \A v \in fit : u <= v

(* The waypoints of a task are those of its path with the fewest.          *)
Ordered(paths) ==
  IF paths = <<>> THEN <<>>
  ELSE CHOOSE p \in Range(paths) : \A q \in Range(paths) : Len(p) <= Len(q)

Prerequisites(t) ==
  IF targets[t].kind = "violation" /\ Reaches(t) # {} THEN {HazardReach(t)} ELSE {}

Task(t) ==
  LET edges == UNION {PathEdges(p) : p \in Range(found)}
      paths == [i \in DOMAIN found |-> Waypoints(found[i], t)] IN
  [target |-> t,
   kind |-> IF Exploring THEN "exploration" ELSE "violation",
   paths |-> paths,
   waypoints |-> Ordered(paths),
   control |-> {<<Obliged(e), e>> : e \in Obligations(edges)},
   data |-> targets[t].needs,
   transfers |-> Transfers(edges, t),
   before |-> Prerequisites(t),
   unlocked |-> (UNION {Range(p) : p \in Range(paths)}) \ {t},
   nodes |-> found,
   truncated |-> Reasons # {},
   temporal |-> TemporalRequirements(t) # {},
   modeling |-> ModelingMax({targets[t].modeling} \cup
                  {EdgeModel(e) : e \in Obligations(edges) \cup Transfers(edges, t)
                                        \cup TemporalRequirements(t)}),
   state |-> InitialState(t, paths)]

AddTask ==
  /\ phase = "search"
  /\ Wanted(Current)
  /\ ~Searching
  /\ tasks' = Append(tasks, Task(Current))
  /\ FreshSearch
  /\ IF place = 2 * Len(targets) THEN phase' = "planned" /\ UNCHANGED place
     ELSE place' = place + 1 /\ UNCHANGED phase
  /\ UNCHANGED <<arcs, targets, tarjan>>

InitPlan ==
  /\ arcs \in SUBSET (Node \X Node)
  /\ targets \in TargetLists
  /\ phase = "components"
  /\ index = [n \in Node |-> 0]
  /\ low = [n \in Node |-> 0]
  /\ stack = <<>>
  /\ calls = <<>>
  /\ comps = {}
  /\ place = 1
  /\ queue = <<>>
  /\ found = <<>>
  /\ spent = 0
  /\ cut = {}
  /\ tasks = <<>>

NextPlan == Components \/ BeginSearch \/ Skip \/ Pop \/ AddTask

(***************************************************************************)
(* Properties.                                                             *)
(***************************************************************************)

(* Reference: the paths to a node that visit no node twice.                *)
SimplePaths(m) ==
  {p \in UNION {[1..k -> Node] : k \in 1..N} :
     /\ p[1] = Entry /\ p[Len(p)] = m
     /\ \A i, j \in DOMAIN p : p[i] = p[j] => i = j
     /\ PathEdges(p) \subseteq arcs}

(* A search that is not marked as truncated has found every path: the      *)
(* docstring's "distinguish an incomplete search from proven               *)
(* unreachability" (planning.py 191). A blocked task that is not truncated *)
(* has a target that cannot be reached, and no task lists a path that the  *)
(* graph does not have.                                                    *)
SearchIsHonest ==
  phase # "over" => \A i \in DOMAIN tasks :
    LET all == SimplePaths(targets[tasks[i].target].node) IN
    /\ Range(tasks[i].nodes) \subseteq all
    /\ ~tasks[i].truncated => Range(tasks[i].nodes) = all

(* No target of the graph is left without a task: when the plan is done,   *)
(* each is the target of a task or a waypoint of one (planning.py          *)
(* 711-726). A reach target whose violation has no probe has a task of its *)
(* own, for the violation's task will never run.                           *)
NoTargetForgotten ==
  phase = "planned" =>
    \A t \in DOMAIN targets :
      /\ \E i \in DOMAIN tasks : tasks[i].target = t \/ \E p \in Range(tasks[i].paths) : t \in Range(p)
      /\ PairedUnmapped(t) => \E i \in DOMAIN tasks : tasks[i].target = t

(* The plan says all there is about every target: see the two parts.       *)
PlanIsComplete == SearchIsHonest /\ NoTargetForgotten
=============================================================================
