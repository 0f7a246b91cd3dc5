----------------------------- MODULE PlanBatches -----------------------------
(***************************************************************************)
(* Plans of a language model before the search: the rounds of              *)
(* fuzzer/pipeline/plan_batches.py, the validation and the expansion of a  *)
(* plan (fuzzer/llm/plan.py) and the client with its cache and its budget  *)
(* (fuzzer/llm/client.py). The service may answer anything, late or not at *)
(* all; a plan is kept only if its native run shows something new.         *)
(***************************************************************************)
EXTENDS Integers, Sequences, FiniteSets, SequencesExt

-----------------------------------------------------------------------------
(* Testcases as text, fuzzer/corpus/frames.py, and how the target model    *)
(* builds one (fuzzer/pipeline/model.py). A testcase is a list of frames   *)
(* over the frame fields, with initial values of the shared fields; an     *)
(* in-out field is both. A text is the set of records that it holds, frame *)
(* by frame; a record may be missing, and its field then keeps the value   *)
(* of the frame before. Type tokens and time steps are left out. A value   *)
(* is the text of its record: what is read back is that text without the   *)
(* blanks at its ends, and a value that spans lines is read as more than   *)
(* one record. The target reads the text for itself.                       *)

CONSTANTS
  FrameFields,       \* fields of a frame, in-out fields included
  SharedFields,      \* fields with one value before the first frame
  DefaultOf(_),      \* the default of a field's type
  DomainOf(_),       \* _validate_value: the texts that fit a field
  Trimmed(_),       \* a text without the blanks at its ends
  SpansLines,        \* the texts with a line break in them
  Reread(_),         \* what parse_testcase makes of a testcase that holds one
  BoolFields,        \* the fields that may be pulsed
  Unset              \* the value that removes a field from a built frame

ASSUME FieldAssumption ==
  /\ BoolFields \subseteq FrameFields
  /\ \A f \in FrameFields : DefaultOf(f) \in DomainOf(f) /\ Unset \notin DomainOf(f)
  /\ \A f \in FrameFields : \A v \in DomainOf(f) : Trimmed(v) \in DomainOf(f)
  /\ \A f \in BoolFields : {"0", "1"} \subseteq DomainOf(f)

FormatError == [error |-> TRUE]

Over(new, old) == [f \in DOMAIN new \cup DOMAIN old |-> IF f \in DOMAIN new THEN new[f] ELSE old[f]]

Only(record, fields) == [f \in DOMAIN record \cap fields |-> record[f]]

Before(shared) == Over(Only(shared, FrameFields), [f \in FrameFields |-> DefaultOf(f)])

(* A frame after another one: a value that is not given is carried over.   *)
Merge(values, previous) ==
  Only(Over(values, previous), {f \in FrameFields : f \in DOMAIN values => values[f] # Unset})

Fits(record) == \A f \in DOMAIN record : record[f] \in DomainOf(f)

(* A frame that has a value for every field.                               *)
FullFrames == {r \in [FrameFields -> UNION {DomainOf(f) : f \in FrameFields}] : Fits(r)}

(* build_testcase: every frame is written in full.                         *)
BuildTestcase(frames, shared) ==
  LET merged[i \in 0..Len(frames)] ==
        IF i = 0 THEN Before(shared) ELSE Merge(frames[i], merged[i - 1]) IN
  IF /\ \A i \in DOMAIN frames : DOMAIN frames[i] \subseteq FrameFields
     /\ Fits(shared) /\ \A i \in DOMAIN frames : Fits(merged[i])
  THEN [error |-> FALSE, shared |-> shared, frames |-> [i \in DOMAIN frames |-> merged[i]]]
  ELSE FormatError

OneLineEach(record) == \A f \in DOMAIN record : record[f] \notin SpansLines

OneLine(text) == OneLineEach(text.shared) /\ \A i \in DOMAIN text.frames : OneLineEach(text.frames[i])

ReadRecord(record) == [f \in DOMAIN record |-> Trimmed(record[f])]

(* parse_testcase: a field that a frame leaves out keeps its value; a text *)
(* without frames is one frame.                                            *)
ParseTestcase(text) ==
  LET shared == ReadRecord(text.shared)
      full[i \in 0..Len(text.frames)] ==
        IF i = 0 THEN Before(shared) ELSE Over(ReadRecord(text.frames[i]), full[i - 1])
      frames == IF text.frames = <<>> THEN <<full[0]>>
                ELSE [i \in DOMAIN text.frames |-> full[i]] IN
  IF ~OneLine(text) THEN Reread(text)
  ELSE IF /\ DOMAIN shared \subseteq SharedFields /\ Fits(shared)
          /\ \A i \in DOMAIN text.frames : DOMAIN text.frames[i] \subseteq FrameFields
          /\ \A i \in DOMAIN frames : Fits(frames[i])
  THEN [error |-> FALSE, shared |-> shared, frames |-> frames]
  ELSE FormatError

(* Mutant: in-out fields are only written as initial values.               *)
ModelBuildShared(frames) ==
  BuildTestcase([i \in DOMAIN frames |-> Only(frames[i], FrameFields \ SharedFields)],
                IF frames = <<>> THEN <<>> ELSE Only(frames[1], SharedFields))

(* TargetModel.build: the shared fields of the first frame become the      *)
(* initial values; the others are dropped unless they are frame fields.    *)
ModelBuild(frames) ==
  BuildTestcase([i \in DOMAIN frames |-> Only(frames[i], FrameFields)],
                IF frames = <<>> THEN <<>> ELSE Only(frames[1], SharedFields))

-----------------------------------------------------------------------------
(* Plans, their cost and their expansion, and the rounds.                  *)

CONSTANTS
  PlanTasks,         \* the defect tasks that are offered
  Batches,           \* the answers that the service may give
  AcceptedOf(_),     \* _value_ok: the JSON values that a plan may give a field
  TextOf(_),         \* str of such a value; true and false are 1 and 0
  NoPriority,        \* a priority of null
  Run(_, _),         \* what the written frames show natively: [hits, state, distance, goal]
  FewFrames,         \* frames of a plan when the cycle effects are unknown
  ManyFrames,        \* bound: frames of any plan
  BatchSize, Rounds, \* plans asked for in a round, and rounds
  MaxCalls,          \* asked to the service
  TokenBudget,       \* tokens after which no round is started
  MaxTokens          \* bound: tokens of one answer

ASSUME PlanLimits ==
  /\ {BatchSize, Rounds, MaxCalls, TokenBudget, MaxTokens} \subseteq Nat
  /\ BatchSize > 0
  /\ ManyFrames \in Nat /\ FewFrames \in 1..ManyFrames

IsList(s) == s \in Seq(Range(s))

(* An answer is parsed as JSON: its lists are lists, and it has no other   *)
(* values than texts, numbers and Booleans where _value_ok accepts one.    *)
(* Bound: a repeat holds no repeat; the code takes eight levels of them.   *)
ASSUME AnswerAssumption ==
  /\ \A f \in FrameFields : \A v \in AcceptedOf(f) : TextOf(v) # Unset
  /\ \A batch \in Batches :
       /\ IsList(batch)
       /\ \A p \in Range(batch) :
            /\ IsList(p.body)
            /\ p.priority # NoPriority => p.priority \in Nat
            /\ \A a \in Range(p.body) : a.op = "repeat" =>
                 IsList(a.actions) /\ \A b \in Range(a.actions) : b.op # "repeat"

(* A run may be in no state of its task and at no distance from it; these  *)
(* are sets with at most one element.                                      *)
ASSUME RunAssumption ==
  \A t \in PlanTasks, n \in 1..ManyFrames : \A frames \in [1..n -> FullFrames] :
    \A x, y \in Run(t, frames).distance : x = y /\ x \in Int

VARIABLES
  step,        \* "start", "ask", "run", "done"
  maxFrames,   \* frames that one plan may have
  round, asked, tokens,
  late,        \* the planning deadline has passed
  cached,      \* rounds whose request a cache answers
  seen,        \* <<task, body>> accepted so far
  todo,        \* accepted plans of this round that have not run
  hits, states, best,  \* what native runs have shown so far
  seeds,       \* the seed files: [task, body, text]
  outcome      \* the planning summary

pvars == <<step, maxFrames, round, asked, tokens, late, cached, seen, todo,
           hits, states, best, seeds, outcome>>

(* What n steps make of a start.                                           *)
Iterate(Step(_, _), start, n) ==
  LET upto[i \in 0..n] == IF i = 0 THEN start ELSE Step(upto[i - 1], i) IN upto[n]

(***************************************************************************)
(* validate_plan and expand_plan                                           *)
(***************************************************************************)
SimpleCost(a) ==
  CASE a.op = "set" -> 1 [] a.op = "pulse" -> 2 [] OTHER -> a.frames

Total(costs) == Iterate(LAMBDA x, i : x + costs[i], 0, Len(costs))

Cost(a) ==
  IF a.op = "repeat"
  THEN a.times * Total([i \in DOMAIN a.actions |-> SimpleCost(a.actions[i])])
  ELSE SimpleCost(a)

LegalSimple(a) ==
  /\ a.op \in {"set", "pulse", "hold", "wait"}
  /\ a.op \in {"set", "hold"} => /\ DOMAIN a.inputs \subseteq FrameFields
                                 /\ \A f \in DOMAIN a.inputs : a.inputs[f] \in AcceptedOf(f)
  /\ a.op = "pulse" => a.input \in BoolFields
  /\ a.op \in {"hold", "wait"} => a.frames \in Nat \ {0}

Legal(a) ==
  IF a.op = "repeat" THEN /\ a.times \in 1..64
                          /\ a.actions # <<>>
                          /\ \A b \in Range(a.actions) : LegalSimple(b)
  ELSE LegalSimple(a)

Valid(plan) ==
  /\ plan.task \in PlanTasks
  /\ plan.metadata
  /\ plan.body # <<>>
  /\ \A a \in Range(plan.body) : Legal(a)
  /\ Total([i \in DOMAIN plan.body |-> Cost(plan.body[i])]) <= maxFrames

InText(inputs) == [f \in DOMAIN inputs |-> TextOf(inputs[f])]

Apply(done, a) ==
  LET now == IF a.op \in {"set", "hold"} THEN Over(InText(a.inputs), done.current)
             ELSE done.current IN
  IF a.op = "pulse"
  THEN [frames |-> done.frames \o <<[now EXCEPT ![a.input] = "0"], [now EXCEPT ![a.input] = "1"]>>,
        current |-> [now EXCEPT ![a.input] = "1"]]
  ELSE [frames |-> done.frames \o [k \in 1..SimpleCost(a) |-> now], current |-> now]

ApplyAll(done, actions) == Iterate(LAMBDA x, i : Apply(x, actions[i]), done, Len(actions))

ApplyAny(done, a) ==
  IF a.op = "repeat" THEN Iterate(LAMBDA x, i : ApplyAll(x, a.actions), done, a.times)
  ELSE Apply(done, a)

DefaultFrame == [f \in FrameFields |-> DefaultOf(f)]

Expand(body) ==
  Iterate(LAMBDA x, i : ApplyAny(x, body[i]), [frames |-> <<>>, current |-> DefaultFrame], Len(body)).frames

(***************************************************************************)
(* validate_plan_batch: valid plans are accepted one by one and what is    *)
(* wrong with another is reported; the same actions are accepted once per  *)
(* task. A plan with a list for the name of an operation or of an input    *)
(* ends it with a TypeError (237, 264): no plan of the answer is accepted  *)
(* then, and those before it are taken for duplicates from then on.        *)
(***************************************************************************)
FreshPlan(plan, before) == <<plan.task, plan.body>> \notin before

Judge(judged, p) ==
  IF judged.ended THEN judged
  ELSE IF p.task \in PlanTasks /\ ~p.named THEN [judged EXCEPT !.accepted = <<>>, !.ended = TRUE]
  ELSE IF Valid(p) /\ FreshPlan(p, judged.seen)
  THEN [seen |-> judged.seen \cup {<<p.task, p.body>>},
        accepted |-> Append(judged.accepted, p), ended |-> FALSE]
  ELSE judged

Judged(batch) ==
  Iterate(LAMBDA x, i : Judge(x, batch[i]),
          [seen |-> seen, accepted |-> <<>>, ended |-> FALSE], Len(batch))

(* sorted by priority, those of the same in their order; None compares     *)
(* with nothing.                                                           *)
Comparable(plans) == Len(plans) <= 1 \/ \A p \in Range(plans) : p.priority # NoPriority

Insert(plans, p) ==
  InsertAt(plans, 1 + Cardinality({i \in DOMAIN plans : plans[i].priority <= p.priority}), p)

ByPriority(plans) ==
  IF Len(plans) <= 1 THEN plans
  ELSE Iterate(LAMBDA x, i : Insert(x, plans[i]), <<>>, Len(plans))

(***************************************************************************)
(* run_plan_batches                                                        *)
(***************************************************************************)
MoreRounds == /\ ~late
              /\ round < Rounds /\ round < MaxCalls
              /\ tokens < TokenBudget
              /\ Len(seeds) < BatchSize

DefaultFrames == <<DefaultFrame>>

(* No service, no task or no call is a failed planning.                    *)
Unavailable ==
  /\ step = "start"
  /\ step' = "done"
  /\ outcome' = "failed"
  /\ UNCHANGED <<maxFrames, round, asked, tokens, late, cached, seen, todo,
                 hits, states, best, seeds>>

(* The default frame is run once; when that fails nothing is known.        *)
Baseline(ok) ==
  /\ step = "start"
  /\ PlanTasks # {} /\ MaxCalls > 0
  /\ step' = "ask"
  /\ IF ok
     THEN /\ hits' = Run(CHOOSE t \in PlanTasks : TRUE, DefaultFrames).hits
          /\ states' = UNION {Run(t, DefaultFrames).state : t \in PlanTasks}
          /\ best' = [t \in {u \in PlanTasks : Run(u, DefaultFrames).distance # {}} |->
                       CHOOSE d \in Run(t, DefaultFrames).distance : TRUE]
     ELSE UNCHANGED <<hits, states, best>>
  /\ UNCHANGED <<maxFrames, round, asked, tokens, late, cached, seen, todo, seeds, outcome>>

(* The answer is judged; when its accepted plans cannot be put in order    *)
(* (229, outside the try), planning ends there and the campaign with it.   *)
Answer(batch) ==
  LET judged == IF Len(batch) \in 1..BatchSize THEN Judged(batch)
                ELSE [seen |-> seen, accepted |-> <<>>] IN
  /\ seen' = judged.seen
  /\ IF Comparable(judged.accepted)
     THEN step' = "run" /\ todo' = ByPriority(judged.accepted) /\ UNCHANGED outcome
     ELSE step' = "done" /\ outcome' = "error" /\ UNCHANGED todo

(* LlmClient.complete: a cached answer costs no call; otherwise the budget *)
(* of asked is checked, and the request is retried until it succeeds, the  *)
(* retries are used up or the deadline passes.                             *)
AskCached(batch, used) ==
  /\ step = "ask" /\ MoreRounds
  /\ round + 1 \in cached
  /\ round' = round + 1
  /\ tokens' = tokens + used
  /\ Answer(batch)
  /\ UNCHANGED <<maxFrames, asked, late, cached, hits, states, best, seeds>>

AskService(batch, used) ==
  /\ step = "ask" /\ MoreRounds
  /\ round + 1 \notin cached
  /\ asked < MaxCalls
  /\ round' = round + 1
  /\ asked' = asked + 1
  /\ tokens' = tokens + used
  /\ Answer(batch)
  /\ UNCHANGED <<maxFrames, late, cached, hits, states, best, seeds>>

AskFails ==
  /\ step = "ask" /\ MoreRounds
  /\ round + 1 \notin cached
  /\ round' = round + 1
  /\ step' = "run"
  /\ UNCHANGED <<maxFrames, asked, tokens, late, cached, seen, todo, hits, states, best, seeds, outcome>>

Gain(task, seenRun) ==
  \/ seenRun.goal
  \/ seenRun.hits \ hits # {}
  \/ seenRun.state \ states # {}
  \/ \E d \in seenRun.distance : task \in DOMAIN best /\ d < best[task]

Nearest(task, distance) ==
  IF task \in DOMAIN best /\ best[task] < distance THEN best[task] ELSE distance

(* A plan is expanded, built and run; it becomes a seed file if it showed  *)
(* something new. A value that the first check lets through may not fit    *)
(* (BOOL 1.0, REAL NaN), or not be read back: the plan is turned away.     *)
RunPlan ==
  /\ step = "run" /\ todo # <<>> /\ ~late
  /\ LET plan == Head(todo)
         frames == Expand(plan.body)
         text == ModelBuild(frames)
         seenRun == Run(plan.task, text.frames) IN
     /\ Len(frames) <= maxFrames
     /\ ~text.error /\ ~ParseTestcase(text).error
     /\ IF Gain(plan.task, seenRun)
        THEN /\ seeds' = Append(seeds, [task |-> plan.task, body |-> plan.body, text |-> text])
             /\ hits' = hits \cup seenRun.hits
             /\ states' = states \cup seenRun.state
             /\ best' = IF seenRun.distance = {} THEN best
                        ELSE Over([t \in {plan.task} |->
                                     Nearest(t, CHOOSE d \in seenRun.distance : TRUE)], best)
        ELSE UNCHANGED <<seeds, hits, states, best>>
  /\ todo' = Tail(todo)
  /\ UNCHANGED <<step, maxFrames, round, asked, tokens, late, cached, seen, outcome>>

(* The plan could not be built, its run failed or timed out, its deadline  *)
(* was over or its file was not written: nothing is kept.                  *)
RunPlanFails ==
  /\ step = "run" /\ todo # <<>>
  /\ todo' = Tail(todo)
  /\ UNCHANGED <<step, maxFrames, round, asked, tokens, late, cached, seen, hits, states, best, seeds, outcome>>

EndRound ==
  /\ step = "run" /\ todo = <<>>
  /\ step' = "ask"
  /\ UNCHANGED <<maxFrames, round, asked, tokens, late, cached, seen, todo, hits, states, best, seeds, outcome>>

EndPlanning ==
  /\ step = "ask" /\ ~MoreRounds
  /\ step' = "done"
  /\ outcome' = IF seeds = <<>> THEN "failed" ELSE "useful"
  /\ UNCHANGED <<maxFrames, round, asked, tokens, late, cached, seen, todo, hits, states, best, seeds>>

DeadlinePasses ==
  /\ step \in {"ask", "run"} /\ ~late
  /\ late' = TRUE
  /\ UNCHANGED <<step, maxFrames, round, asked, tokens, cached, seen, todo, hits, states, best, seeds, outcome>>

InitBatches ==
  /\ step = "idle"
  /\ maxFrames = 0
  /\ round = 0 /\ asked = 0 /\ tokens = 0
  /\ late = FALSE
  /\ cached = {}
  /\ seen = {} /\ todo = <<>>
  /\ hits = {} /\ states = {} /\ best = <<>>
  /\ seeds = <<>>
  /\ outcome = "none"

NextBatches ==
  \/ Unavailable \/ \E ok \in BOOLEAN : Baseline(ok)
  \/ \E batch \in Batches, used \in 0..MaxTokens : AskCached(batch, used) \/ AskService(batch, used)
  \/ AskFails \/ RunPlan \/ RunPlanFails \/ EndRound \/ EndPlanning \/ DeadlinePasses

(***************************************************************************)
(* Properties.                                                             *)
(***************************************************************************)

Shown(i) == Run(seeds[i].task, seeds[i].text.frames)

(* Closer to its task than the default frame or an earlier seed was, and   *)
(* than every earlier seed of the task.                                    *)
Closer(i, d) ==
  /\ \A j \in 1..(i - 1) : seeds[j].task = seeds[i].task => \A e \in Shown(j).distance : d < e
  /\ \/ \E e \in Run(seeds[i].task, DefaultFrames).distance : d < e
     \/ \E j \in 1..(i - 1) : seeds[j].task = seeds[i].task /\ Shown(j).distance # {}

(* A plan that is accepted expands to some frames and to no more than the  *)
(* limit, as its cost was reckoned (plan.py 232-289 against 373-407). A    *)
(* seed file holds, with its shared and in-out fields, what its plan asked *)
(* for (model.py 217-256), and only values that fit; what the pipeline     *)
(* reads of it is the same up to the blanks at the ends of its values      *)
(* (frames.py 72), unless a value spans lines. And each earned its place:  *)
(* it hits the goal, a probe that no seed before it hit, or is in a state  *)
(* that none was in, or is closer to its task (plan_batches.py 256-287),   *)
(* whatever rounds, duplicates, failed runs and plans that were turned     *)
(* away were in between.                                                   *)
SeedsAreGains ==
  /\ \A p \in Range(todo) : Len(Expand(p.body)) \in 1..maxFrames
  /\ \A i \in DOMAIN seeds :
       LET text == seeds[i].text IN
       /\ text.frames = Expand(seeds[i].body)
       /\ \A k \in DOMAIN text.frames : Fits(text.frames[k])
       /\ OneLine(text) =>
            ParseTestcase(text).frames = [k \in DOMAIN text.frames |-> ReadRecord(text.frames[k])]
       /\ \/ Shown(i).goal
          \/ \E h \in Shown(i).hits : \A j \in 1..(i - 1) : h \notin Shown(j).hits
          \/ \E q \in Shown(i).state : \A j \in 1..(i - 1) : q \notin Shown(j).state
          \/ \E d \in Shown(i).distance : Closer(i, d)
=============================================================================
