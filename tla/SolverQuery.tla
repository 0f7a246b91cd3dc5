----------------------------- MODULE SolverQuery -----------------------------
(***************************************************************************)
(* One symbolic query, compiler/symbolic/solver.py and driver.py: a driver *)
(* that starts the target cold or replays a prefix, frames whose requested *)
(* fields are symbolic, KLEE, and a native cold replay of what KLEE found. *)
(* The run has its own copy of the bundle. No caller starts a query from a *)
(* state file, so that is left out. KLEE is external: it answers from      *)
(* exact models what the program does, and anything from others.           *)
(***************************************************************************)
EXTENDS SymbolicBuild

CONSTANTS
  Fields,      \* inputs of the target
  KindOf,      \* "scalar", "real", "string", "wide": wide arrays cannot be symbolic
  Requests,    \* queries: [id, start, symbolic, base, window, stops]
  MaxQueries   \* bound: queries of the run

VARIABLES
  bundle,      \* the run's copy: [v, manifest, refusal, approximate, contract]
  query,       \* the request that is answered
  scope,       \* [symbolic, concretized, imprecise]
  workdir,     \* per query id: runs that klee-out holds as goals and as tests
  log,         \* of KLEE: "all" paths, a search cut short "partly", or "none"
  candidate,   \* frames of the testcase that was written
  answer,      \* [status, candidate] of the query, status "none" before
  asked, qphase

qvars == <<bundle, query, scope, workdir, log, candidate, answer, asked, qphase>>

Value == 0..1     \* of a text: 0 is printable, 1 has another byte
NotFinite == 2    \* a symbolic float that the frame format cannot hold
Frame == [Fields -> Value]
(* The driver assumes that the bytes of a symbolic text are printable.     *)
RawValue(f) == CASE KindOf[f] = "real" -> Value \cup {NotFinite}
                 [] KindOf[f] = "string" -> {0}
                 [] OTHER -> Value

ASSUME RequestsAssumption ==
  \A r \in Requests : r.base \in Frame /\ r.window \in Nat /\ r.stops \in BOOLEAN

NoScope == [symbolic |-> {}, concretized |-> {}, imprecise |-> {}]
NoOut == [goals |-> {}, tests |-> {}]
NoAnswer == [status |-> "none", candidate |-> <<>>]

InitQuery ==
  /\ bundle = [v |-> 0, manifest |-> NoManifest, refusal |-> "none", approximate |-> FALSE,
               contract |-> "not built"]
  /\ query \in {r \in Requests : \A s \in Requests : r.id <= s.id}
  /\ scope = NoScope
  /\ workdir = [i \in {r.id : r \in Requests} |-> NoOut]
  /\ log = "none" /\ candidate = <<>> /\ answer = NoAnswer
  /\ asked = 0 /\ qphase = "off"

(***************************************************************************)
(* What the program does (external)                                        *)
(***************************************************************************)
Agrees(frame) == \A f \in DOMAIN prog.need : frame[f] = prog.need[f]

(* The goal is met by a frame, for some programs only after the prefix.    *)
Meets(prefixed, frames) ==
  /\ prog.after => prefixed
  /\ \E i \in DOMAIN frames : Agrees(frames[i])

(* The runs that differ from the base in the given fields.                 *)
RawFrames(fields) ==
  {r \in [Fields -> Value \cup {NotFinite}] :
     \A f \in Fields : IF f \in fields THEN r[f] \in RawValue(f) ELSE r[f] = query.base[f]}
RawRuns(fields) == [1..query.window -> RawFrames(fields)]

Prefixed == query.start = "prefix"

(* The functions that a run may call: what the functions in every set that *)
(* has the entry and is closed under calls do call.                        *)
Functions == {"f"} \cup {c[1] : c \in prog.calls} \cup {c[2] : c \in prog.calls}
ClosedUnderCalls(s) == "f" \in s /\ \A c \in prog.calls : c[1] \in s => c[2] \in s
Runs(n) == \A s \in SUBSET Functions : ClosedUnderCalls(s) => n \in s
Reached == {c[2] : c \in {d \in prog.calls : Runs(d[1])}}

(* KLEE explores what the native target does: the bitcode is of its build, *)
(* the models are exact, and the driver does not end before the symbolic   *)
(* frames, as it does when shared records, the base frame or in-out        *)
(* storage are refused (2) or a prefix step fails (3).                     *)
Exact ==
  /\ bundle.v = version /\ ~query.stops
  /\ Reached \cap Approximate = {} /\ prog.hidden = {} /\ ~bundle.approximate
  /\ \A f \in scope.symbolic : KindOf[f] # "real"

(***************************************************************************)
(* run_query                                                               *)
(***************************************************************************)
Answer(status, frames) ==
  /\ answer' = [status |-> status, candidate |-> frames]
  /\ qphase' = "answered"

KeepQuery == UNCHANGED <<bundle, query, asked>>

(* symbolic_scope: an array that is too wide keeps its base value.         *)
SymbolicScope(requested) ==
  LET can == {f \in requested : KindOf[f] # "wide"} IN
  [symbolic |-> can, concretized |-> requested \ can, imprecise |-> {}]

Ask(r) ==
  /\ qphase \in {"ready", "answered"} /\ asked < MaxQueries
  /\ query' = r /\ asked' = asked + 1
  /\ scope' = SymbolicScope(r.symbolic)
  /\ log' = "none" /\ candidate' = <<>> /\ answer' = NoAnswer
  /\ qphase' = "check"
  /\ UNCHANGED <<bundle, workdir>>

Refused == bundle.refusal # "none" \/ bundle.manifest.v = 0

CheckBundle ==
  /\ qphase = "check"
  /\ IF Refused
     THEN Answer(CASE bundle.refusal = "failed" -> "FAILED"
                   [] bundle.refusal = "timeout" -> "TIMEOUT"
                   [] OTHER -> "UNSUPPORTED", <<>>)
     ELSE qphase' = "driver" /\ UNCHANGED answer
  /\ UNCHANGED <<scope, workdir, log, candidate>> /\ KeepQuery

(* The compiler of the driver, the linker and KLEE itself.                 *)
ToolOfQueryFails ==
  /\ qphase \in {"driver", "link", "klee"}
  /\ \E status \in {"UNSUPPORTED", "FAILED", "TIMEOUT"} : Answer(status, <<>>)
  /\ UNCHANGED <<scope, workdir, log, candidate>> /\ KeepQuery

CompileDriver ==
  /\ qphase = "driver" /\ qphase' = "link"
  /\ UNCHANGED <<scope, workdir, log, candidate, answer>> /\ KeepQuery

ClearOutput(w) == [w EXCEPT ![query.id] = NoOut]

LinkQuery ==
  /\ qphase = "link" /\ bundle.v > 0
  /\ workdir' = ClearOutput(workdir)
  /\ qphase' = "precision"
  /\ UNCHANGED <<scope, log, candidate, answer>> /\ KeepQuery

(* Everything that makes an answer without a goal worthless is collected.  *)
CollectImprecise ==
  /\ qphase = "precision" /\ qphase' = "klee"
  /\ scope' = [scope EXCEPT !.imprecise =
       bundle.manifest.imprecise \cup scope.concretized
         \cup {f \in scope.symbolic : KindOf[f] = "real"}]
  /\ UNCHANGED <<workdir, log, candidate, answer>> /\ KeepQuery

(* KLEE writes tests, and a goal with its test when it meets one. Its log  *)
(* counts the completed paths, also when time or memory cut the search     *)
(* short. Calls of models that were only met on the way are in it.         *)
RunKlee ==
  /\ qphase = "klee" /\ qphase' = "results"
  /\ LET runs == RawRuns(scope.symbolic)
         good == {r \in runs : Meets(Prefixed, r)} IN
     \E goals \in SUBSET runs, tests \in SUBSET runs, done \in {"all", "partly", "none"} :
       /\ Cardinality(goals) <= 1 /\ Cardinality(tests) <= 1
       /\ Exact => goals \subseteq good /\ (done = "all" => (goals = {} <=> good = {}))
       /\ workdir' = [workdir EXCEPT ![query.id] =
                        [goals |-> @.goals \cup goals, tests |-> @.tests \cup tests]]
       /\ log' = done
  /\ scope' = [scope EXCEPT !.imprecise = @ \cup prog.hidden]
  /\ UNCHANGED <<candidate, answer>> /\ KeepQuery

Out == workdir[query.id]

(* Mutant: an approximate contract does not count.                         *)
ModelsOnly == scope.imprecise # {}

ApproximateModel == scope.imprecise # {} \/ bundle.approximate

(* The words "completed paths" are looked for in the log, whatever follows *)
(* or precedes them.                                                       *)
NoGoalStatus == IF log # "none" /\ ~ApproximateModel THEN "UNSAT" ELSE "UNKNOWN"

(* A float that is no number falls back to the value of the base.          *)
FieldFromObjects(r) ==
  [f \in Fields |-> IF r[f] = NotFinite THEN query.base[f] ELSE r[f]]
Testcase(r) == [i \in DOMAIN r |-> FieldFromObjects(r[i])]

(* Without a goal the tests are seeds for the fuzzer.                      *)
NoGoal ==
  /\ qphase = "results" /\ Out.goals = {}
  /\ \/ Out.tests = {} /\ candidate' = <<>> /\ Answer(NoGoalStatus, <<>>)
     \/ \E r \in Out.tests : candidate' = Testcase(r) /\ Answer(NoGoalStatus, Testcase(r))
  /\ UNCHANGED <<scope, workdir, log>> /\ KeepQuery

(* A goal whose test is missing or unreadable is no answer.                *)
TakeGoal ==
  /\ qphase = "results" /\ Out.goals # {}
  /\ \/ \E r \in Out.goals : candidate' = Testcase(r) /\ qphase' = "replay" /\ UNCHANGED answer
     \/ Answer("UNKNOWN", <<>>) /\ UNCHANGED candidate
  /\ UNCHANGED <<scope, workdir, log>> /\ KeepQuery

ReplayTimeout ==
  /\ qphase = "replay"
  /\ Answer("TIMEOUT", candidate)
  /\ UNCHANGED <<scope, workdir, log, candidate>> /\ KeepQuery

(* The candidate has the prefix before its symbolic frames.                *)
GoalObserved == Meets(Prefixed, candidate)

(* A goal whose place in the program is modelled conservatively is never   *)
(* SAT.                                                                    *)
ReplayNative ==
  /\ qphase = "replay"
  /\ Answer(IF ~GoalObserved THEN "REPLAY_MISMATCH"
            ELSE IF prog.conservative \/ ApproximateModel THEN "SAT_APPROX" ELSE "SAT", candidate)
  /\ UNCHANGED <<scope, workdir, log, candidate>> /\ KeepQuery

StepQuery ==
  \/ CheckBundle \/ ToolOfQueryFails \/ CompileDriver \/ LinkQuery \/ CollectImprecise
  \/ RunKlee \/ NoGoal \/ TakeGoal \/ ReplayTimeout \/ ReplayNative

(***************************************************************************)
(* Properties                                                              *)
(***************************************************************************)
Requested == [1..query.window ->
                {r \in Frame : \A f \in Fields \ query.symbolic : r[f] = query.base[f]}]

Printable(r) ==
  \A i \in DOMAIN r : \A f \in query.symbolic : KindOf[f] = "string" => r[i][f] = 0

(* UNSAT is a proof where KLEE did explore every path of this build's      *)
(* bitcode up to the symbolic frames: then no frames that the request      *)
(* leaves open and whose symbolic texts are printable meet the goal, not   *)
(* even through a field that could not be made symbolic                    *)
(* (solver.py:376-443). The code itself sees none of these conditions.     *)
UnsatIsProof ==
  /\ answer.status = "UNSAT"
  /\ log = "all" /\ ~query.stops /\ bundle.contract = "supported"
  => \A r \in Requested : Printable(r) => ~Meets(Prefixed, r)

(* SAT is a native fact: a cold start that is given the candidate meets    *)
(* the goal, however imprecise the models were (solver.py:522-554).        *)
SatIsNative ==
  answer.status \in {"SAT", "SAT_APPROX"} => Meets(Prefixed, answer.candidate)

(* A candidate belongs to the query that reports it: outside its symbolic  *)
(* fields it is the base of that query, although query directories are     *)
(* used again (solver.py:286-354, :506-521).                               *)
CandidateIsOfQuery == answer.candidate # <<>> => answer.candidate \in Requested

(* What a query reports is a fact about the program of this build: see the *)
(* three parts (SymbolicSolver.solve).                                     *)
AnswersAreFacts == UnsatIsProof /\ SatIsNative /\ CandidateIsOfQuery
=============================================================================
