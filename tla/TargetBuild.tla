----------------------------- MODULE TargetBuild -----------------------------
(***************************************************************************)
(* Builds of one function and the symbolic queries of the runs that use    *)
(* them: build_target.sh around compile.py, loop_budget.py and             *)
(* symbolic/build.py, the copy that prepare_bundle of                      *)
(* fuzzer/pipeline/core.py makes for a run, and solver.py on that copy.    *)
(***************************************************************************)
EXTENDS SolverQuery, LoopBudget

ASSUME BodiesAssumption ==
  \A p \in Programs :
    /\ p.body.blocks \in Seq(Range(p.body.blocks))
    /\ Range(p.body.blocks) \subseteq DOMAIN p.body.line
    /\ \A b \in Range(p.body.blocks) : p.body.line[b] \in Seq(Range(p.body.line[b]))

NoBody == [blocks |-> <<>>, phis |-> {}, line |-> <<>>]

VARIABLES
  contract     \* what execution-contract.json says of symbolic execution

all == <<ivars, svars, qvars, lvars, contract>>

Init == InitIR /\ InitSymbolic /\ InitQuery /\ InitLoops(NoBody) /\ contract = "not built"

(* The loop pass reads the functions of the prepared file.                 *)
ReadFunctions ==
  /\ pc = "loops" /\ body = NoBody
  /\ body' = prog.body
  /\ state' = [x \in Range(body'.blocks) |-> 0]
  /\ open' = <<>> /\ headers' = {} /\ ticked' = {} /\ walk' = "visit"
  /\ UNCHANGED <<ivars, svars, qvars, contract>>

WalkLoops == pc = "loops" /\ body # NoBody /\ NextLoops /\ UNCHANGED <<ivars, svars, qvars, contract>>

ForgetLoops ==
  /\ body' = NoBody /\ state' = <<>> /\ open' = <<>>
  /\ headers' = {} /\ ticked' = {} /\ walk' = "visit"

LoopsDone ==
  /\ body # NoBody /\ walk = "done"
  /\ TickLoops({"ticks"} \cup IF Malformed THEN {"malformed"} ELSE {})
  /\ ForgetLoops
  /\ UNCHANGED <<svars, qvars, contract>>

CompileAndPrepare ==
  /\ \/ StartBuild \/ GenerateStg \/ WriteEffects \/ Plc \/ Instrument \/ GenerateHarness
     \/ Trim \/ SanitizeBounds \/ CheckMemory \/ MarkAsan \/ Normalize
     \/ AddStateTable \/ Link
  /\ UNCHANGED <<svars, qvars, lvars, contract>>

(* A failed tool, the deadline of the build or the end of the process.     *)
Abort ==
  /\ BuildFails
  /\ \/ KilledSymbolic
     \/ sphase \in {"idle", "end"} /\ sphase' = "idle"
        /\ UNCHANGED <<bitcode, partial, manifest, refusal, pending, visited, symbols>>
  /\ ForgetLoops
  /\ UNCHANGED <<qvars, contract>>

(* With SEMANTIST_SYMBOLIC=0 nothing is made, and nothing of an earlier    *)
(* build, also of a failed or killed one, is removed.                      *)
SymbolicIsOff ==
  /\ pc = "symbolic" /\ sphase = "idle" /\ ~prog.symbolic
  /\ pc' = "built"
  /\ contract' = "not built"
  /\ UNCHANGED <<version, prog, disk, calls, svars, qvars, lvars>>

BuildSymbolic ==
  /\ pc = "symbolic" /\ prog.symbolic
  /\ StartSymbolic \/ StepSymbolic
  /\ UNCHANGED <<ivars, qvars, lvars, contract>>

(* Mutant: a symbolic build that failed or ran out of time is passed over. *)
GoOn == TRUE

ExitsCleanly == refusal \in {"none", "unsupported"}

(* Missing capability is an answer; any other failure ends build_target.sh *)
(* before the contract is written again.                                   *)
SymbolicEnds ==
  /\ pc = "symbolic" /\ sphase = "end"
  /\ IF ExitsCleanly
     THEN pc' = "built" /\ contract' = IF manifest.v > 0 THEN "supported" ELSE "unsupported"
     ELSE pc' = "failed" /\ UNCHANGED contract
  /\ sphase' = "idle"
  /\ UNCHANGED <<version, prog, disk, calls, bitcode, partial, manifest, refusal,
                 pending, visited, symbols, qvars, lvars>>

(* prepare_bundle copies into the new directory of the run what there is,  *)
(* whatever the contract says.                                             *)
CopyBundle ==
  /\ pc = "built" /\ qphase = "off"
  /\ bundle' = [v |-> bitcode["bundle"], manifest |-> manifest, refusal |-> refusal,
                approximate |-> prog.stub, contract |-> contract]
  /\ qphase' = "ready"
  /\ UNCHANGED <<ivars, svars, lvars, contract, query, scope, workdir, log, candidate, answer, asked>>

Solve ==
  /\ (\E r \in Requests : Ask(r)) \/ StepQuery
  /\ UNCHANGED <<ivars, svars, lvars, contract>>

(* The run is over; another run of the function builds it again.           *)
RunOver ==
  /\ pc = "built" /\ qphase = "answered" /\ asked = MaxQueries
  /\ version < MaxBuilds
  /\ pc' = "idle" /\ qphase' = "off" /\ asked' = 0
  /\ bundle' = [bundle EXCEPT !.v = 0, !.manifest = NoManifest, !.refusal = "none",
                              !.approximate = FALSE, !.contract = "not built"]
  /\ query' \in {r \in Requests : \A s \in Requests : r.id <= s.id}
  /\ scope' = NoScope /\ workdir' = [i \in DOMAIN workdir |-> NoOut]
  /\ log' = "none" /\ candidate' = <<>> /\ answer' = NoAnswer
  /\ UNCHANGED <<version, prog, disk, calls, svars, lvars, contract>>

Rest ==
  /\ \/ pc = "failed" /\ version = MaxBuilds
     \/ qphase = "answered" /\ asked = MaxQueries /\ version = MaxBuilds
  /\ UNCHANGED all

Next ==
  \/ CompileAndPrepare \/ ReadFunctions \/ WalkLoops \/ LoopsDone \/ Abort
  \/ SymbolicIsOff \/ BuildSymbolic \/ SymbolicEnds \/ CopyBundle \/ Solve \/ RunOver \/ Rest

Spec == Init /\ [][Next]_all

(* What a run takes over is what its contract says: with "supported" the   *)
(* bitcode, manifest and target of this build and no refusal, with         *)
(* "unsupported" nothing but that word; never the rest of a build that     *)
(* failed or was killed in the directory (symbolic/build.py:34-41, :90-96, *)
(* :212-217, :243-246). Where symbolic execution is off it may be the      *)
(* work of an earlier build, or the rest of one that was killed, and still *)
(* a manifest never stands beside the bitcode of another build: what is    *)
(* queried is one version, or cannot be linked.                            *)
BundleIsWhole ==
  qphase # "off" =>
    /\ disk["target"].v = version
    /\ bundle.contract = "supported" =>
         bundle.refusal = "none" /\ bundle.v = version /\ bundle.manifest.v = version
    /\ bundle.contract = "unsupported" =>
         bundle.refusal = "unsupported" /\ bundle.v = 0 /\ bundle.manifest.v = 0
    /\ bundle.manifest.v > 0 =>
         bundle.refusal = "none" /\ bundle.v \in {0, bundle.manifest.v}

(* The instrumented code watches what it should: every loop of branches    *)
(* passes a tick (loop_budget.py), and a checked memory call is given the  *)
(* sizes of its own function's objects (compile.py).                       *)
InstrumentationIsRight == BranchLoopsTick /\ SizesAreLocal
=============================================================================
