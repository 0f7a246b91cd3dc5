---------------------------- MODULE SymbolicBuild ----------------------------
(***************************************************************************)
(* The symbolic build, compiler/symbolic/build.py: bitcode of the target,  *)
(* of the harness and of the models, one bundle, and a manifest that says  *)
(* which called functions the models only approximate. Each tool writes a  *)
(* temporary file that replaces its output; the manifest comes last. The   *)
(* directory is used again by the next build and the process may end       *)
(* between any two steps.                                                  *)
(***************************************************************************)
EXTENDS TargetIR

CONSTANTS
  Faithful,    \* library functions whose models are exact
  Approximate  \* library functions with havoc or approximating models

VARIABLES
  bitcode,     \* version of each output, 0 if absent
  partial,     \* a *.bc.tmp is left
  manifest,    \* [v, imprecise], v = 0 if absent
  refusal,     \* UNSUPPORTED.json: "none", a status, or "torn"
  pending, visited, symbols,   \* the walk over the calls of the target
  sphase       \* the next phase

svars == <<bitcode, partial, manifest, refusal, pending, visited, symbols, sphase>>

Outputs == {"target", "harness", "models", "bundle"}
NoManifest == [v |-> 0, imprecise |-> {}]
Order == <<"target", "harness", "models", "bundle">>
NextPhase(o) == LET i == CHOOSE k \in DOMAIN Order : Order[k] = o IN
                IF i = Len(Order) THEN "undefined" ELSE Order[i + 1]

InitSymbolic ==
  /\ bitcode = [o \in Outputs |-> 0] /\ partial = FALSE
  /\ manifest = NoManifest /\ refusal = "none"
  /\ pending = {} /\ visited = {} /\ symbols = {} /\ sphase = "idle"

KeepWalk == UNCHANGED <<pending, visited, symbols>>

StartSymbolic ==
  /\ pc = "symbolic" /\ sphase = "idle"
  /\ sphase' = "clean"
  /\ UNCHANGED <<bitcode, partial, manifest, refusal>> /\ KeepWalk

(* What is left of an earlier build goes before anything is made: the      *)
(* bitcode, then the temporary files, the manifest and the refusal.        *)
CleanOutput ==
  /\ sphase = "clean"
  /\ \E o \in Outputs : bitcode[o] > 0 /\ bitcode' = [bitcode EXCEPT ![o] = 0]
  /\ UNCHANGED <<partial, manifest, refusal, sphase>> /\ KeepWalk

AllGone == \A o \in Outputs : bitcode[o] = 0

CleanRest ==
  /\ sphase = "clean" /\ AllGone
  /\ \/ partial /\ partial' = FALSE /\ UNCHANGED <<manifest, refusal>>
     \/ ~partial /\ manifest.v > 0 /\ manifest' = NoManifest /\ UNCHANGED <<partial, refusal>>
     \/ /\ ~partial /\ manifest.v = 0 /\ refusal # "none"
        /\ refusal' = "none" /\ UNCHANGED <<partial, manifest>>
  /\ UNCHANGED <<bitcode, sphase>> /\ KeepWalk

(* A toolchain that is not installed, or an IR that is not there, makes    *)
(* symbolic execution unsupported.                                         *)
Cleaned ==
  /\ sphase = "clean" /\ AllGone /\ ~partial /\ manifest.v = 0 /\ refusal = "none"
  /\ \/ sphase' = "target" /\ UNCHANGED refusal
     \/ sphase' = "end" /\ refusal' = "unsupported"
  /\ UNCHANGED <<bitcode, partial, manifest>> /\ KeepWalk

Inputs(o) ==
  CASE o = "target" -> disk["state"].v
    [] o = "harness" -> disk["harness"].v
    [] o = "bundle" -> bitcode["target"]
    [] OTHER -> version

(* run: the tool's output takes its name only when the tool has succeeded. *)
RunTool ==
  /\ sphase \in Outputs
  /\ bitcode' = [bitcode EXCEPT ![sphase] = Inputs(sphase)]
  /\ sphase' = NextPhase(sphase)
  /\ UNCHANGED <<partial, manifest, refusal>> /\ KeepWalk

ToolPhases == Outputs \cup {"undefined", "calls"}

(* failure: a tool that is missing, cannot start, fails, writes nothing or *)
(* meets the deadline. The refusal is written when everything is removed.  *)
Refuse(status) ==
  /\ bitcode' = [o \in Outputs |-> 0] /\ partial' = FALSE
  /\ manifest' = NoManifest /\ refusal' = status
  /\ sphase' = "end"
  /\ pending' = {} /\ visited' = {} /\ symbols' = {}

ToolFails ==
  /\ sphase \in ToolPhases
  /\ \E status \in {"unsupported", "failed", "timeout"} : Refuse(status)

(* Symbols that neither KLEE nor a model provides.                         *)
CheckUndefined ==
  /\ sphase = "undefined"
  /\ IF prog.undefined
     THEN Refuse("unsupported")
     ELSE /\ sphase' = "calls"
          /\ pending' = {"f"} /\ visited' = {} /\ symbols' = {}
          /\ UNCHANGED <<bitcode, partial, manifest, refusal>>

(* The functions with a body that the target reaches, and all they call.   *)
CloseCalls ==
  /\ sphase = "calls" /\ pending # {}
  /\ \E n \in pending :
       LET called == {c[2] : c \in {d \in prog.calls : d[1] = n}} IN
       /\ visited' = visited \cup {n}
       /\ symbols' = symbols \cup called
       /\ pending' = (pending \cup {c \in called : \E d \in prog.calls : d[1] = c}) \ visited'
  /\ UNCHANGED <<bitcode, partial, manifest, refusal, sphase>>

(* A model of strtod stands between a float field and its text.            *)
Concretizing == IF prog.floats THEN {"strtod"} ELSE {}

WriteManifest ==
  /\ sphase = "calls" /\ pending = {}
  /\ manifest' = [v |-> bitcode["bundle"],
                  imprecise |-> (symbols \cap Approximate) \cup Concretizing]
  /\ refusal' = "none"
  /\ sphase' = "end"
  /\ pending' = {} /\ visited' = {} /\ symbols' = {}
  /\ UNCHANGED <<bitcode, partial>>

(* The process ends between two steps, or while a tool writes its          *)
(* temporary file, or the refusal.                                         *)
KilledSymbolic ==
  /\ sphase \notin {"idle", "end"}
  /\ partial' \in {partial, TRUE}
  /\ refusal' \in {refusal, "torn"}
  /\ refusal' # refusal => AllGone /\ manifest.v = 0
  /\ sphase' = "idle"
  /\ pending' = {} /\ visited' = {} /\ symbols' = {}
  /\ UNCHANGED <<bitcode, manifest>>

StepSymbolic ==
  \/ CleanOutput \/ CleanRest \/ Cleaned \/ RunTool \/ ToolFails
  \/ CheckUndefined \/ CloseCalls \/ WriteManifest
=============================================================================
