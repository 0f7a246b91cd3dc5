------------------------------ MODULE TargetIR ------------------------------
(***************************************************************************)
(* From structured text to a checked target: compile_st_project_main and   *)
(* prepare_target_ir_main of compiler/instrumentation/compile.py, in the   *)
(* order in which compile_st.sh and build_target.sh call them. The build   *)
(* directory belongs to the function, not to the run: it keeps what        *)
(* earlier builds, also failed and killed ones, have left there. A file is *)
(* the version of the sources it was made from and what was done to it.    *)
(***************************************************************************)
EXTENDS Integers, Sequences, SequencesExt, FiniteSets, TLC

CONSTANTS
  Programs,    \* what may be compiled, with the switches of the environment
  MaxBuilds    \* bound: builds in the same directory

(* In a module of LLVM an instruction is inside a function.                *)
Inside(lines, i) ==
  \E d \in 1 .. i : /\ lines[d].op = "define"
                    /\ \A e \in d .. i : lines[e].op # "end"

Operations == {"define", "end", "object", "copy"}

ASSUME LinesAssumption ==
  \A p \in Programs :
    /\ p.lines \in Seq({p.lines[i] : i \in DOMAIN p.lines})
    /\ \A i \in DOMAIN p.lines :
         /\ p.lines[i].op \in Operations
         /\ p.lines[i].op \in {"object", "copy"} => Inside(p.lines, i)

VARIABLES
  version,     \* of the sources that are being built
  prog,        \* the program of this version
  disk,        \* the files of the build directory
  calls,       \* sizes that the checked memory calls were given
  pc           \* the next step of the build

ivars == <<version, prog, disk, calls, pc>>

Files == {"config", "stg", "effects", "compiled", "out", "harness", "prepared",
          "loops", "state", "target"}
Absent == [v |-> 0, has |-> {}]
Made(done) == [v |-> version, has |-> done]

Put(f, content) == disk' = [disk EXCEPT ![f] = content]
Step(from, to) == pc = from /\ pc' = to
Keep == UNCHANGED <<version, prog, calls>>

InitIR ==
  /\ version = 0 /\ prog = CHOOSE p \in Programs : TRUE
  /\ disk = [f \in Files |-> Absent]
  /\ calls = <<>> /\ pc = "idle"

(* With a manifest its closure is compiled, with the library and the stubs *)
(* that are named as well; without one the library and its stubs.          *)
Sources ==
  IF prog'.manifest THEN prog'.closure \cup {"library", "stubs"} ELSE {"library", "stubs"}

FunctionDefined == \E s \in Sources : s \in prog'.defines

(* The work directory is removed, so nothing that an earlier build         *)
(* compiled can be taken for this one's.                                   *)
StartBuild ==
  /\ pc \in {"idle", "failed"} /\ version < MaxBuilds
  /\ version' = version + 1
  /\ prog' \in Programs
  /\ disk' = [disk EXCEPT !["compiled"] = Absent,
                          !["config"] = [v |-> version', has |->
                             Sources \cup IF FunctionDefined THEN {} ELSE {"target"}]]
  /\ calls' = <<>>
  /\ pc' = "stg"

GenerateStg == Step("stg", "effects") /\ Put("stg", Made({})) /\ Keep

(* The effects of called functions are extracted in a temporary directory  *)
(* until the budget of the build ends.                                     *)
WriteEffects == Step("effects", "plc") /\ Put("effects", Made({})) /\ Keep

Plc ==
  /\ Step("plc", "instrument")
  /\ Cardinality({s \in disk["config"].has : s \in prog.defines \/ s = "target"}) = 1
  /\ Put("compiled", Made({})) /\ Keep

Instrument ==
  /\ Step("instrument", "harness")
  /\ Put("out", [disk["compiled"] EXCEPT !.has = @ \cup {"goals"}]) /\ Keep

GenerateHarness ==
  /\ Step("harness", "trim")
  /\ Put("harness", [disk["out"] EXCEPT !.has = {}]) /\ Keep

(* Everything but the entry and its constructor becomes internal and dead  *)
(* code goes. opt may print attributes that LLVM 16 cannot read.           *)
Trim ==
  /\ Step("trim", "bounds")
  /\ Put("prepared", disk["out"]) /\ Keep

SanitizeBounds ==
  /\ Step("bounds", "memory")
  /\ disk' = IF prog.bounds THEN [disk EXCEPT !["prepared"].has = @ \cup {"bounds"}] ELSE disk
  /\ Keep

(***************************************************************************)
(* instrument_memory_primitive_bounds                                      *)
(***************************************************************************)
Fresh == [inside |-> FALSE, known |-> <<>>, done |-> <<>>]

Forget(s) == [s EXCEPT !.known = <<>>]

ObjectSize(s, register) ==
  IF register \in DOMAIN s.known THEN s.known[register] ELSE -1

(* What is known with the size of one more register.                       *)
Known(s, line) ==
  [r \in DOMAIN s.known \cup {line.register} |->
     IF r = line.register THEN line.size ELSE s.known[r]]

ScanLine(s, line) ==
  CASE line.op = "define" -> [Forget(s) EXCEPT !.inside = TRUE]
    [] line.op = "end" -> [Forget(s) EXCEPT !.inside = FALSE]
    [] line.op = "object" /\ s.inside -> [s EXCEPT !.known = Known(s, line)]
    [] line.op = "copy" /\ s.inside ->
         [s EXCEPT !.done = Append(@, <<ObjectSize(s, line.to), ObjectSize(s, line.from)>>)]
    [] OTHER -> s

CheckedCalls(lines) == FoldLeft(ScanLine, Fresh, lines).done

CheckMemory ==
  /\ Step("memory", "asan")
  /\ calls' = IF prog.memory THEN CheckedCalls(prog.lines) ELSE <<>>
  /\ disk' = IF calls' # <<>> THEN [disk EXCEPT !["prepared"].has = @ \cup {"memory"}] ELSE disk
  /\ UNCHANGED <<version, prog>>

(***************************************************************************)
(* The sanitizer flags and what follows                                    *)
(***************************************************************************)
AddressSanitizer(flags) ==
  FoldLeft(LAMBDA on, flag :
             IF flag[1] THEN on \/ "address" \in flag[2]
             ELSE on /\ flag[2] \cap {"address", "all"} = {},
           FALSE, flags)

MarkAsan ==
  /\ Step("asan", "normalize")
  /\ disk' = IF AddressSanitizer(prog.flags)
             THEN [disk EXCEPT !["prepared"].has = @ \cup {"asan"}] ELSE disk
  /\ Keep

Normalize ==
  /\ Step("normalize", "loops")
  /\ disk' = [disk EXCEPT !["prepared"].has = @ \cup {"readable"}]
  /\ Keep

(* The ticks are in a file of their own; the table of the writable globals *)
(* is added to that file, and native and symbolic builds share the result. *)
TickLoops(done) == Step("loops", "state") /\ Put("loops", [disk["prepared"] EXCEPT !.has = @ \cup done]) /\ Keep

(* Clang compiles the ticked file first, to learn which globals stay.      *)
AddStateTable ==
  /\ Step("state", "link")
  /\ "malformed" \notin disk["loops"].has
  /\ Put("state", [disk["loops"] EXCEPT !.has = @ \cup {"regions"}])
  /\ Keep

Link ==
  /\ Step("link", "symbolic")
  /\ disk["harness"].v > 0
  /\ Put("target", disk["state"])
  /\ calls' = <<>>
  /\ UNCHANGED <<version, prog>>

(* A tool that fails, or writes nothing, ends the build; so does the       *)
(* deadline, or the end of the process. Nothing is taken back.             *)
BuildFails ==
  /\ pc \notin {"idle", "failed", "built"}
  /\ pc' = "failed"
  /\ UNCHANGED <<version, prog, disk, calls>>

(***************************************************************************)
(* Properties                                                              *)
(***************************************************************************)
(* The definition, in the function around it, of a register that a line    *)
(* uses.                                                                   *)
OwnSize(lines, i, register) ==
  LET start == CHOOSE d \in 1..i : /\ lines[d].op = "define"
                                   /\ \A e \in d..i : lines[e].op # "define" \/ e = d
      defs == {d \in start..i : lines[d].op = "object" /\ lines[d].register = register} IN
  IF defs = {} THEN -1 ELSE lines[CHOOSE d \in defs : \A e \in defs : e <= d].size

(* A checked memory call is given the size of the object that its own      *)
(* function defines under that name, or none: register names repeat in     *)
(* every function of the module (compile.py:553-593).                      *)
SizesAreLocal ==
  calls # <<>> =>
    LET lines == prog.lines
        copies == {i \in DOMAIN lines : lines[i].op = "copy"} IN
    /\ Len(calls) = Cardinality(copies)
    /\ \A i \in copies :
         calls[Cardinality({j \in copies : j <= i})]
           = <<OwnSize(lines, i, lines[i].to), OwnSize(lines, i, lines[i].from)>>
=============================================================================
