-------------------------- MODULE TargetBuild_proofs --------------------------
(***************************************************************************)
(* Proofs about builds and symbolic queries. The inductive invariant       *)
(* BuildInv has five parts, each in a section of its own: the files of the *)
(* build directory, the symbolic build, the run's copy and the query that  *)
(* is answered from it, the walk over the blocks of a function, and the    *)
(* sizes of checked memory calls. The walk and the sizes are proved by     *)
(* induction over the lines of the module.                                 *)
(***************************************************************************)
EXTENDS TargetBuild, FiniteSetTheorems, NaturalsInduction, WellFoundedInduction, TLAPS


(***************************************************************************)
(* The build directory.                                                    *)
(***************************************************************************)

DiskShape == DOMAIN disk = Files /\ \A f \in Files : DOMAIN disk[f] = {"v", "has"}

ToTarget == {"bounds", "memory", "asan", "normalize", "loops"}

Places == {"idle", "stg", "effects", "plc", "instrument", "harness", "trim", "state", "link",
           "symbolic", "built", "failed"} \cup ToTarget

(* Which files are of this build, by the step that comes next.             *)
FilesAreNew ==
  /\ pc = "instrument" => disk["compiled"].v = version
  /\ pc \in {"harness", "trim"} => disk["out"].v = version
  /\ pc \in {"trim", "state", "link", "symbolic"} \cup ToTarget => disk["harness"].v = version
  /\ pc \in ToTarget => disk["prepared"].v = version
  /\ pc = "state" => disk["loops"].v = version
  /\ pc \in {"link", "symbolic"} => disk["state"].v = version
  /\ pc \in {"symbolic", "built"} => disk["target"].v = version

DiskInv == DiskShape /\ pc \in Places /\ FilesAreNew

(* A file that is put into the directory is the only one that changes.     *)
LEMMA PutChangesOne ==
  ASSUME DiskShape, NEW f \in Files, NEW content, DOMAIN content = {"v", "has"},
         Put(f, content)
  PROVE  /\ DiskShape'
         /\ disk'[f] = content
         /\ \A g \in Files : g # f => disk'[g] = disk[g]
BY DEF Put, DiskShape

(* What is done to a file does not change what it was made from.           *)
LEMMA DoneKeepsVersion ==
  ASSUME NEW c, DOMAIN c = {"v", "has"}, NEW has
  PROVE  /\ [c EXCEPT !.has = has].v = c.v
         /\ DOMAIN [c EXCEPT !.has = has] = {"v", "has"}
OBVIOUS

(* The directory is empty at first.                                        *)
LEMMA DiskInit == Init => DiskInv
<1> SUFFICES ASSUME Init  PROVE DiskInv
  OBVIOUS
<1>1. disk = [f \in Files |-> Absent] /\ pc = "idle"  BY DEF Init, InitIR
<1>2. DiskShape  BY <1>1 DEF DiskShape, Absent
<1> QED  BY <1>1, <1>2 DEF DiskInv, FilesAreNew, ToTarget, Places

(* A new build forgets what an earlier one compiled.                       *)
LEMMA StartKeepsDisk == DiskInv /\ StartBuild => DiskInv'
<1> SUFFICES ASSUME DiskInv, StartBuild  PROVE DiskInv'  OBVIOUS
<1> DEFINE more == Sources \cup IF FunctionDefined THEN {} ELSE {"target"}
<1>1. disk' = [disk EXCEPT !["compiled"] = Absent, !["config"] = [v |-> version', has |-> more]]
  BY DEF StartBuild
<1> HIDE DEF more
<1>2. pc' = "stg"  BY DEF StartBuild
<1>3. DiskShape'  BY <1>1 DEF DiskInv, DiskShape, Absent
<1> QED  BY <1>2, <1>3 DEF DiskInv, FilesAreNew, ToTarget, Places

(* Every step of the preparation hands on the file of this build.          *)
LEMMA PrepareKeepsDisk ==
  ASSUME DiskInv, UNCHANGED version,
         \/ GenerateStg \/ WriteEffects \/ Plc \/ Instrument \/ GenerateHarness
         \/ Trim \/ SanitizeBounds \/ CheckMemory \/ MarkAsan \/ Normalize
         \/ AddStateTable \/ Link \/ \E done : TickLoops(done)
  PROVE  DiskInv'
<1> USE DEF Places, ToTarget
<1>0. DiskShape /\ FilesAreNew /\ pc \in Places  BY DEF DiskInv
<1>s. \A f \in Files : DOMAIN disk[f] = {"v", "has"}  BY <1>0 DEF DiskShape
<1>f. {"stg", "effects", "compiled", "out", "harness", "prepared", "loops", "state", "target"}
        \subseteq Files  BY DEF Files
<1>m. \A done : DOMAIN Made(done) = {"v", "has"} /\ Made(done).v = version  BY DEF Made
<1>1. CASE GenerateStg
  <2>1. pc = "stg" /\ pc' = "effects" /\ Put("stg", Made({}))  BY <1>1 DEF GenerateStg, Step
  <2>2. DiskShape'  BY <1>0, <1>f, <1>m, <2>1, PutChangesOne
  <2> QED  BY <2>1, <2>2 DEF DiskInv, FilesAreNew
<1>2. CASE WriteEffects
  <2>1. pc = "effects" /\ pc' = "plc" /\ Put("effects", Made({}))  BY <1>2 DEF WriteEffects, Step
  <2>2. DiskShape'  BY <1>0, <1>f, <1>m, <2>1, PutChangesOne
  <2> QED  BY <2>1, <2>2 DEF DiskInv, FilesAreNew
<1>3. CASE Plc
  <2>1. pc = "plc" /\ pc' = "instrument" /\ Put("compiled", Made({}))  BY <1>3 DEF Plc, Step
  <2>2. DiskShape' /\ disk'["compiled"].v = version
    BY <1>0, <1>f, <1>m, <2>1, PutChangesOne
  <2> QED  BY <2>1, <2>2 DEF DiskInv, FilesAreNew
<1>4. CASE Instrument
  <2> DEFINE c == disk["compiled"]
             new == [c EXCEPT !.has = @ \cup {"goals"}]
  <2>1. pc = "instrument" /\ pc' = "harness" /\ Put("out", new)  BY <1>4 DEF Instrument, Step
  <2>2. new.v = version /\ DOMAIN new = {"v", "has"}
    BY <1>0, <1>s, <1>f, <2>1, DoneKeepsVersion DEF FilesAreNew
  <2> HIDE DEF new
  <2>3. DiskShape' /\ disk'["out"].v = version  BY <1>0, <1>f, <2>1, <2>2, PutChangesOne
  <2> QED  BY <2>1, <2>3 DEF DiskInv, FilesAreNew
<1>5. CASE GenerateHarness
  <2> DEFINE c == disk["out"]
             new == [c EXCEPT !.has = {}]
  <2>1. pc = "harness" /\ pc' = "trim" /\ Put("harness", new)
    BY <1>5 DEF GenerateHarness, Step
  <2>2. new.v = version /\ DOMAIN new = {"v", "has"}
    BY <1>0, <1>s, <1>f, <2>1, DoneKeepsVersion DEF FilesAreNew
  <2> HIDE DEF new
  <2>3. DiskShape' /\ disk'["harness"].v = version /\ disk'["out"] = disk["out"]
    BY <1>0, <1>f, <2>1, <2>2, PutChangesOne
  <2> QED  BY <1>0, <2>1, <2>3 DEF DiskInv, FilesAreNew
<1>6. CASE Trim
  <2>1. pc = "trim" /\ pc' = "bounds" /\ Put("prepared", disk["out"])  BY <1>6 DEF Trim, Step
  <2>2. disk["out"].v = version  BY <1>0, <2>1 DEF FilesAreNew
  <2>3. DiskShape' /\ disk'["prepared"].v = version /\ disk'["harness"] = disk["harness"]
    BY <1>0, <1>s, <1>f, <2>1, <2>2, PutChangesOne
  <2> QED  BY <1>0, <2>1, <2>3 DEF DiskInv, FilesAreNew
<1>7. CASE SanitizeBounds \/ CheckMemory \/ MarkAsan \/ Normalize
  <2>1. pc \in {"bounds", "memory", "asan", "normalize"} /\ pc' \in ToTarget
    BY <1>7 DEF SanitizeBounds, CheckMemory, MarkAsan, Normalize, Step
  <2>2. \/ disk' = disk
        \/ \E d : disk' = [disk EXCEPT !["prepared"].has = @ \cup {d}]
    BY <1>7 DEF SanitizeBounds, CheckMemory, MarkAsan, Normalize
  <2>3. CASE disk' = disk
    BY <1>0, <2>1, <2>3 DEF DiskInv, FilesAreNew, DiskShape
  <2>4. CASE \E d : disk' = [disk EXCEPT !["prepared"].has = @ \cup {d}]
    <3>1. PICK d : disk' = [disk EXCEPT !["prepared"].has = @ \cup {d}]  BY <2>4
    <3> DEFINE c == disk["prepared"]
               new == [c EXCEPT !.has = c.has \cup {d}]
    <3>2. disk' = [disk EXCEPT !["prepared"] = new]  BY <3>1
    <3>3. new.v = version /\ DOMAIN new = {"v", "has"}
      BY <1>0, <1>s, <1>f, <2>1, DoneKeepsVersion DEF FilesAreNew
    <3> HIDE DEF new
    <3>4. DiskShape' /\ disk'["prepared"].v = version /\ disk'["harness"] = disk["harness"]
      BY <1>0, <1>f, <3>2, <3>3, PutChangesOne DEF Put
    <3> QED  BY <1>0, <2>1, <3>4 DEF DiskInv, FilesAreNew
  <2> QED  BY <2>2, <2>3, <2>4
<1>8. CASE \E done : TickLoops(done)
  <2>0. PICK done : TickLoops(done)  BY <1>8
  <2> DEFINE c == disk["prepared"]
             new == [c EXCEPT !.has = c.has \cup done]
  <2>1. pc = "loops" /\ pc' = "state" /\ Put("loops", new)  BY <2>0 DEF TickLoops, Step
  <2>2. new.v = version /\ DOMAIN new = {"v", "has"}
    BY <1>0, <1>s, <1>f, <2>1, DoneKeepsVersion DEF FilesAreNew
  <2> HIDE DEF new
  <2>3. DiskShape' /\ disk'["loops"].v = version /\ disk'["harness"] = disk["harness"]
    BY <1>0, <1>f, <2>1, <2>2, PutChangesOne
  <2> QED  BY <1>0, <2>1, <2>3 DEF DiskInv, FilesAreNew
<1>9. CASE AddStateTable
  <2> DEFINE c == disk["loops"]
             new == [c EXCEPT !.has = @ \cup {"regions"}]
  <2>1. pc = "state" /\ pc' = "link" /\ Put("state", new)  BY <1>9 DEF AddStateTable, Step
  <2>2. new.v = version /\ DOMAIN new = {"v", "has"}
    BY <1>0, <1>s, <1>f, <2>1, DoneKeepsVersion DEF FilesAreNew
  <2> HIDE DEF new
  <2>3. DiskShape' /\ disk'["state"].v = version /\ disk'["harness"] = disk["harness"]
    BY <1>0, <1>f, <2>1, <2>2, PutChangesOne
  <2> QED  BY <1>0, <2>1, <2>3 DEF DiskInv, FilesAreNew
<1>10. CASE Link
  <2>1. pc = "link" /\ pc' = "symbolic" /\ Put("target", disk["state"])  BY <1>10 DEF Link, Step
  <2>2. disk["state"].v = version  BY <1>0, <2>1 DEF FilesAreNew
  <2>3. /\ DiskShape' /\ disk'["target"].v = version
        /\ disk'["harness"] = disk["harness"] /\ disk'["state"] = disk["state"]
    BY <1>0, <1>s, <1>f, <2>1, <2>2, PutChangesOne
  <2> QED  BY <1>0, <2>1, <2>3 DEF DiskInv, FilesAreNew
<1> QED  BY <1>1, <1>2, <1>3, <1>4, <1>5, <1>6, <1>7, <1>8, <1>9, <1>10

(* A build that goes on elsewhere, ends or fails leaves the files alone.   *)
LEMMA DiskUntouched ==
  ASSUME DiskInv, UNCHANGED <<disk, version>>,
         pc' = pc \/ pc' \in {"idle", "failed"} \/ (pc = "symbolic" /\ pc' = "built")
  PROVE  DiskInv'
BY DEF DiskInv, DiskShape, FilesAreNew, Places, ToTarget

(***************************************************************************)
(* The symbolic build.                                                     *)
(***************************************************************************)

(* What a function that the program reaches calls is known to the walk.    *)
WalkIsClosed ==
  /\ "f" \in visited \cup pending
  /\ visited \cup pending \cup symbols \subseteq Functions
  /\ \A d \in prog.calls : /\ d[1] \in visited => d[2] \in symbols
                           /\ d[1] \in symbols => d[1] \in visited \cup pending

Imprecision == Reached \cap Approximate

(* What a symbolic build leaves: everything of this build, or nothing.     *)
SymbolicResult ==
  \/ /\ refusal = "none"
     /\ bitcode["bundle"] = version /\ manifest.v = version
     /\ Imprecision \subseteq manifest.imprecise
  \/ /\ refusal \in {"unsupported", "failed", "timeout"}
     /\ bitcode["bundle"] = 0 /\ manifest.v = 0

Working == Outputs \cup {"undefined", "calls"}

(* A manifest never stands beside the bitcode of another build.            *)
OneBuild == manifest.v > 0 => refusal = "none" /\ bitcode["bundle"] \in {0, manifest.v}

(* What the contract says is what this build has left.                     *)
ContractIsTrue ==
  /\ SymbolicResult /\ ExitsCleanly
  /\ contract = IF refusal = "none" THEN "supported" ELSE "unsupported"

SymbolicIsNew ==
  /\ DOMAIN bitcode = Outputs
  /\ pc # "symbolic" => sphase = "idle"
  /\ sphase \in {"idle", "clean", "end"} \cup Working
  /\ sphase \in Working => manifest.v = 0 /\ refusal = "none"
  /\ sphase \in {"harness", "models", "bundle"} => bitcode["target"] = version
  /\ sphase \in {"undefined", "calls"} => bitcode["bundle"] = version
  /\ sphase = "calls" => WalkIsClosed
  /\ sphase = "end" => SymbolicResult
  /\ pc = "built" => contract = "not built" \/ ContractIsTrue
  /\ OneBuild

(* The walk over the calls has found all that a run of the target calls.   *)
LEMMA WalkFindsReached ==
  ASSUME WalkIsClosed, pending = {}
  PROVE  Reached \subseteq symbols
<1> DEFINE s == visited \cup symbols
<1>1. s \in SUBSET Functions  BY DEF WalkIsClosed
<1>2. "f" \in visited  BY DEF WalkIsClosed
<1>3. \A c \in prog.calls : c[1] \in s => c[1] \in visited /\ c[2] \in symbols
  BY DEF WalkIsClosed
<1>4. ClosedUnderCalls(s)  BY <1>2, <1>3 DEF ClosedUnderCalls
<1>5. \A d \in prog.calls : Runs(d[1]) => d[2] \in symbols
  BY <1>1, <1>3, <1>4 DEF Runs
<1> QED  BY <1>5 DEF Reached

(* One more function keeps the walk closed.                                *)
LEMMA CloseCallsKeeps ==
  ASSUME WalkIsClosed, CloseCalls, UNCHANGED prog
  PROVE  WalkIsClosed'
<1>1. PICK n \in pending :
        /\ visited' = visited \cup {n}
        /\ symbols' = symbols \cup {c[2] : c \in {d \in prog.calls : d[1] = n}}
        /\ pending' = (pending \cup {c \in {c[2] : c \in {d \in prog.calls : d[1] = n}} :
                                       \E d \in prog.calls : d[1] = c}) \ visited'
  BY DEF CloseCalls
<1> DEFINE called == {c[2] : c \in {d \in prog.calls : d[1] = n}}
<1>2. called \subseteq Functions  BY DEF Functions
<1>3. visited' \cup pending' \cup symbols' \subseteq Functions  BY <1>1, <1>2 DEF WalkIsClosed
<1>4. "f" \in visited' \cup pending'  BY <1>1 DEF WalkIsClosed
<1>5. \A d \in prog.calls : d[1] \in visited' => d[2] \in symbols'
  <2> SUFFICES ASSUME NEW d \in prog.calls, d[1] \in visited'  PROVE d[2] \in symbols'  OBVIOUS
  <2>1. CASE d[1] \in visited  BY <1>1, <2>1 DEF WalkIsClosed
  <2>2. CASE d[1] = n
    <3>1. d[2] \in called  BY <2>2
    <3> QED  BY <1>1, <3>1
  <2> QED  BY <1>1, <2>1, <2>2
<1>6. \A d \in prog.calls : d[1] \in symbols' => d[1] \in visited' \cup pending'
  <2> SUFFICES ASSUME NEW d \in prog.calls, d[1] \in symbols'
               PROVE  d[1] \in visited' \cup pending'
    OBVIOUS
  <2>1. CASE d[1] \in symbols  BY <1>1, <2>1 DEF WalkIsClosed
  <2>2. CASE d[1] \in called  BY <1>1, <2>2
  <2> QED  BY <1>1, <2>1, <2>2
<1>7. Functions' = Functions  BY DEF Functions
<1> QED  BY <1>3, <1>4, <1>5, <1>6, <1>7 DEF WalkIsClosed

(* The directory has no symbolic build at first.                           *)
LEMMA SymbolicInit == Init => SymbolicIsNew
BY DEF Init, InitIR, InitSymbolic, SymbolicIsNew, Working, Outputs, OneBuild, NoManifest

(* No other step of a build touches what the symbolic build has made.      *)
LEMMA SymbolicUntouched ==
  ASSUME SymbolicIsNew, UNCHANGED svars, sphase = "idle", pc' # "built"
  PROVE  SymbolicIsNew'
BY DEF SymbolicIsNew, svars, Working, Outputs, OneBuild

(* A step that leaves program and symbolic build alone.                    *)
LEMMA SymbolicStutter ==
  ASSUME SymbolicIsNew, UNCHANGED <<svars, version, prog, pc, contract>>
  PROVE  SymbolicIsNew'
<1>1. Functions' = Functions  BY DEF Functions
<1>2. Imprecision' = Imprecision
  BY <1>1 DEF Imprecision, Reached, Runs, ClosedUnderCalls
<1>3. UNCHANGED <<bitcode, partial, manifest, refusal, pending, visited, symbols, sphase>>
  BY DEF svars
<1>4. WalkIsClosed => WalkIsClosed'  BY <1>1, <1>3 DEF WalkIsClosed
<1>5. SymbolicResult => SymbolicResult'  BY <1>2, <1>3 DEF SymbolicResult
<1>6. ContractIsTrue => ContractIsTrue'  BY <1>3, <1>5 DEF ContractIsTrue, ExitsCleanly
<1> QED  BY <1>3, <1>4, <1>5, <1>6 DEF SymbolicIsNew, OneBuild

(* Nothing of a refused build is left.                                     *)
LEMMA RefuseLeavesNothing ==
  ASSUME SymbolicIsNew, UNCHANGED <<version, prog, pc>>, pc = "symbolic",
         NEW status \in {"unsupported", "failed", "timeout"}, Refuse(status)
  PROVE  SymbolicIsNew'
<1>1. /\ bitcode' = [o \in Outputs |-> 0] /\ manifest'.v = 0 /\ refusal' = status
      /\ sphase' = "end"
  BY DEF Refuse, NoManifest
<1>2. SymbolicResult'  BY <1>1 DEF SymbolicResult, Outputs
<1>3. OneBuild'  BY <1>1 DEF OneBuild
<1> QED  BY <1>1, <1>2, <1>3 DEF SymbolicIsNew, Working, Outputs

(* Each step of the symbolic build, on a directory whose sources are new.  *)
LEMMA BuildSymbolicKeeps ==
  ASSUME SymbolicIsNew, DiskInv, BuildSymbolic
  PROVE  SymbolicIsNew'
<1> USE DEF Working, Outputs
<1>0. UNCHANGED <<version, prog, disk, pc>> /\ pc = "symbolic"  BY DEF BuildSymbolic, ivars
<1>f. disk["state"].v = version  BY <1>0 DEF DiskInv, FilesAreNew
<1>1. CASE StartSymbolic
  BY <1>0, <1>1 DEF StartSymbolic, SymbolicIsNew, OneBuild
<1>2. CASE CleanOutput
  BY <1>0, <1>2 DEF CleanOutput, SymbolicIsNew, OneBuild
<1>3. CASE CleanRest
  BY <1>0, <1>3 DEF CleanRest, SymbolicIsNew, OneBuild, NoManifest
<1>4. CASE Cleaned
  <2>1. /\ sphase = "clean" /\ AllGone /\ manifest.v = 0 /\ refusal = "none"
        /\ UNCHANGED <<bitcode, partial, manifest>>
        /\ \/ sphase' = "target" /\ refusal' = refusal
           \/ sphase' = "end" /\ refusal' = "unsupported"
    BY <1>4 DEF Cleaned
  <2>2. refusal' = "unsupported" => SymbolicResult'
    BY <2>1 DEF AllGone, SymbolicResult
  <2>3. OneBuild'  BY <2>1 DEF OneBuild
  <2> QED  BY <1>0, <2>1, <2>2, <2>3 DEF SymbolicIsNew
<1>5. CASE RunTool
  <2>1. /\ sphase \in Outputs /\ sphase' = NextPhase(sphase)
        /\ bitcode' = [bitcode EXCEPT ![sphase] = Inputs(sphase)]
        /\ UNCHANGED <<partial, manifest, refusal>>
    BY <1>5 DEF RunTool
  <2>0. DOMAIN bitcode = Outputs /\ manifest.v = 0 /\ refusal = "none"
    BY <2>1 DEF SymbolicIsNew
  <2>0a. OneBuild'  BY <2>0, <2>1 DEF OneBuild
  <2>2. DOMAIN bitcode' = Outputs /\ manifest'.v = 0 /\ refusal' = "none" /\ OneBuild'
    BY <2>0, <2>0a, <2>1
  <2>3. /\ Order = <<"target", "harness", "models", "bundle">> /\ Len(Order) = 4
        /\ Order[1] = "target" /\ Order[2] = "harness" /\ Order[3] = "models"
        /\ Order[4] = "bundle" /\ DOMAIN Order = {1, 2, 3, 4}
    BY DEF Order
  <2>4. CASE sphase = "target"
    <3>1. bitcode'["target"] = version  BY <1>f, <2>1, <2>4 DEF SymbolicIsNew, Inputs
    <3>2. sphase' = "harness"
      <4>1. (CHOOSE k \in DOMAIN Order : Order[k] = "target") = 1  BY <2>3
      <4> QED  BY <2>1, <2>3, <2>4, <4>1 DEF NextPhase
    <3> QED  BY <1>0, <2>2, <3>1, <3>2 DEF SymbolicIsNew
  <2>5. CASE sphase = "harness"
    <3>1. bitcode'["target"] = version  BY <2>1, <2>5 DEF SymbolicIsNew
    <3>2. sphase' = "models"
      <4>1. (CHOOSE k \in DOMAIN Order : Order[k] = "harness") = 2  BY <2>3
      <4> QED  BY <2>1, <2>3, <2>5, <4>1 DEF NextPhase
    <3> QED  BY <1>0, <2>2, <3>1, <3>2 DEF SymbolicIsNew
  <2>6. CASE sphase = "models"
    <3>1. bitcode'["target"] = version  BY <2>1, <2>6 DEF SymbolicIsNew
    <3>2. sphase' = "bundle"
      <4>1. (CHOOSE k \in DOMAIN Order : Order[k] = "models") = 3  BY <2>3
      <4> QED  BY <2>1, <2>3, <2>6, <4>1 DEF NextPhase
    <3> QED  BY <1>0, <2>2, <3>1, <3>2 DEF SymbolicIsNew
  <2>7. CASE sphase = "bundle"
    <3>1. bitcode'["bundle"] = version  BY <2>1, <2>7 DEF SymbolicIsNew, Inputs
    <3>2. sphase' = "undefined"
      <4>1. (CHOOSE k \in DOMAIN Order : Order[k] = "bundle") = 4  BY <2>3
      <4> QED  BY <2>1, <2>3, <2>7, <4>1 DEF NextPhase
    <3> QED  BY <1>0, <2>2, <3>1, <3>2 DEF SymbolicIsNew
  <2> QED  BY <2>1, <2>4, <2>5, <2>6, <2>7
<1>6. CASE ToolFails
  BY <1>0, <1>6, RefuseLeavesNothing DEF ToolFails
<1>7. CASE CheckUndefined
  <2>1. CASE prog.undefined
    BY <1>0, <1>7, <2>1, RefuseLeavesNothing DEF CheckUndefined
  <2>2. CASE ~prog.undefined
    <3>1. /\ sphase = "undefined" /\ sphase' = "calls"
          /\ pending' = {"f"} /\ visited' = {} /\ symbols' = {}
          /\ UNCHANGED <<bitcode, partial, manifest, refusal>>
      BY <1>7, <2>2 DEF CheckUndefined
    <3>2. "f" \in Functions' BY DEF Functions
    <3>3. WalkIsClosed'  BY <3>1, <3>2 DEF WalkIsClosed
    <3> QED  BY <1>0, <3>1, <3>3 DEF SymbolicIsNew, OneBuild
  <2> QED  BY <2>1, <2>2
<1>8. CASE CloseCalls
  <2>1. sphase = "calls" /\ UNCHANGED <<bitcode, partial, manifest, refusal, sphase>>
    BY <1>8 DEF CloseCalls
  <2>2. WalkIsClosed'  BY <1>0, <1>8, <2>1, CloseCallsKeeps DEF SymbolicIsNew
  <2> QED  BY <1>0, <2>1, <2>2 DEF SymbolicIsNew, OneBuild
<1>9. CASE WriteManifest
  <2>1. /\ sphase = "calls" /\ pending = {} /\ sphase' = "end" /\ refusal' = "none"
        /\ UNCHANGED <<bitcode, partial>>
        /\ manifest' = [v |-> bitcode["bundle"],
                        imprecise |-> (symbols \cap Approximate) \cup Concretizing]
    BY <1>9 DEF WriteManifest
  <2>2. bitcode["bundle"] = version  BY <2>1 DEF SymbolicIsNew
  <2>3. Reached \subseteq symbols  BY <2>1, WalkFindsReached DEF SymbolicIsNew
  <2>4. Imprecision \subseteq manifest'.imprecise  BY <2>1, <2>3 DEF Imprecision
  <2>5. Functions' = Functions  BY <1>0 DEF Functions
  <2>6. Imprecision' = Imprecision
    BY <1>0, <2>5 DEF Imprecision, Reached, Runs, ClosedUnderCalls
  <2>7. manifest'.v = version  BY <2>1, <2>2
  <2>8. SymbolicResult'  BY <1>0, <2>1, <2>2, <2>4, <2>6, <2>7 DEF SymbolicResult
  <2>9. OneBuild'  BY <2>1 DEF OneBuild
  <2> QED  BY <1>0, <2>1, <2>8, <2>9 DEF SymbolicIsNew
<1> QED
  BY <1>1, <1>2, <1>3, <1>4, <1>5, <1>6, <1>7, <1>8, <1>9 DEF BuildSymbolic, StepSymbolic

(***************************************************************************)
(* The run's copy of the bundle.                                           *)
(***************************************************************************)

WholeBundle ==
  /\ bundle.contract = "supported" /\ bundle.refusal = "none"
  /\ bundle.v = version /\ bundle.manifest.v = version
  /\ Imprecision \subseteq bundle.manifest.imprecise

NoBundle ==
  /\ bundle.contract = "unsupported" /\ bundle.refusal = "unsupported"
  /\ bundle.v = 0 /\ bundle.manifest.v = 0

(* Symbolic execution was off: what an earlier build has left.             *)
OldBundle ==
  /\ bundle.contract = "not built"
  /\ bundle.manifest.v > 0 => bundle.refusal = "none" /\ bundle.v \in {0, bundle.manifest.v}

BundleInv == qphase # "off" => pc = "built" /\ (WholeBundle \/ NoBundle \/ OldBundle)

(***************************************************************************)
(* The query that is being answered.                                       *)
(***************************************************************************)

Can == {f \in query.symbolic : KindOf[f] # "wide"}

Reals == {f \in scope.symbolic : KindOf[f] = "real"}

Linked == {"precision", "klee", "results", "replay"}
Started == {"driver", "link"} \cup Linked

ScopeIsOfQuery == scope.symbolic = Can /\ scope.concretized = query.symbolic \ Can

WorkShape ==
  /\ DOMAIN workdir = {r.id : r \in Requests}
  /\ \A i \in DOMAIN workdir : DOMAIN workdir[i] = {"goals", "tests"}

(* What makes an answer without a goal worthless and is known before KLEE. *)
Doubts == bundle.manifest.imprecise \cup scope.concretized \cup Reals

ResultsAreRuns ==
  Out.goals \subseteq RawRuns(scope.symbolic) /\ Out.tests \subseteq RawRuns(scope.symbolic)

Unreachable == \A r \in Requested : Printable(r) => ~Meets(Prefixed, r)

(* The search was a whole one of this build's bitcode.                     *)
Searched == log = "all" /\ ~query.stops /\ bundle.contract = "supported"

UnsatIsTrue == Searched /\ ~ApproximateModel /\ Out.goals = {} => Unreachable

QueryInv ==
  /\ query \in Requests
  /\ WorkShape
  /\ DOMAIN scope = {"symbolic", "concretized", "imprecise"}
  /\ qphase \in {"off", "ready", "check", "answered"} \cup Started
  /\ qphase # "answered" => answer = NoAnswer
  /\ qphase \in Started => bundle.refusal = "none"
  /\ qphase \in {"check"} \cup Started => ScopeIsOfQuery
  /\ qphase \in {"precision", "klee"} => Out = NoOut
  /\ qphase \in {"klee", "results", "replay"} => Doubts \subseteq scope.imprecise
  /\ qphase \in {"results", "replay"} => ResultsAreRuns
  /\ qphase = "results" => UnsatIsTrue
  /\ qphase = "replay" => candidate \in Requested
  /\ AnswersAreFacts

(* No answer is a claim.                                                   *)
LEMMA NoAnswerIsFact ==
  ASSUME answer = NoAnswer  PROVE AnswersAreFacts
BY DEF NoAnswer, AnswersAreFacts, UnsatIsProof, SatIsNative, CandidateIsOfQuery

(* A field that KLEE leaves open or that it fixes: what a test says of the *)
(* frames is a run that the request allows.                                *)
LEMMA TestcaseIsRequested ==
  ASSUME query \in Requests, NEW r \in RawRuns(Can)
  PROVE  Testcase(r) \in Requested
<1> USE RequestsAssumption
<1>1. query.base \in Frame /\ query.window \in Nat  OBVIOUS
<1>2. r \in [1 .. query.window -> RawFrames(Can)]  BY DEF RawRuns
<1>3. \A i \in 1 .. query.window : r[i] \in RawFrames(Can)  BY <1>2
<1>4. ASSUME NEW i \in 1 .. query.window
      PROVE  /\ FieldFromObjects(r[i]) \in Frame
             /\ \A f \in Fields \ query.symbolic : FieldFromObjects(r[i])[f] = query.base[f]
  <2>1. /\ r[i] \in [Fields -> Value \cup {NotFinite}]
        /\ \A f \in Fields : f \notin Can => r[i][f] = query.base[f]
    BY <1>3 DEF RawFrames
  <2>2. \A f \in Fields : query.base[f] \in Value  BY <1>1 DEF Frame
  <2>3. \A f \in Fields : FieldFromObjects(r[i])[f] \in Value
    BY <2>1, <2>2 DEF FieldFromObjects
  <2>4. FieldFromObjects(r[i]) \in [Fields -> Value]  BY <2>3 DEF FieldFromObjects
  <2>5. \A f \in Fields \ query.symbolic : FieldFromObjects(r[i])[f] = query.base[f]
    BY <2>1 DEF FieldFromObjects, Can
  <2> QED  BY <2>4, <2>5 DEF Frame
<1>5. DOMAIN r = 1 .. query.window  BY <1>2
<1> QED  BY <1>4, <1>5 DEF Testcase, Requested

(* When every requested field is symbolic and none is a float, KLEE        *)
(* searches all the runs that the request allows whose texts are printable.*)
LEMMA RequestedIsSearched ==
  ASSUME query \in Requests, Can = query.symbolic, NEW r \in Requested, Printable(r)
  PROVE  r \in RawRuns(Can)
<1>1. r \in [1 .. query.window ->
               {x \in Frame : \A f \in Fields \ query.symbolic : x[f] = query.base[f]}]
  BY DEF Requested
<1>2. ASSUME NEW i \in 1 .. query.window  PROVE r[i] \in RawFrames(Can)
  <2>1. /\ r[i] \in [Fields -> Value]
        /\ \A f \in Fields \ query.symbolic : r[i][f] = query.base[f]
    BY <1>1, <1>2 DEF Frame
  <2>2. \A f \in query.symbolic : KindOf[f] = "string" => r[i][f] = 0
    BY <1>1, <1>2 DEF Printable
  <2>3. ASSUME NEW f \in Fields
        PROVE  IF f \in Can THEN r[i][f] \in RawValue(f) ELSE r[i][f] = query.base[f]
    <3>1. r[i][f] \in Value  BY <2>1
    <3>2. CASE f \in Can
      <4>1. KindOf[f] = "string" => r[i][f] = 0  BY <2>2, <3>2
      <4> QED  BY <3>1, <3>2, <4>1 DEF RawValue
    <3>3. CASE f \notin Can  BY <2>1, <3>3
    <3> QED  BY <3>2, <3>3
  <2>4. r[i] \in [Fields -> Value \cup {NotFinite}]  BY <2>1
  <2> QED  BY <2>3, <2>4 DEF RawFrames
<1> QED  BY <1>1, <1>2 DEF RawRuns

(* Nothing is asked at first.                                              *)
LEMMA QueryInit == Init => BundleInv /\ QueryInv
<1> SUFFICES ASSUME Init  PROVE BundleInv /\ QueryInv  OBVIOUS
<1>1. InitQuery  BY DEF Init
<1>2. AnswersAreFacts  BY <1>1, NoAnswerIsFact DEF InitQuery
<1>3. qphase = "off" /\ answer = NoAnswer /\ query \in Requests  BY <1>1 DEF InitQuery
<1>4. WorkShape  BY <1>1 DEF InitQuery, WorkShape, NoOut
<1>5. DOMAIN scope = {"symbolic", "concretized", "imprecise"}
  BY <1>1 DEF InitQuery, NoScope
<1> QED  BY <1>2, <1>3, <1>4, <1>5 DEF BundleInv, QueryInv, Started, Linked

(* A build goes on while no run has a copy.                                *)
LEMMA QueryUntouched ==
  ASSUME BundleInv, QueryInv, UNCHANGED qvars, qphase = "off"
  PROVE  BundleInv' /\ QueryInv'
<1>1. UNCHANGED <<bundle, query, scope, workdir, log, candidate, answer, asked, qphase>>
  BY DEF qvars
<1>2. answer' = NoAnswer  BY <1>1 DEF QueryInv
<1>3. AnswersAreFacts'
  BY <1>2 DEF NoAnswer, AnswersAreFacts, UnsatIsProof, SatIsNative, CandidateIsOfQuery
<1>4. WorkShape'  BY <1>1 DEF QueryInv, WorkShape
<1> QED  BY <1>1, <1>2, <1>3, <1>4 DEF BundleInv, QueryInv, Started, Linked

(* A query leaves program, build and copy as they are.                     *)
LEMMA BundleKept ==
  ASSUME BundleInv, UNCHANGED <<ivars, bundle>>, qphase # "off"
  PROVE  BundleInv'
<1>1. UNCHANGED <<version, prog, pc>>  BY DEF ivars
<1>2. Functions' = Functions  BY <1>1 DEF Functions
<1>3. Imprecision' = Imprecision
  BY <1>1, <1>2 DEF Imprecision, Reached, Runs, ClosedUnderCalls
<1>4. WholeBundle => WholeBundle'  BY <1>1, <1>3 DEF WholeBundle
<1>5. (NoBundle => NoBundle') /\ (OldBundle => OldBundle')  BY DEF NoBundle, OldBundle
<1> QED  BY <1>1, <1>4, <1>5 DEF BundleInv

(* What a run may be is the request's and the program's.                   *)
LEMMA RequestKept ==
  ASSUME UNCHANGED <<prog, query>>
  PROVE  /\ Can' = Can /\ Requested' = Requested /\ Prefixed' = Prefixed
         /\ Unreachable' = Unreachable
         /\ \A s : RawRuns(s)' = RawRuns(s)
         /\ \A p, frames : Meets(p, frames)' = Meets(p, frames)
         /\ \A r : Printable(r)' = Printable(r)
BY DEF Can, Requested, Prefixed, Unreachable, RawRuns, RawFrames, Meets, Agrees, Printable

(* An answer without a goal is a proof if the search was complete.         *)
LEMMA AnswerWithoutGoal ==
  ASSUME QueryInv, qphase = "results", Out.goals = {}, UNCHANGED <<prog, query, bundle, log>>,
         NEW frames, frames = <<>> \/ frames \in Requested,
         answer' = [status |-> NoGoalStatus, candidate |-> frames]
  PROVE  AnswersAreFacts'
<1>1. answer'.status = NoGoalStatus /\ answer'.candidate = frames  OBVIOUS
<1>2. NoGoalStatus = "UNSAT" /\ Searched => Unreachable  BY DEF NoGoalStatus, QueryInv, UnsatIsTrue
<1>3. NoGoalStatus \notin {"SAT", "SAT_APPROX"}  BY DEF NoGoalStatus
<1>4. UnsatIsProof'
  <2>1. Searched' <=> Searched  BY DEF Searched
  <2>2. answer'.status = "UNSAT" /\ Searched' => Unreachable'  BY <1>1, <1>2, <2>1, RequestKept
  <2> QED  BY <2>2 DEF UnsatIsProof, Unreachable, Searched
<1>5. SatIsNative'  BY <1>1, <1>3 DEF SatIsNative
<1>6. CandidateIsOfQuery'  BY <1>1, RequestKept DEF CandidateIsOfQuery
<1> QED  BY <1>4, <1>5, <1>6 DEF AnswersAreFacts

(* An answer that claims nothing.                                          *)
LEMMA AnswerWithoutClaim ==
  ASSUME UNCHANGED <<prog, query>>,
         NEW status, status \notin {"UNSAT", "SAT", "SAT_APPROX"},
         NEW frames, frames = <<>> \/ frames \in Requested,
         answer' = [status |-> status, candidate |-> frames]
  PROVE  AnswersAreFacts'
<1>1. answer'.status = status /\ answer'.candidate = frames  OBVIOUS
<1> QED
  BY <1>1, RequestKept DEF AnswersAreFacts, UnsatIsProof, SatIsNative, CandidateIsOfQuery

(* A question starts from the copy and from its own request.               *)
LEMMA AskKeeps ==
  ASSUME BundleInv, QueryInv, UNCHANGED <<ivars, svars, lvars>>,
         NEW r \in Requests, Ask(r)
  PROVE  BundleInv' /\ QueryInv'
<1>1. /\ query' = r /\ answer' = NoAnswer /\ qphase' = "check"
      /\ scope' = SymbolicScope(r.symbolic)
      /\ qphase # "off" /\ UNCHANGED <<bundle, workdir>>
  BY DEF Ask
<1>2. BundleInv'  BY <1>1, BundleKept
<1>3. AnswersAreFacts'
  BY <1>1 DEF NoAnswer, AnswersAreFacts, UnsatIsProof, SatIsNative, CandidateIsOfQuery
<1>4. ScopeIsOfQuery' /\ DOMAIN scope' = {"symbolic", "concretized", "imprecise"}
  BY <1>1 DEF SymbolicScope, ScopeIsOfQuery, Can
<1>5. WorkShape'  BY <1>1 DEF QueryInv, WorkShape
<1> QED  BY <1>1, <1>2, <1>3, <1>4, <1>5 DEF QueryInv, Started, Linked

(* Every step of an answer.                                                *)
LEMMA StepQueryKeeps ==
  ASSUME BundleInv, QueryInv, UNCHANGED <<ivars, svars, lvars>>, StepQuery
  PROVE  BundleInv' /\ QueryInv'
<1> USE DEF Started, Linked
<1>0. UNCHANGED <<bundle, query, prog>> /\ UNCHANGED ivars
  BY DEF StepQuery, CheckBundle, ToolOfQueryFails, CompileDriver, LinkQuery, CollectImprecise,
         RunKlee, NoGoal, TakeGoal, ReplayTimeout, ReplayNative, KeepQuery, ivars
<1>1. qphase # "off"
  BY DEF StepQuery, CheckBundle, ToolOfQueryFails, CompileDriver, LinkQuery, CollectImprecise,
         RunKlee, NoGoal, TakeGoal, ReplayTimeout, ReplayNative
<1>2. BundleInv'  BY <1>0, <1>1, BundleKept
<1>3. Can' = Can /\ Requested' = Requested  BY <1>0, RequestKept
<1>4. query' \in Requests  BY <1>0 DEF QueryInv
(* An answer ends the query.                                               *)
<1>5. ASSUME qphase' = "answered", AnswersAreFacts', UNCHANGED <<scope, workdir>>
      PROVE  QueryInv'
  <2>1. WorkShape'  BY <1>5 DEF QueryInv, WorkShape
  <2> QED  BY <1>4, <1>5, <2>1 DEF QueryInv
<1>6. CASE CheckBundle
  <2>1. CASE Refused
    <3>1. /\ qphase' = "answered" /\ UNCHANGED <<scope, workdir>>
          /\ answer' = [status |-> answer'.status, candidate |-> <<>>]
          /\ answer'.status \notin {"UNSAT", "SAT", "SAT_APPROX"}
      <4>1. PICK s \in {"FAILED", "TIMEOUT", "UNSUPPORTED"} : Answer(s, <<>>)
        BY <1>6, <2>1 DEF CheckBundle
      <4> QED  BY <1>6, <4>1 DEF Answer, CheckBundle
    <3>2. PICK s : s = answer'.status  OBVIOUS
    <3>3. answer' = [status |-> s, candidate |-> <<>>]  BY <3>1, <3>2
    <3>4. s \notin {"UNSAT", "SAT", "SAT_APPROX"}  BY <3>1, <3>2
    <3>5. AnswersAreFacts'  BY <1>0, <3>3, <3>4, AnswerWithoutClaim
    <3> QED  BY <1>2, <1>5, <3>1, <3>5
  <2>2. CASE ~Refused
    <3>1. /\ qphase = "check" /\ qphase' = "driver"
          /\ UNCHANGED <<answer, scope, workdir>>
      BY <1>6, <2>2 DEF CheckBundle
    <3>2. bundle.refusal = "none"  BY <2>2 DEF Refused
    <3>3. answer' = NoAnswer  BY <3>1 DEF QueryInv
    <3>4. AnswersAreFacts'
      BY <3>3 DEF NoAnswer, AnswersAreFacts, UnsatIsProof, SatIsNative, CandidateIsOfQuery
    <3>5. ScopeIsOfQuery' /\ WorkShape'
      BY <1>0, <1>3, <3>1 DEF QueryInv, ScopeIsOfQuery, WorkShape
    <3> QED  BY <1>0, <1>2, <1>4, <3>1, <3>2, <3>3, <3>4, <3>5 DEF QueryInv
  <2> QED  BY <2>1, <2>2
<1>7. CASE ToolOfQueryFails
  <2>1. PICK s \in {"UNSUPPORTED", "FAILED", "TIMEOUT"} : Answer(s, <<>>)
    BY <1>7 DEF ToolOfQueryFails
  <2>2. AnswersAreFacts'  BY <1>0, <2>1, AnswerWithoutClaim DEF Answer
  <2>3. qphase' = "answered" /\ UNCHANGED <<scope, workdir>>
    BY <1>7, <2>1 DEF Answer, ToolOfQueryFails
  <2> QED  BY <1>2, <1>5, <2>2, <2>3
(* A step on the way to KLEE answers nothing.                              *)
<1>8. ASSUME UNCHANGED answer, qphase # "answered"
      PROVE  answer' = NoAnswer /\ AnswersAreFacts'
  <2>1. answer' = NoAnswer  BY <1>8 DEF QueryInv
  <2> QED
    BY <2>1 DEF NoAnswer, AnswersAreFacts, UnsatIsProof, SatIsNative, CandidateIsOfQuery
<1>9. CASE CompileDriver
  <2>1. qphase = "driver" /\ qphase' = "link" /\ UNCHANGED <<scope, workdir, answer>>
    BY <1>9 DEF CompileDriver
  <2>2. ScopeIsOfQuery' /\ WorkShape'
    BY <1>0, <1>3, <2>1 DEF QueryInv, ScopeIsOfQuery, WorkShape
  <2> QED  BY <1>0, <1>2, <1>4, <1>8, <2>1, <2>2 DEF QueryInv
<1>10. CASE LinkQuery
  <2>1. /\ qphase = "link" /\ qphase' = "precision" /\ UNCHANGED <<scope, answer>>
        /\ workdir' = [workdir EXCEPT ![query.id] = NoOut]
    BY <1>10 DEF LinkQuery, ClearOutput
  <2>2. query.id \in DOMAIN workdir  BY DEF QueryInv, WorkShape
  <2>3. Out' = NoOut  BY <1>0, <2>1, <2>2 DEF Out
  <2>4. WorkShape'  BY <2>1 DEF QueryInv, WorkShape, NoOut
  <2>5. ScopeIsOfQuery'  BY <1>0, <1>3, <2>1 DEF QueryInv, ScopeIsOfQuery
  <2> QED  BY <1>0, <1>2, <1>4, <1>8, <2>1, <2>3, <2>4, <2>5 DEF QueryInv
<1>11. CASE CollectImprecise
  <2>1. /\ qphase = "precision" /\ qphase' = "klee" /\ UNCHANGED <<workdir, answer>>
        /\ scope' = [scope EXCEPT !.imprecise = Doubts]
    BY <1>11 DEF CollectImprecise, Doubts, Reals
  <2>2. /\ scope'.symbolic = scope.symbolic /\ scope'.concretized = scope.concretized
        /\ scope'.imprecise = Doubts /\ DOMAIN scope' = DOMAIN scope
    BY <2>1 DEF QueryInv
  <2>3. Doubts' = Doubts  BY <1>0, <2>2 DEF Doubts, Reals
  <2>4. ScopeIsOfQuery' /\ WorkShape' /\ Out' = NoOut
    BY <1>0, <1>3, <2>1, <2>2 DEF QueryInv, ScopeIsOfQuery, WorkShape, Out
  <2> QED  BY <1>0, <1>2, <1>4, <1>8, <2>1, <2>2, <2>3, <2>4 DEF QueryInv
<1>12. CASE RunKlee
  <2> DEFINE runs == RawRuns(scope.symbolic)
             good == {x \in runs : Meets(Prefixed, x)}
             found(g, t) == [workdir EXCEPT ![query.id] =
                               [goals |-> workdir[query.id].goals \cup g,
                                tests |-> workdir[query.id].tests \cup t]]
  <2>1. PICK goals \in SUBSET runs, tests \in SUBSET runs, done \in {"all", "partly", "none"} :
          /\ Exact => goals \subseteq good /\ (done = "all" => (goals = {} <=> good = {}))
          /\ workdir' = found(goals, tests) /\ log' = done
    BY <1>12 DEF RunKlee
  <2>2. /\ qphase = "klee" /\ qphase' = "results" /\ UNCHANGED answer
        /\ scope' = [scope EXCEPT !.imprecise = @ \cup prog.hidden]
    BY <1>12 DEF RunKlee
  <2>3. /\ scope'.symbolic = scope.symbolic /\ scope'.concretized = scope.concretized
        /\ scope'.imprecise = scope.imprecise \cup prog.hidden
        /\ DOMAIN scope' = DOMAIN scope
    BY <2>2 DEF QueryInv
  <2>4. Doubts' = Doubts  BY <1>0, <2>3 DEF Doubts, Reals
  <2>5. query.id \in DOMAIN workdir /\ Out = NoOut  BY <2>2 DEF QueryInv, WorkShape
  <2>6. Out' = [goals |-> goals, tests |-> tests]
    BY <1>0, <2>1, <2>5 DEF Out, NoOut
  <2>7. WorkShape'  BY <2>1 DEF QueryInv, WorkShape
  <2>8. ScopeIsOfQuery'  BY <1>0, <1>3, <2>2, <2>3 DEF QueryInv, ScopeIsOfQuery
  <2>9. RawRuns(scope.symbolic)' = runs  BY <1>0, <2>3 DEF RawRuns, RawFrames
  <2>10. ResultsAreRuns'  BY <2>6, <2>9 DEF ResultsAreRuns
  <2>11. UnsatIsTrue'
    <3> HIDE DEF found
    <3> SUFFICES ASSUME Searched', ~ApproximateModel', Out'.goals = {}
                 PROVE  Unreachable'
      BY DEF UnsatIsTrue
    <3>0. ~query.stops /\ bundle.contract = "supported" /\ log' = "all"  BY <1>0 DEF Searched
    <3>1. goals = {} /\ done = "all"  BY <2>1, <2>6, <3>0
    <3>2. scope.imprecise = {} /\ prog.hidden = {} /\ ~bundle.approximate
      BY <1>0, <2>3 DEF ApproximateModel
    <3>3. bundle.manifest.imprecise = {} /\ scope.concretized = {} /\ Reals = {}
      BY <2>2, <3>2 DEF QueryInv, Doubts
    <3>4. Imprecision = {} /\ bundle.v = version
      <4>1. WholeBundle  BY <1>1, <3>0 DEF BundleInv, NoBundle, OldBundle
      <4> QED  BY <3>3, <4>1 DEF WholeBundle
    <3>5. Exact  BY <3>0, <3>2, <3>3, <3>4 DEF Exact, Imprecision, Reals
    <3>6. good = {}  BY <2>1, <3>1, <3>5
    <3>7. scope.symbolic = Can /\ Can = query.symbolic
      BY <2>2, <3>3 DEF QueryInv, ScopeIsOfQuery, Can
    <3>8. \A r \in Requested : Printable(r) => r \in runs  BY <3>7, RequestedIsSearched DEF QueryInv
    <3>9. Unreachable  BY <3>6, <3>8 DEF Unreachable
    <3> QED  BY <1>0, <3>9, RequestKept
  <2> QED
    BY <1>0, <1>2, <1>4, <1>8, <2>2, <2>3, <2>4, <2>7, <2>8, <2>10, <2>11 DEF QueryInv
<1>13. CASE NoGoal
  <2>1. qphase = "results" /\ Out.goals = {} /\ UNCHANGED <<scope, workdir>>
    BY <1>13 DEF NoGoal
  <2>2. scope.symbolic = Can /\ ResultsAreRuns  BY <2>1 DEF QueryInv, ScopeIsOfQuery
  <2>3. \A x \in Out.tests : Testcase(x) \in Requested
    BY <2>2, TestcaseIsRequested DEF ResultsAreRuns, QueryInv
  <2>4. PICK frames : /\ frames = <<>> \/ frames \in Requested
                      /\ Answer(NoGoalStatus, frames)
    BY <1>13, <2>3 DEF NoGoal
  <2>5. AnswersAreFacts'
    <3>1. UNCHANGED log  BY <1>13 DEF NoGoal
    <3> QED  BY <1>0, <2>1, <2>4, <3>1, AnswerWithoutGoal DEF Answer
  <2> QED  BY <1>2, <1>5, <2>1, <2>4, <2>5 DEF Answer
<1>14. CASE TakeGoal
  <2>1. qphase = "results" /\ UNCHANGED <<scope, workdir, log>>
    BY <1>14 DEF TakeGoal
  <2>2. scope.symbolic = Can /\ ResultsAreRuns  BY <2>1 DEF QueryInv, ScopeIsOfQuery
  <2>3. CASE Answer("UNKNOWN", <<>>)
    <3>1. AnswersAreFacts'  BY <1>0, <2>3, AnswerWithoutClaim DEF Answer
    <3> QED  BY <1>2, <1>5, <2>1, <2>3, <3>1 DEF Answer
  <2>4. CASE \E x \in Out.goals : candidate' = Testcase(x) /\ qphase' = "replay"
                                   /\ UNCHANGED answer
    <3>1. PICK x \in Out.goals : /\ candidate' = Testcase(x) /\ qphase' = "replay"
                                 /\ UNCHANGED answer
      BY <2>4
    <3>2. candidate' \in Requested  BY <2>2, <3>1, TestcaseIsRequested DEF ResultsAreRuns, QueryInv
    <3>3. ScopeIsOfQuery' /\ WorkShape' /\ Doubts' = Doubts /\ Out' = Out
      BY <1>0, <1>3, <2>1 DEF QueryInv, ScopeIsOfQuery, WorkShape, Doubts, Reals, Out
    <3>4. RawRuns(scope.symbolic)' = RawRuns(scope.symbolic)
      BY <1>0, <2>1 DEF RawRuns, RawFrames
    <3>5. ResultsAreRuns'  BY <2>2, <3>3, <3>4 DEF ResultsAreRuns
    <3> QED
      BY <1>0, <1>2, <1>3, <1>4, <1>8, <2>1, <3>1, <3>2, <3>3, <3>5 DEF QueryInv
  <2> QED  BY <1>14, <2>3, <2>4 DEF TakeGoal
<1>15. CASE ReplayTimeout
  <2>1. qphase = "replay" /\ Answer("TIMEOUT", candidate) /\ UNCHANGED <<scope, workdir>>
    BY <1>15 DEF ReplayTimeout
  <2>2. candidate \in Requested  BY <2>1 DEF QueryInv
  <2>3. AnswersAreFacts'  BY <1>0, <2>1, <2>2, AnswerWithoutClaim DEF Answer
  <2> QED  BY <1>2, <1>5, <2>1, <2>3 DEF Answer
<1>16. CASE ReplayNative
  <2>1. qphase = "replay" /\ UNCHANGED <<scope, workdir>>  BY <1>16 DEF ReplayNative
  <2>2. candidate \in Requested  BY <2>1 DEF QueryInv
  <2>3. PICK s \in {"REPLAY_MISMATCH", "SAT_APPROX", "SAT"} :
          /\ Answer(s, candidate)
          /\ s # "REPLAY_MISMATCH" => GoalObserved
    BY <1>16 DEF ReplayNative
  <2>4. /\ answer' = [status |-> s, candidate |-> candidate] /\ qphase' = "answered"
    BY <2>3 DEF Answer
  <2>5. UnsatIsProof'  BY <2>4 DEF UnsatIsProof
  <2>6. SatIsNative'
    <3>1. PICK p, frames : p = Prefixed /\ frames = candidate  OBVIOUS
    <3>2. Prefixed' = p /\ Meets(p, frames)' = Meets(p, frames)
      BY <1>0, <3>1, RequestKept
    <3>3. answer'.status = s /\ answer'.candidate = frames  BY <2>4, <3>1
    <3>4. s # "REPLAY_MISMATCH" => Meets(p, frames)  BY <2>3, <3>1 DEF GoalObserved
    <3>5. s # "REPLAY_MISMATCH" => Meets(Prefixed, answer.candidate)'
      BY <1>0, <3>2, <3>3, <3>4 DEF Meets, Agrees
    <3> QED  BY <3>3, <3>5 DEF SatIsNative
  <2>7. CandidateIsOfQuery'  BY <1>3, <2>2, <2>4 DEF CandidateIsOfQuery
  <2>8. AnswersAreFacts'  BY <2>5, <2>6, <2>7 DEF AnswersAreFacts
  <2> QED  BY <1>2, <1>5, <2>1, <2>4, <2>8
<1> QED
  BY <1>6, <1>7, <1>9, <1>10, <1>11, <1>12, <1>13, <1>14, <1>15, <1>16 DEF StepQuery

(* The run takes over what the build has left, and nothing else.           *)
LEMMA CopyKeeps ==
  ASSUME SymbolicIsNew, BundleInv, QueryInv, CopyBundle
  PROVE  BundleInv' /\ QueryInv'
<1>1. /\ pc = "built" /\ qphase' = "ready"
      /\ bundle' = [v |-> bitcode["bundle"], manifest |-> manifest, refusal |-> refusal,
                    approximate |-> prog.stub, contract |-> contract]
      /\ UNCHANGED <<version, prog, pc, query, scope, workdir, log, candidate, answer>>
  BY DEF CopyBundle, ivars
<1>2. qphase = "off"  BY DEF CopyBundle
<1>3. (contract = "not built" \/ ContractIsTrue) /\ OneBuild
  BY <1>1 DEF SymbolicIsNew
<1>4. Functions' = Functions  BY <1>1 DEF Functions
<1>5. Imprecision' = Imprecision
  BY <1>1, <1>4 DEF Imprecision, Reached, Runs, ClosedUnderCalls
<1>6. BundleInv'
  <2>1. CASE ContractIsTrue /\ refusal = "none"
    BY <1>1, <1>5, <2>1 DEF ContractIsTrue, SymbolicResult, BundleInv, WholeBundle
  <2>2. CASE ContractIsTrue /\ refusal = "unsupported"
    BY <1>1, <2>2 DEF ContractIsTrue, SymbolicResult, BundleInv, NoBundle
  <2>3. CASE contract = "not built"
    BY <1>1, <1>3, <2>3 DEF OneBuild, BundleInv, OldBundle
  <2> QED  BY <1>3, <2>1, <2>2, <2>3 DEF ContractIsTrue, ExitsCleanly
<1>7. answer' = NoAnswer  BY <1>1, <1>2 DEF QueryInv
<1>8. AnswersAreFacts'
  BY <1>7 DEF NoAnswer, AnswersAreFacts, UnsatIsProof, SatIsNative, CandidateIsOfQuery
<1>9. WorkShape'  BY <1>1 DEF QueryInv, WorkShape
<1> QED  BY <1>1, <1>6, <1>7, <1>8, <1>9 DEF QueryInv, Started, Linked

(* The next build finds no copy and no answer.                             *)
LEMMA RunOverKeeps ==
  ASSUME BundleInv, QueryInv, RunOver
  PROVE  BundleInv' /\ QueryInv'
<1>1. /\ qphase' = "off" /\ answer' = NoAnswer /\ query' \in Requests
      /\ scope' = NoScope /\ workdir' = [i \in DOMAIN workdir |-> NoOut]
  BY DEF RunOver
<1>2. AnswersAreFacts'
  BY <1>1 DEF NoAnswer, AnswersAreFacts, UnsatIsProof, SatIsNative, CandidateIsOfQuery
<1>3. WorkShape'  BY <1>1 DEF QueryInv, WorkShape, NoOut
<1>4. DOMAIN scope' = {"symbolic", "concretized", "imprecise"}  BY <1>1 DEF NoScope
<1> QED  BY <1>1, <1>2, <1>3, <1>4 DEF BundleInv, QueryInv, Started, Linked

(***************************************************************************)
(* The walk over the blocks of a function.                                 *)
(***************************************************************************)

BodyShape ==
  /\ Blocks \subseteq DOMAIN body.line
  /\ \A b \in Blocks : body.line[b] \in Seq(Range(body.line[b]))

Jump(b, c) == c \in Blocks /\ \E j \in 1 .. Len(body.line[b]) : body.line[b][j] = c

(* Where an edge may lead that the walk has followed.                      *)
Settled(c) == state[c] = 2 \/ c \in headers

OpenShape ==
  /\ state \in [Blocks -> {0, 1, 2}]
  /\ open \in Seq(Blocks \X Nat)
  /\ \A i, j \in 1 .. Len(open) : open[i][1] = open[j][1] => i = j
  /\ \A b \in Blocks : state[b] = 1 <=> \E i \in 1 .. Len(open) : open[i][1] = b

LeftIsSettled == \A b, c \in Blocks : state[b] = 2 /\ Jump(b, c) => Settled(c)

(* The last edge that an open block has followed leads to the block above  *)
(* it, the others to settled ones.                                         *)
OpenIsSettled ==
  \A i \in 1 .. Len(open) : \A j \in 1 .. Len(body.line[open[i][1]]) :
    LET c == body.line[open[i][1]][j] IN
    j < open[i][2] /\ c \in Blocks =>
      Settled(c) \/ (i < Len(open) /\ open[i + 1][1] = c)

(* A loop that has been left passes a header.                              *)
Quiet(s) ==
  /\ s \subseteq Blocks /\ s # {}
  /\ \A b \in s : state[b] = 2 /\ b \notin headers
  /\ \A b \in s : \E c \in s : Jump(b, c)

LeftLoopsPassHeaders == \A s \in SUBSET Blocks : ~Quiet(s)

DoneIsDone ==
  walk = "done" => ticked = headers /\ \A b \in Blocks : state[b] = 2

LoopInv ==
  /\ BodyShape /\ OpenShape /\ LeftIsSettled /\ OpenIsSettled
  /\ LeftLoopsPassHeaders /\ DoneIsDone

(* Every loop of branches passes a tick when the walk is done.             *)
LEMMA TicksFollow == LoopInv => BranchLoopsTick
<1> SUFFICES ASSUME LoopInv, walk = "done", Silent(BranchJumps)  PROVE FALSE
  BY DEF BranchLoopsTick
<1>1. ticked = headers /\ \A b \in Blocks : state[b] = 2  BY DEF LoopInv, DoneIsDone
<1>2. PICK s \in (SUBSET (Blocks \ ticked)) \ {{}} :
        \A b \in s : \E c \in s : <<b, c>> \in BranchJumps
  BY DEF Silent
<1>3. ASSUME NEW b \in s  PROVE \E c \in s : Jump(b, c)
  <2>1. PICK c \in s : <<b, c>> \in BranchJumps  BY <1>2
  <2>2. b \in Blocks /\ c \in Blocks /\ c \in Range(body.line[b])  BY <2>1 DEF BranchJumps
  <2>3. body.line[b] \in Seq(Range(body.line[b]))  BY <2>2 DEF LoopInv, BodyShape
  <2>4. \E j \in DOMAIN body.line[b] : body.line[b][j] = c  BY <2>2 DEF Range
  <2>5. DOMAIN body.line[b] = 1 .. Len(body.line[b])  BY <2>3
  <2> QED  BY <2>2, <2>4, <2>5 DEF Jump
<1>4. Quiet(s)  BY <1>1, <1>2, <1>3 DEF Quiet
<1> QED  BY <1>2, <1>4 DEF LoopInv, LeftLoopsPassHeaders

(* A walk that has not begun.                                              *)
FreshState ==
  /\ BodyShape /\ state = [x \in Blocks |-> 0] /\ open = <<>>
  /\ headers = {} /\ walk = "visit"

(* Nothing is claimed of it.                                               *)
LEMMA FreshWalk == FreshState => LoopInv
<1> SUFFICES ASSUME FreshState  PROVE LoopInv  OBVIOUS
<1> USE DEF FreshState
<1>0. <<>> \in Seq(Blocks \X Nat)  OBVIOUS
<1>1. OpenShape
  <2>1. Len(open) = 0 /\ 1 .. Len(open) = {}  OBVIOUS
  <2>2. \A b \in Blocks : state[b] = 0  OBVIOUS
  <2> QED  BY <1>0, <2>1, <2>2 DEF OpenShape
<1>2. LeftIsSettled  BY DEF LeftIsSettled
<1>3. OpenIsSettled  BY DEF OpenIsSettled
<1>4. LeftLoopsPassHeaders  BY DEF LeftLoopsPassHeaders, Quiet
<1> QED  BY <1>1, <1>2, <1>3, <1>4 DEF LoopInv, DoneIsDone

(* The walk's invariant is about its own variables.                        *)
LEMMA LoopStutter == ASSUME LoopInv, UNCHANGED lvars  PROVE LoopInv'
<1>1. UNCHANGED <<body, state, open, headers, ticked, walk>>  BY DEF lvars
<1>2. Blocks' = Blocks  BY <1>1 DEF Blocks
<1>3. BodyShape' /\ OpenShape'  BY <1>1, <1>2 DEF LoopInv, BodyShape, OpenShape
<1>4. \A b, c : Jump(b, c)' <=> Jump(b, c)  BY <1>1, <1>2 DEF Jump
<1>5. \A c : Settled(c)' <=> Settled(c)  BY <1>1 DEF Settled
<1>6. LeftIsSettled'  BY <1>1, <1>2, <1>4, <1>5 DEF LoopInv, LeftIsSettled
<1>7. OpenIsSettled'  BY <1>1, <1>2, <1>5 DEF LoopInv, OpenIsSettled
<1>8. LeftLoopsPassHeaders'  BY <1>1, <1>2, <1>4 DEF LoopInv, LeftLoopsPassHeaders, Quiet
<1>9. DoneIsDone'  BY <1>1, <1>2 DEF LoopInv, DoneIsDone
<1> QED  BY <1>3, <1>6, <1>7, <1>8, <1>9 DEF LoopInv

(* A block is opened: on top of an empty or of a full walk.                *)
LEMMA PushKeepsShape ==
  ASSUME OpenShape, NEW s \in Blocks, state[s] = 0, UNCHANGED body,
         NEW rest \in Seq(Blocks \X Nat), Len(rest) = Len(open),
         \A i \in 1 .. Len(open) : rest[i][1] = open[i][1],
         state' = [state EXCEPT ![s] = 1], open' = Append(rest, <<s, 1>>)
  PROVE  /\ OpenShape'
         /\ Len(open') = Len(open) + 1 /\ open'[Len(open')] = <<s, 1>>
         /\ \A i \in 1 .. Len(open) : open'[i] = rest[i]
<1>0. Blocks' = Blocks  BY DEF Blocks
<1>1. Len(open) \in Nat /\ open \in Seq(Blocks \X Nat)  BY DEF OpenShape
<1>2. <<s, 1>> \in Blocks \X Nat  OBVIOUS
<1>3. /\ Len(open') = Len(open) + 1 /\ open'[Len(open) + 1] = <<s, 1>>
      /\ \A i \in 1 .. Len(open) : open'[i] = rest[i]
      /\ open' \in Seq(Blocks \X Nat)
  BY <1>1, <1>2
<1>4. \A i \in 1 .. Len(open) : open'[i][1] = open[i][1]  BY <1>3
<1>5. open'[Len(open) + 1][1] = s  BY <1>3
<1>6. \A i \in 1 .. Len(open) : open[i][1] # s
  <2>1. ~(\E i \in 1 .. Len(open) : open[i][1] = s)  BY DEF OpenShape
  <2> QED  BY <2>1
<1>7. \A i \in 1 .. Len(open') : i \in 1 .. Len(open) \/ i = Len(open) + 1  BY <1>1, <1>3
<1>8. \A i, j \in 1 .. Len(open') : open'[i][1] = open'[j][1] => i = j
  BY <1>4, <1>5, <1>6, <1>7 DEF OpenShape
<1>9. \A i \in 1 .. Len(open) : i \in 1 .. Len(open')  BY <1>1, <1>3
<1>10. Len(open) + 1 \in 1 .. Len(open')  BY <1>1, <1>3
<1>11. ASSUME NEW b \in Blocks
       PROVE  state'[b] = 1 <=> \E i \in 1 .. Len(open') : open'[i][1] = b
  <2>1. CASE b = s  BY <1>5, <1>10, <2>1 DEF OpenShape
  <2>2. CASE b # s
    <3>1. state'[b] = state[b]  BY <2>2 DEF OpenShape
    <3>2. (\E i \in 1 .. Len(open') : open'[i][1] = b)
            <=> \E i \in 1 .. Len(open) : open[i][1] = b
      BY <1>4, <1>5, <1>7, <1>9, <2>2
    <3> QED  BY <3>1, <3>2 DEF OpenShape
  <2> QED  BY <2>1, <2>2
<1>12. state' \in [Blocks -> {0, 1, 2}]  BY DEF OpenShape
<1> QED  BY <1>0, <1>1, <1>3, <1>8, <1>11, <1>12 DEF OpenShape

(* The walk starts at the next block.                                      *)
LEMMA VisitRootKeeps == ASSUME LoopInv, VisitRoot  PROVE LoopInv'
<1> USE DEF LoopInv
<1>1. PICK i \in DOMAIN body.blocks :
        /\ state[body.blocks[i]] = 0 /\ Visit(body.blocks[i])
  BY DEF VisitRoot
<1>2. PICK s : s = body.blocks[i]  OBVIOUS
<1>3. s \in Blocks  BY <1>2 DEF Blocks, Range
<1>4. /\ open = <<>> /\ walk = "visit" /\ UNCHANGED <<body, headers, ticked, walk>>
  BY DEF VisitRoot
<1>5. state' = [state EXCEPT ![s] = 1] /\ open' = Append(open, <<s, 1>>)
  BY <1>1, <1>2 DEF Visit
<1>6. Blocks' = Blocks /\ BodyShape'  BY <1>4 DEF Blocks, BodyShape
<1>7. open \in Seq(Blocks \X Nat)  BY DEF OpenShape
<1>8. OpenShape' /\ Len(open') = 1 /\ open'[1] = <<s, 1>>
  <2>1. state[s] = 0 /\ UNCHANGED body /\ OpenShape  BY <1>1, <1>2, <1>4
  <2>2. PICK rest : rest = open  OBVIOUS
  <2>3. /\ rest \in Seq(Blocks \X Nat) /\ Len(rest) = Len(open)
        /\ \A k \in 1 .. Len(open) : rest[k][1] = open[k][1]
        /\ open' = Append(rest, <<s, 1>>)
    BY <1>5, <1>7, <2>2
  <2>4. OpenShape' /\ Len(open') = Len(open) + 1 /\ open'[Len(open')] = <<s, 1>>
    BY <1>3, <1>5, <2>1, <2>3, PushKeepsShape
  <2>5. Len(open) = 0  BY <1>4
  <2> QED  BY <2>4, <2>5
<1>9. \A b \in Blocks : state'[b] = 2 <=> state[b] = 2
  BY <1>1, <1>2, <1>5 DEF OpenShape
<1>10. \A b, c : Jump(b, c)' <=> Jump(b, c)  BY <1>4, <1>6 DEF Jump
<1>11. LeftIsSettled'  BY <1>4, <1>6, <1>9, <1>10 DEF LeftIsSettled, Settled
<1>12. OpenIsSettled'
  <2>1. \A k \in 1 .. Len(open') : open'[k][2] = 1  BY <1>8
  <2> QED  BY <2>1 DEF OpenIsSettled
<1>13. LeftLoopsPassHeaders'
  BY <1>4, <1>6, <1>9, <1>10 DEF LeftLoopsPassHeaders, Quiet
<1> QED  BY <1>4, <1>6, <1>8, <1>11, <1>12, <1>13 DEF DoneIsDone

(* An edge is followed: to a header, to a block that was left, to a new    *)
(* block, or out of the function.                                          *)
LEMMA VisitSuccessorKeeps == ASSUME LoopInv, VisitSuccessor  PROVE LoopInv'
<1> USE DEF LoopInv
<1>0. PICK n : n = Len(open)  OBVIOUS
<1>1. open \in Seq(Blocks \X Nat) /\ open # <<>> /\ n \in Nat
  BY <1>0 DEF OpenShape, VisitSuccessor
<1>2. n \in 1 .. n /\ Len(open) = n  BY <1>0, <1>1
<1>3. PICK b, i : b = open[n][1] /\ i = open[n][2]  OBVIOUS
<1>4. open[n] \in Blocks \X Nat  BY <1>1, <1>2
<1>5. b \in Blocks /\ i \in Nat /\ open[n] = <<b, i>>  BY <1>3, <1>4
<1>6. Last(open) = open[n]  BY <1>0 DEF Last
<1>7. PICK s : s = body.line[b][i]  OBVIOUS
<1>8. PICK rest : rest = [open EXCEPT ![n] = <<b, i + 1>>]  OBVIOUS
<1>9. /\ i <= Len(body.line[b])
      /\ headers' = headers \cup {x \in {s} \cap Blocks : state[x] = 1}
      /\ IF s \in Blocks /\ state[s] = 0
         THEN state' = [state EXCEPT ![s] = 1] /\ open' = Append(rest, <<s, 1>>)
         ELSE open' = rest /\ UNCHANGED state
  BY <1>0, <1>3, <1>6, <1>7, <1>8 DEF VisitSuccessor, Successors, Closes
<1>10. walk = "visit" /\ UNCHANGED <<body, ticked, walk>>  BY DEF VisitSuccessor
<1>11. Blocks' = Blocks /\ BodyShape'  BY <1>10 DEF Blocks, BodyShape
<1>12. \A x, y : Jump(x, y)' <=> Jump(x, y)  BY <1>10, <1>11 DEF Jump
<1>13. /\ rest \in Seq(Blocks \X Nat) /\ Len(rest) = n
       /\ rest[n] = <<b, i + 1>>
       /\ \A k \in 1 .. n : k # n => rest[k] = open[k]
  <2>1. <<b, i + 1>> \in Blocks \X Nat  BY <1>5
  <2> QED  BY <1>1, <1>2, <1>8, <2>1
<1>14. \A k \in 1 .. n : rest[k][1] = open[k][1]
  <2>1. rest[n][1] = open[n][1]  BY <1>5, <1>13
  <2> QED  BY <1>13, <2>1
<1>15. /\ OpenShape' /\ Len(open') >= n
       /\ \A k \in 1 .. n : open'[k] = rest[k]
       /\ s \in Blocks /\ state[s] = 0 => Len(open') = n + 1 /\ open'[n + 1] = <<s, 1>>
       /\ ~(s \in Blocks /\ state[s] = 0) => Len(open') = n
  <2>1. CASE s \in Blocks /\ state[s] = 0
    <3>1. /\ OpenShape' /\ Len(open') = Len(open) + 1 /\ open'[Len(open')] = <<s, 1>>
          /\ \A k \in 1 .. Len(open) : open'[k] = rest[k]
      <4>1. state' = [state EXCEPT ![s] = 1] /\ open' = Append(rest, <<s, 1>>)
        BY <1>9, <2>1
      <4> QED  BY <1>2, <1>10, <1>13, <1>14, <2>1, <4>1, PushKeepsShape
    <3> QED  BY <1>1, <1>2, <2>1, <3>1
  <2>2. CASE ~(s \in Blocks /\ state[s] = 0)
    <3>1. open' = rest /\ state' = state  BY <1>9, <2>2
    <3>2. OpenShape'  BY <1>2, <1>11, <1>13, <1>14, <3>1 DEF OpenShape
    <3> QED  BY <1>1, <1>13, <2>2, <3>1, <3>2
  <2> QED  BY <2>1, <2>2
<1>16. \A x \in Blocks : state'[x] = 2 <=> state[x] = 2  BY <1>9 DEF OpenShape
<1>17. headers \subseteq headers'  BY <1>9
<1>18. \A x \in Blocks : Settled(x) => Settled(x)'  BY <1>16, <1>17 DEF Settled
<1>19. LeftIsSettled'
  <2> SUFFICES ASSUME NEW x \in Blocks, NEW y \in Blocks, state'[x] = 2, Jump(x, y)
               PROVE  Settled(y)'
    BY <1>11, <1>12 DEF LeftIsSettled
  <2> QED  BY <1>16, <1>18 DEF LeftIsSettled
<1>20. LeftLoopsPassHeaders'
  <2> SUFFICES ASSUME NEW t \in SUBSET Blocks, Quiet(t)'  PROVE FALSE
    BY <1>11 DEF LeftLoopsPassHeaders
  <2>1. Quiet(t)  BY <1>11, <1>12, <1>16, <1>17 DEF Quiet
  <2> QED  BY <2>1 DEF LeftLoopsPassHeaders
<1>21. s \in Blocks => Settled(s)' \/ (Len(open') = n + 1 /\ open'[n + 1][1] = s)
  <2> SUFFICES ASSUME s \in Blocks, state[s] # 0  PROVE Settled(s)'  BY <1>15
  <2>1. CASE state[s] = 2  BY <1>16, <2>1 DEF Settled
  <2>2. CASE state[s] = 1  BY <1>9, <2>2 DEF Settled
  <2> QED  BY <2>1, <2>2 DEF OpenShape
<1>22. OpenIsSettled'
  <2> SUFFICES ASSUME NEW k \in 1 .. Len(open'), NEW j \in 1 .. Len(body.line[open'[k][1]]),
                      NEW c, c = body.line[open'[k][1]][j],
                      j < open'[k][2], c \in Blocks
               PROVE  Settled(c)' \/ (k < Len(open') /\ open'[k + 1][1] = c)
    <3>1. body' = body /\ Blocks' = Blocks  BY <1>10, <1>11
    <3>2. \A c : Settled(c)' <=> state'[c] = 2 \/ c \in headers'  BY DEF Settled
    <3> QED  BY <3>1, <3>2 DEF OpenIsSettled, Settled
  <2>1. CASE k \in 1 .. n /\ k # n
    <3>0. open'[k] = rest[k] /\ rest[k] = open[k]
      <4>1. k \in 1 .. n /\ k # n  BY <2>1
      <4>2. open'[k] = rest[k]  BY <1>15, <4>1
      <4> QED  BY <1>13, <4>1, <4>2
    <3>1. open'[k] = open[k] /\ k + 1 \in 1 .. n  BY <1>1, <2>1, <3>0
    <3>2. open'[k + 1][1] = open[k + 1][1]  BY <1>14, <1>15, <3>1
    <3>3. k < n /\ k < Len(open')  BY <1>1, <1>15, <2>1, <3>1
    <3>4. Settled(c) \/ open[k + 1][1] = c  BY <1>2, <2>1, <3>1 DEF OpenIsSettled
    <3> QED  BY <1>18, <3>2, <3>3, <3>4
  <2>2. CASE k = n
    <3>1. open'[k] = <<b, i + 1>>  BY <1>2, <1>13, <1>15, <2>2
    <3>2. j < i + 1 /\ c = body.line[b][j] /\ j \in 1 .. Len(body.line[b])  BY <3>1
    <3>3. CASE j = i
      <4>1. c = s  BY <1>7, <3>2, <3>3
      <4> QED  BY <1>1, <1>21, <2>2, <4>1
    <3>4. CASE j # i
      <4>1. j < i  BY <1>5, <3>2, <3>4
      <4>2. Settled(c)
        <5>1. open[n][1] = b /\ open[n][2] = i  BY <1>5
        <5> QED  BY <1>2, <1>1, <3>2, <4>1, <5>1 DEF OpenIsSettled
      <4> QED  BY <1>18, <4>2
    <3> QED  BY <3>3, <3>4
  <2>3. CASE k \notin 1 .. n
    <3>1. open'[k] = <<s, 1>>  BY <1>1, <1>15, <2>3
    <3> QED  BY <3>1
  <2> QED  BY <2>1, <2>2, <2>3
<1> QED  BY <1>10, <1>11, <1>15, <1>19, <1>20, <1>22 DEF DoneIsDone

(* A block is left when all its edges lead to settled blocks. A loop       *)
(* through it would be one without it as well.                             *)
LEMMA LeaveBlockKeeps == ASSUME LoopInv, LeaveBlock  PROVE LoopInv'
<1> USE DEF LoopInv
<1>0. PICK n : n = Len(open)  OBVIOUS
<1>1. open \in Seq(Blocks \X Nat) /\ open # <<>> /\ n \in Nat
  BY <1>0 DEF OpenShape, LeaveBlock
<1>2. n \in 1 .. n /\ Len(open) = n  BY <1>0, <1>1
<1>3. PICK b, i : b = open[n][1] /\ i = open[n][2]  OBVIOUS
<1>4. open[n] \in Blocks \X Nat  BY <1>1, <1>2
<1>5. b \in Blocks /\ i \in Nat /\ open[n] = <<b, i>>  BY <1>3, <1>4
<1>6. Last(open) = open[n]  BY <1>0 DEF Last
<1>7. /\ i > Len(body.line[b]) /\ state' = [state EXCEPT ![b] = 2]
      /\ open' = Front(open) /\ walk = "visit" /\ UNCHANGED <<body, headers, ticked, walk>>
  BY <1>3, <1>6 DEF LeaveBlock, Successors
<1>8. /\ open' \in Seq(Blocks \X Nat) /\ Len(open') = n - 1
      /\ \A k \in 1 .. n - 1 : open'[k] = open[k]
  <2>1. open' = [k \in 1 .. n - 1 |-> open[k]]  BY <1>0, <1>7 DEF Front
  <2>2. n - 1 \in Nat  BY <1>1, <1>2
  <2>3. \A k \in 1 .. n - 1 : open[k] \in Blocks \X Nat  BY <1>1, <1>2
  <2> QED  BY <2>1, <2>2, <2>3
<1>9. Blocks' = Blocks /\ BodyShape'  BY <1>7 DEF Blocks, BodyShape
<1>10. \A x, y : Jump(x, y)' <=> Jump(x, y)  BY <1>7, <1>9 DEF Jump
<1>11. state[b] = 1 /\ state'[b] = 2  BY <1>2, <1>3, <1>5, <1>7 DEF OpenShape
<1>12. \A x \in Blocks : x # b => state'[x] = state[x]  BY <1>7 DEF OpenShape
<1>13. \A x \in Blocks : Settled(x) => Settled(x)'  BY <1>7, <1>11, <1>12 DEF Settled
<1>14. ASSUME NEW c \in Blocks, Jump(b, c)  PROVE Settled(c)
  <2>1. PICK j \in 1 .. Len(body.line[b]) : body.line[b][j] = c  BY <1>14 DEF Jump
  <2>2. body.line[b] \in Seq(Range(body.line[b]))  BY <1>5 DEF BodyShape
  <2>3. Len(body.line[b]) \in Nat  BY <2>2
  <2>4. j < i  BY <1>5, <1>7, <2>3
  <2>5. open[n][1] = b /\ open[n][2] = i  BY <1>3
  <2> QED  BY <1>1, <1>2, <2>1, <2>4, <2>5 DEF OpenIsSettled
<1>15. LeftIsSettled'
  <2> SUFFICES ASSUME NEW x \in Blocks, NEW y \in Blocks, state'[x] = 2, Jump(x, y)
               PROVE  Settled(y)'
    BY <1>9, <1>10 DEF LeftIsSettled
  <2>1. Settled(y)  BY <1>12, <1>14 DEF LeftIsSettled
  <2> QED  BY <1>13, <2>1
<1>16. OpenShape'
  <2>1. state' \in [Blocks -> {0, 1, 2}]  BY <1>7 DEF OpenShape
  <2>2. \A k \in 1 .. n - 1 : k \in 1 .. n /\ k # n  BY <1>1
  <2>3. \A k \in 1 .. n : k \in 1 .. n - 1 \/ k = n  BY <1>1
  <2>4. \A k, j \in 1 .. n - 1 : open'[k][1] = open'[j][1] => k = j
    BY <1>2, <1>8, <2>2 DEF OpenShape
  <2>5. \A k \in 1 .. n - 1 : open[k][1] # b  BY <1>2, <1>3, <2>2 DEF OpenShape
  <2>6. ASSUME NEW x \in Blocks
        PROVE  state'[x] = 1 <=> \E k \in 1 .. n - 1 : open'[k][1] = x
    <3>1. CASE x = b  BY <1>8, <1>11, <2>5, <3>1
    <3>2. CASE x # b
      <4>1. state'[x] = state[x]  BY <1>12, <3>2
      <4>2. state[x] = 1 <=> \E k \in 1 .. n : open[k][1] = x  BY <1>2 DEF OpenShape
      <4>3. (\E k \in 1 .. n : open[k][1] = x) <=> \E k \in 1 .. n - 1 : open'[k][1] = x
        BY <1>3, <1>8, <2>2, <2>3, <3>2
      <4> QED  BY <4>1, <4>2, <4>3
    <3> QED  BY <3>1, <3>2
  <2> QED  BY <1>8, <1>9, <2>1, <2>4, <2>6 DEF OpenShape
<1>17. OpenIsSettled'
  <2> SUFFICES ASSUME NEW k \in 1 .. Len(open'), NEW j \in 1 .. Len(body.line[open'[k][1]]),
                      NEW c, c = body.line[open'[k][1]][j],
                      j < open'[k][2], c \in Blocks
               PROVE  Settled(c)' \/ (k < Len(open') /\ open'[k + 1][1] = c)
    <3>1. body' = body /\ Blocks' = Blocks  BY <1>7, <1>9
    <3>2. \A c : Settled(c)' <=> state'[c] = 2 \/ c \in headers'  BY DEF Settled
    <3> QED  BY <3>1, <3>2 DEF OpenIsSettled, Settled
  <2>0. k \in 1 .. n - 1 /\ Len(open') = n - 1 /\ open'[k] = open[k]  BY <1>8
  <2>1. k \in 1 .. n /\ k < n  BY <1>1, <2>0
  <2>2. Settled(c) \/ open[k + 1][1] = c  BY <1>2, <2>0, <2>1 DEF OpenIsSettled
  <2>3. CASE Settled(c)  BY <1>13, <2>3
  <2>4. CASE open[k + 1][1] = c /\ k + 1 = n  BY <1>3, <1>11, <2>4 DEF Settled
  <2>5. CASE open[k + 1][1] = c /\ k + 1 # n
    <3>1. k + 1 \in 1 .. n - 1 /\ k < n - 1  BY <1>1, <2>1, <2>5
    <3> QED  BY <1>8, <2>0, <2>5, <3>1
  <2> QED  BY <2>2, <2>3, <2>4, <2>5
<1>18. LeftLoopsPassHeaders'
  <2> SUFFICES ASSUME NEW t \in SUBSET Blocks, Quiet(t)'  PROVE FALSE
    BY <1>9 DEF LeftLoopsPassHeaders
  <2>1. /\ t # {}
        /\ \A x \in t : state'[x] = 2 /\ x \notin headers
        /\ \A x \in t : \E c \in t : Jump(x, c)
    BY <1>7, <1>10 DEF Quiet
  <2> DEFINE u == t \ {b}
  <2>2. ASSUME NEW x \in t  PROVE \E c \in u : Jump(x, c)
    <3>1. PICK c \in t : Jump(x, c)  BY <2>1
    <3>2. Settled(c)  BY <1>12, <1>14, <2>1, <3>1 DEF LeftIsSettled
    <3>3. state[c] = 2  BY <2>1, <3>2 DEF Settled
    <3> QED  BY <1>11, <3>1, <3>3
  <2>3. u # {}  BY <2>1, <2>2
  <2>4. \A x \in u : state[x] = 2 /\ x \notin headers  BY <1>12, <2>1
  <2>5. Quiet(u)  BY <2>2, <2>3, <2>4 DEF Quiet
  <2> QED  BY <2>5 DEF LeftLoopsPassHeaders
<1> QED  BY <1>7, <1>9, <1>15, <1>16, <1>17, <1>18 DEF DoneIsDone

(* The ticks are put in when every block has been left.                    *)
LEMMA InsertTicksKeeps == ASSUME LoopInv, InsertTicks  PROVE LoopInv'
<1>1. /\ ticked' = headers /\ \A b \in Blocks : state[b] = 2
      /\ UNCHANGED <<body, state, open, headers>>
  BY DEF InsertTicks
<1>2. Blocks' = Blocks  BY <1>1 DEF Blocks
<1>3. BodyShape' /\ OpenShape'  BY <1>1, <1>2 DEF LoopInv, BodyShape, OpenShape
<1>4. \A b, c : Jump(b, c)' <=> Jump(b, c)  BY <1>1, <1>2 DEF Jump
<1>5. \A c : Settled(c)' <=> Settled(c)  BY <1>1 DEF Settled
<1>6. LeftIsSettled'  BY <1>1, <1>2, <1>4, <1>5 DEF LoopInv, LeftIsSettled
<1>7. OpenIsSettled'  BY <1>1, <1>2, <1>5 DEF LoopInv, OpenIsSettled
<1>8. LeftLoopsPassHeaders'  BY <1>1, <1>2, <1>4 DEF LoopInv, LeftLoopsPassHeaders, Quiet
<1>9. DoneIsDone'  BY <1>1, <1>2 DEF DoneIsDone
<1> QED  BY <1>3, <1>6, <1>7, <1>8, <1>9 DEF LoopInv

(* Every step of the pass.                                                 *)
LEMMA NextLoopsKeeps == LoopInv /\ NextLoops => LoopInv'
BY VisitRootKeeps, VisitSuccessorKeeps, LeaveBlockKeeps, InsertTicksKeeps DEF NextLoops

(* A function without blocks is where the pass begins.                     *)
NoWalk ==
  /\ body = NoBody /\ (state = <<>> \/ state = [x \in Range(NoBody.blocks) |-> 0])
  /\ open = <<>> /\ headers = {} /\ walk = "visit"

(* It is a walk that has not begun.                                        *)
LEMMA NoWalkIsFresh == NoWalk => FreshState
<1> SUFFICES ASSUME NoWalk  PROVE FreshState  OBVIOUS
<1>1. Blocks = {}  BY DEF Blocks, Range, NoBody, NoWalk
<1>2. BodyShape  BY <1>1 DEF BodyShape
<1>3. state = [x \in Blocks |-> 0]
  <2>1. Range(NoBody.blocks) = {}  BY DEF Range, NoBody
  <2>2. <<>> = [x \in {} |-> 0]  OBVIOUS
  <2> QED  BY <1>1, <2>1, <2>2 DEF NoWalk
<1> QED  BY <1>2, <1>3 DEF FreshState, NoWalk

(***************************************************************************)
(* The sizes that checked memory calls are given.                          *)
(***************************************************************************)

(* The order of the natural numbers, as a set of pairs.                    *)
Below == {ss \in Nat \X Nat : ss[1] < ss[2]}

(* It is well-founded.                                                     *)
LEMMA BelowWF == IsWellFoundedOn(Below, Nat)
  BY NatLessThanWellFounded, Zenon DEF OpToRel, Below

(* A set with 0 that is closed under successor has every number.           *)
LEMMA SetInduction ==
  ASSUME NEW S, 0 \in S, \A n \in Nat : n \in S => n + 1 \in S
  PROVE  \A n \in Nat : n \in S
<1> DEFINE T == Nat \ S
<1>1. SUFFICES ASSUME T # {}  PROVE FALSE  OBVIOUS
<1>2. \E x \in T : \A y \in T : ~ (<<y, x>> \in Below)
  <2> HIDE DEF T
  <2>1. T \subseteq Nat  BY DEF T
  <2> QED  BY <1>1, BelowWF, <2>1, WFMin, Zenon
<1>3. PICK x \in T : \A y \in T : ~ (<<y, x>> \in Below)  BY <1>2
<1>4. \A y \in T : ~(y < x)  BY <1>3 DEF Below
<1>5. x # 0 /\ x - 1 \in Nat /\ x - 1 \notin T  BY <1>4
<1> QED  BY <1>5

(* The recursion by which CheckedCalls reads the lines.                    *)
Scan(it, lines, s) ==
  IF s = {} THEN Fresh ELSE ScanLine(it[s \ {Max(s)}], lines[Max(s)])

Scans(f, lines, n) == f = [s \in SUBSET (1 .. n) |-> Scan(f, lines, s)]

(* The largest element of a set of numbers up to n.                        *)
LEMMA MaxIs ==
  ASSUME NEW n \in Nat, NEW s \in SUBSET (1 .. n), n \in s
  PROVE  Max(s) = n
<1>1. \A x \in s : (\A y \in s : x >= y) => x = n  OBVIOUS
<1>2. n \in s /\ \A y \in s : n >= y  OBVIOUS
<1> QED  BY <1>1, <1>2 DEF Max

(* CheckedCalls is that recursion.                                         *)
LEMMA CheckedCallsIs ==
  ASSUME NEW lines
  PROVE  LET it == CHOOSE f : f = [s \in SUBSET (DOMAIN lines) |-> Scan(f, lines, s)]
         IN  CheckedCalls(lines) = it[DOMAIN lines].done
BY DEF CheckedCalls, FoldLeft, MapThenFoldSet, Scan

(* It has a solution over the first n lines.                               *)
LEMMA ScanExists ==
  ASSUME NEW lines, NEW n \in Nat
  PROVE  \E f : Scans(f, lines, n)
<1> DEFINE Good == {k \in Nat : \E f : Scans(f, lines, k)}
<1>1. 0 \in Good
  <2> DEFINE f == [s \in {{}} |-> Fresh]
  <2>1. SUBSET (1 .. 0) = {{}}  OBVIOUS
  <2>2. \A s \in {{}} : Scan(f, lines, s) = Fresh  BY DEF Scan
  <2>3. Scans(f, lines, 0)  BY <2>1, <2>2 DEF Scans
  <2> HIDE DEF f
  <2> QED  BY <2>3
<1>2. ASSUME NEW k \in Nat, k \in Good  PROVE k + 1 \in Good
  <2>1. PICK f : Scans(f, lines, k)  BY <1>2
  <2> DEFINE g == [s \in SUBSET (1 .. k + 1) |-> Scan(f, lines, s)]
  <2>2. \A s \in SUBSET (1 .. k) : s \in SUBSET (1 .. k + 1)  OBVIOUS
  <2>3. \A s \in SUBSET (1 .. k) : g[s] = f[s]  BY <2>1, <2>2 DEF Scans
  <2>4. \A s \in SUBSET (1 .. k + 1) : s # {} => s \ {Max(s)} \in SUBSET (1 .. k)
    <3> TAKE s \in SUBSET (1 .. k + 1)
    <3>1. CASE k + 1 \in s
      <4>1. Max(s) = k + 1  BY <3>1, MaxIs
      <4>2. 1 .. k = (1 .. k + 1) \ {k + 1}  OBVIOUS
      <4> QED  BY <4>1, <4>2
    <3>2. CASE k + 1 \notin s
      <4>1. 1 .. k = (1 .. k + 1) \ {k + 1}  OBVIOUS
      <4> QED  BY <3>2, <4>1
    <3> QED  BY <3>1, <3>2
  <2>5. \A s \in SUBSET (1 .. k + 1) : Scan(g, lines, s) = Scan(f, lines, s)
    <3> HIDE DEF g
    <3> QED  BY <2>3, <2>4 DEF Scan
  <2>6. Scans(g, lines, k + 1)  BY <2>5 DEF Scans
  <2> HIDE DEF g
  <2> QED  BY <2>6
<1>3. \A k \in Nat : k \in Good
  <2> HIDE DEF Good
  <2> QED  BY <1>1, <1>2, SetInduction
<1> QED  BY <1>3

(* The line of the function around line k.                                 *)
Starts(lines, d, k) ==
  /\ d \in 1 .. k /\ lines[d].op = "define"
  /\ \A e \in d .. k : lines[e].op # "end" /\ (lines[e].op = "define" => e = d)

Defines(lines, x, register) == lines[x].op = "object" /\ lines[x].register = register

(* What the pass knows after line k is what the function defines.          *)
KnowsOwn(s, lines, d, k) ==
  \A r : IF r \in DOMAIN s.known
         THEN \E x \in d .. k : /\ Defines(lines, x, r) /\ s.known[r] = lines[x].size
                                /\ \A y \in d .. k : Defines(lines, y, r) => y <= x
         ELSE \A x \in d .. k : ~Defines(lines, x, r)

Copies(lines) == {i \in DOMAIN lines : lines[i].op = "copy"}
Count(lines, k) == Cardinality({j \in Copies(lines) : j <= k})
OwnSizes(lines, i) == <<OwnSize(lines, i, lines[i].to), OwnSize(lines, i, lines[i].from)>>

ScanInv(s, lines, k) ==
  /\ DOMAIN s = {"inside", "known", "done"}
  /\ Inside(lines, k) => \E d \in 1 .. k : Starts(lines, d, k)
  /\ \A d \in 1 .. k : Starts(lines, d, k) => s.inside /\ KnowsOwn(s, lines, d, k)
  /\ \E T : s.done \in Seq(T)
  /\ Len(s.done) = Count(lines, k)
  /\ \A i \in Copies(lines) : i <= k => s.done[Count(lines, i)] = OwnSizes(lines, i)

(* How many of the first lines copy memory.                                *)
LEMMA CountIs ==
  ASSUME NEW lines, NEW n \in Nat, DOMAIN lines = 1 .. n
  PROVE  /\ \A k \in Nat : Count(lines, k) \in Nat
         /\ Count(lines, 0) = 0
         /\ \A k \in Nat : k + 1 \in Copies(lines) => Count(lines, k + 1) = Count(lines, k) + 1
         /\ \A k \in Nat : k + 1 \notin Copies(lines) => Count(lines, k + 1) = Count(lines, k)
         /\ \A k \in Nat, i \in Copies(lines) : i <= k => Count(lines, i) \in 1 .. Count(lines, k)
<1> DEFINE First(k) == {j \in Copies(lines) : j <= k}
<1>0. Copies(lines) \subseteq 1 .. n  BY DEF Copies
<1>1. IsFiniteSet(1 .. n)  BY FS_Interval
<1>2. \A k \in Nat : IsFiniteSet(First(k))
  <2>1. \A k \in Nat : First(k) \subseteq 1 .. n  BY <1>0
  <2> QED  BY <1>1, <2>1, FS_Subset
<1>3. \A k \in Nat : Count(lines, k) \in Nat
  <2> HIDE DEF First
  <2>1. \A k : Count(lines, k) = Cardinality(First(k))  BY DEF Count, First
  <2> QED  BY <1>2, <2>1, FS_CardinalityType
<1>4. Count(lines, 0) = 0
  <2>1. First(0) = {}  BY <1>0
  <2> QED  BY <2>1, FS_EmptySet DEF Count
<1>5. ASSUME NEW k \in Nat, k + 1 \in Copies(lines)
      PROVE  Count(lines, k + 1) = Count(lines, k) + 1
  <2>1. First(k + 1) = First(k) \cup {k + 1} /\ k + 1 \notin First(k)  BY <1>0, <1>5
  <2>2. Cardinality(First(k) \cup {k + 1}) = Cardinality(First(k)) + 1
    <3> HIDE DEF First
    <3> QED  BY <1>2, <2>1, FS_AddElement
  <2> QED  BY <2>1, <2>2 DEF Count
<1>6. ASSUME NEW k \in Nat, k + 1 \notin Copies(lines)
      PROVE  Count(lines, k + 1) = Count(lines, k)
  <2>1. First(k + 1) = First(k)  BY <1>0, <1>6
  <2> QED  BY <2>1 DEF Count
<1>7. ASSUME NEW k \in Nat, NEW i \in Copies(lines), i <= k
      PROVE  Count(lines, i) \in 1 .. Count(lines, k)
  <2>1. i \in Nat /\ First(i) \subseteq First(k) /\ i \in First(i)  BY <1>0, <1>7
  <2>2. /\ Cardinality(First(i)) <= Cardinality(First(k))
        /\ Cardinality(First(i)) # 0
    <3> HIDE DEF First
    <3> QED  BY <1>2, <2>1, FS_Subset, FS_EmptySet
  <2>3. Count(lines, i) \in Nat /\ Count(lines, k) \in Nat  BY <1>3, <2>1
  <2>4. Count(lines, i) <= Count(lines, k) /\ Count(lines, i) # 0  BY <2>2 DEF Count
  <2> QED  BY <2>3, <2>4
<1> QED  BY <1>3, <1>4, <1>5, <1>6, <1>7

(* At a copy, what the pass knows of a register is what OwnSize finds.     *)
LEMMA KnownIsOwn ==
  ASSUME NEW lines, NEW k \in Nat, NEW d \in 1 .. k, NEW s, NEW r,
         Starts(lines, d, k + 1), lines[k + 1].op = "copy", KnowsOwn(s, lines, d, k)
  PROVE  OwnSize(lines, k + 1, r) = ObjectSize(s, r)
<1> DEFINE IsStart(c) == /\ lines[c].op = "define"
                         /\ \A e \in c .. k + 1 : lines[e].op # "define" \/ e = c
           defs == {x \in d .. k + 1 : lines[x].op = "object" /\ lines[x].register = r}
<1>1. d \in 1 .. k + 1 /\ IsStart(d)  BY DEF Starts
<1>2. \A c \in 1 .. k + 1 : IsStart(c) => c = d
  <2> SUFFICES ASSUME NEW c \in 1 .. k + 1, IsStart(c)  PROVE c = d  OBVIOUS
  <2>1. CASE c <= d
    <3>1. d \in c .. k + 1  BY <2>1
    <3> QED  BY <1>1, <3>1
  <2>2. CASE d <= c
    <3>1. c \in d .. k + 1  BY <2>2
    <3> QED  BY <1>1, <3>1
  <2> QED  BY <2>1, <2>2
<1>3. (CHOOSE c \in 1 .. k + 1 : IsStart(c)) = d
  <2> HIDE DEF IsStart
  <2> QED  BY <1>1, <1>2
<1>4. OwnSize(lines, k + 1, r)
        = IF defs = {} THEN -1 ELSE lines[CHOOSE x \in defs : \A e \in defs : e <= x].size
  <2> DEFINE in(st) == {x \in st .. k + 1 : lines[x].op = "object" /\ lines[x].register = r}
             size(st) == IF in(st) = {} THEN -1
                         ELSE lines[CHOOSE x \in in(st) : \A e \in in(st) : e <= x].size
             first == CHOOSE c \in 1 .. k + 1 : IsStart(c)
  <2>1. OwnSize(lines, k + 1, r) = size(first)  BY Zenon DEF OwnSize
  <2>2. size(first) = size(d)
    <3>1. first = d  BY <1>3
    <3> HIDE DEF first, size
    <3> QED  BY <3>1
  <2>3. size(d) = IF defs = {} THEN -1
                  ELSE lines[CHOOSE x \in defs : \A e \in defs : e <= x].size
    BY Zenon
  <2> HIDE DEF first, size, defs
  <2> QED  BY <2>1, <2>2, <2>3
<1>5. \A x : x \in defs <=> x \in d .. k /\ Defines(lines, x, r)
  <2>1. \A x \in d .. k + 1 : x \in d .. k \/ x = k + 1  OBVIOUS
  <2>2. \A x \in d .. k : x \in d .. k + 1  OBVIOUS
  <2> QED  BY <2>1, <2>2 DEF Defines
<1> HIDE DEF defs
<1>6. CASE r \notin DOMAIN s.known
  <2>1. defs = {}  BY <1>5, <1>6 DEF KnowsOwn
  <2> QED  BY <1>4, <1>6, <2>1 DEF ObjectSize
<1>7. CASE r \in DOMAIN s.known
  <2>1. PICK x \in d .. k : /\ Defines(lines, x, r) /\ s.known[r] = lines[x].size
                            /\ \A y \in d .. k : Defines(lines, y, r) => y <= x
    BY <1>7 DEF KnowsOwn
  <2>2. x \in defs /\ \A e \in defs : e <= x  BY <1>5, <2>1
  <2>3. \A z \in defs : (\A e \in defs : e <= z) => z = x
    <3>1. \A z \in defs : z \in Int  BY <1>5
    <3> QED  BY <2>2, <3>1
  <2>4. (CHOOSE z \in defs : \A e \in defs : e <= z) = x  BY <2>2, <2>3
  <2> QED  BY <1>4, <1>7, <2>1, <2>2, <2>4 DEF ObjectSize
<1> QED  BY <1>6, <1>7

(* Lines of a module: every instruction is inside a function.              *)
ProperLines(lines, n) ==
  /\ DOMAIN lines = 1 .. n
  /\ \A i \in 1 .. n : /\ lines[i].op \in Operations
                       /\ lines[i].op \in {"object", "copy"} => Inside(lines, i)

(* The function around a line that is not a boundary is the one around the *)
(* line before.                                                            *)
LEMMA SameFunction ==
  ASSUME NEW lines, NEW k \in Nat, lines[k + 1].op \notin {"define", "end"}
  PROVE  /\ Inside(lines, k + 1) <=> Inside(lines, k)
         /\ \A d \in 1 .. k + 1 : Starts(lines, d, k + 1) <=> d \in 1 .. k /\ Starts(lines, d, k)
<1>1. \A d \in 1 .. k + 1 : d \in 1 .. k \/ d = k + 1  OBVIOUS
<1>2. \A d \in 1 .. k : d \in 1 .. k + 1  OBVIOUS
<1>3. \A d \in 1 .. k : \A e \in d .. k + 1 : e \in d .. k \/ e = k + 1  OBVIOUS
<1>4. \A d \in 1 .. k : \A e \in d .. k : e \in d .. k + 1  OBVIOUS
<1>5. Inside(lines, k + 1) <=> Inside(lines, k)
  BY <1>1, <1>2, <1>3, <1>4 DEF Inside
<1>6. \A d \in 1 .. k + 1 : Starts(lines, d, k + 1) => d \in 1 .. k /\ Starts(lines, d, k)
  BY <1>1, <1>4 DEF Starts
<1>7. \A d \in 1 .. k : Starts(lines, d, k) => Starts(lines, d, k + 1)
  BY <1>2, <1>3 DEF Starts
<1> QED  BY <1>5, <1>6, <1>7

(* What the calls so far were given does not depend on later lines.        *)
SizesUpTo(done, lines, k) ==
  /\ \E T : done \in Seq(T)
  /\ Len(done) = Count(lines, k)
  /\ \A i \in Copies(lines) : i <= k => done[Count(lines, i)] = OwnSizes(lines, i)

(* A line that copies nothing.                                             *)
LEMMA SizesStay ==
  ASSUME NEW lines, NEW n \in Nat, DOMAIN lines = 1 .. n, NEW k \in Nat, NEW done,
         SizesUpTo(done, lines, k), lines[k + 1].op # "copy"
  PROVE  SizesUpTo(done, lines, k + 1)
<1>1. k + 1 \notin Copies(lines) /\ Copies(lines) \subseteq Nat  BY DEF Copies
<1>2. Count(lines, k + 1) = Count(lines, k)  BY <1>1, CountIs
<1>3. \A i \in Copies(lines) : i <= k + 1 => i <= k  BY <1>1
<1> QED  BY <1>2, <1>3 DEF SizesUpTo

(* One line of the pass.                                                   *)
LEMMA ScanStep ==
  ASSUME NEW lines, NEW n \in Nat, ProperLines(lines, n), NEW k \in Nat, k + 1 \in 1 .. n,
         NEW s, ScanInv(s, lines, k)
  PROVE  ScanInv(ScanLine(s, lines[k + 1]), lines, k + 1)
<1> DEFINE line == lines[k + 1]
           t == ScanLine(s, line)
<1> SUFFICES ScanInv(t, lines, k + 1)  OBVIOUS
<1>0. /\ DOMAIN s = {"inside", "known", "done"} /\ SizesUpTo(s.done, lines, k)
      /\ Inside(lines, k) => \E d \in 1 .. k : Starts(lines, d, k)
      /\ \A d \in 1 .. k : Starts(lines, d, k) => s.inside /\ KnowsOwn(s, lines, d, k)
  BY DEF ScanInv, SizesUpTo
<1>d. DOMAIN lines = 1 .. n  BY DEF ProperLines
<1>o. line.op \in {"define", "end", "object", "copy"}  BY DEF ProperLines, Operations
<1>q. ASSUME DOMAIN t = {"inside", "known", "done"}, SizesUpTo(t.done, lines, k + 1),
             Inside(lines, k + 1) => \E d \in 1 .. k + 1 : Starts(lines, d, k + 1),
             \A d \in 1 .. k + 1 : Starts(lines, d, k + 1) => t.inside /\ KnowsOwn(t, lines, d, k + 1)
      PROVE  ScanInv(t, lines, k + 1)
  BY <1>q DEF ScanInv, SizesUpTo
<1>1. CASE line.op = "define"
  <2>1. t = [Forget(s) EXCEPT !.inside = TRUE]  BY <1>1 DEF ScanLine
  <2>2. /\ DOMAIN t = {"inside", "known", "done"}
        /\ t.inside = TRUE /\ t.known = <<>> /\ t.done = s.done
    BY <1>0, <2>1 DEF Forget
  <2> HIDE DEF t
  <2>3. k + 1 \in 1 .. k + 1 /\ \A e \in k + 1 .. k + 1 : e = k + 1  OBVIOUS
  <2>4. Starts(lines, k + 1, k + 1)  BY <1>1, <2>3 DEF Starts
  <2>5. \A d \in 1 .. k + 1 : Starts(lines, d, k + 1) => d = k + 1
    <3> SUFFICES ASSUME NEW d \in 1 .. k + 1, Starts(lines, d, k + 1)  PROVE d = k + 1  OBVIOUS
    <3>1. k + 1 \in d .. k + 1  OBVIOUS
    <3> QED  BY <1>1, <3>1 DEF Starts
  <2>6. KnowsOwn(t, lines, k + 1, k + 1)
    <3>1. \A r : r \notin DOMAIN t.known  BY <2>2
    <3>2. \A x \in k + 1 .. k + 1 : lines[x].op # "object"  BY <1>1, <2>3
    <3> QED  BY <3>1, <3>2 DEF KnowsOwn, Defines
  <2>7. SizesUpTo(t.done, lines, k + 1)  BY <1>0, <1>1, <1>d, <2>2, SizesStay
  <2> QED  BY <1>q, <2>2, <2>3, <2>4, <2>5, <2>6, <2>7
<1>2. CASE line.op = "end"
  <2>1. t = [Forget(s) EXCEPT !.inside = FALSE]  BY <1>2 DEF ScanLine
  <2>2. DOMAIN t = {"inside", "known", "done"} /\ t.done = s.done
    BY <1>0, <2>1 DEF Forget
  <2> HIDE DEF t
  <2>3. \A d \in 1 .. k + 1 : k + 1 \in d .. k + 1  OBVIOUS
  <2>4. ~Inside(lines, k + 1) /\ \A d \in 1 .. k + 1 : ~Starts(lines, d, k + 1)
    BY <1>2, <2>3 DEF Inside, Starts
  <2>5. SizesUpTo(t.done, lines, k + 1)  BY <1>0, <1>2, <1>d, <2>2, SizesStay
  <2> QED  BY <1>q, <2>2, <2>4, <2>5
<1>3. ASSUME line.op \in {"object", "copy"}
      PROVE  /\ \E d \in 1 .. k : Starts(lines, d, k)
             /\ \A d \in 1 .. k + 1 : Starts(lines, d, k + 1) <=> d \in 1 .. k /\ Starts(lines, d, k)
             /\ s.inside
  <2>1. Inside(lines, k + 1)  BY <1>3 DEF ProperLines
  <2>2. Inside(lines, k)  BY <1>3, <2>1, SameFunction
  <2> QED  BY <1>0, <1>3, <2>2, SameFunction
<1>4. CASE line.op = "object"
  <2>0. s.inside  BY <1>3, <1>4
  <2>1. t = [s EXCEPT !.known = Known(s, line)]
    BY <1>4, <2>0 DEF ScanLine
  <2>2. DOMAIN t = {"inside", "known", "done"} /\ t.done = s.done /\ t.inside = s.inside
    BY <1>0, <2>1
  <2>3. t.known = Known(s, line)  BY <1>0, <2>1
  <2>4. /\ DOMAIN t.known = DOMAIN s.known \cup {line.register}
        /\ t.known[line.register] = line.size
        /\ \A r \in DOMAIN s.known : r # line.register => t.known[r] = s.known[r]
    BY <2>3 DEF Known
  <2> HIDE DEF t
  <2>5. ASSUME NEW d \in 1 .. k + 1, Starts(lines, d, k + 1)  PROVE KnowsOwn(t, lines, d, k + 1)
    <3>1. d \in 1 .. k /\ KnowsOwn(s, lines, d, k)  BY <1>0, <1>3, <1>4, <2>5
    <3>2. \A x \in d .. k + 1 : x \in d .. k \/ x = k + 1  BY <3>1
    <3>3. \A x \in d .. k : x \in d .. k + 1 /\ x <= k + 1  BY <3>1
    <3>4. k + 1 \in d .. k + 1  BY <3>1
    <3> SUFFICES ASSUME NEW r
        PROVE  IF r \in DOMAIN t.known
               THEN \E x \in d .. k + 1 : /\ Defines(lines, x, r) /\ t.known[r] = lines[x].size
                                          /\ \A y \in d .. k + 1 : Defines(lines, y, r) => y <= x
               ELSE \A x \in d .. k + 1 : ~Defines(lines, x, r)
      BY DEF KnowsOwn
    <3>5. CASE r = line.register
      <4>1. Defines(lines, k + 1, r) /\ t.known[r] = lines[k + 1].size  BY <1>4, <2>4, <3>5 DEF Defines
      <4>2. \A y \in d .. k + 1 : y <= k + 1  BY <3>1
      <4> QED  BY <2>4, <3>4, <3>5, <4>1, <4>2
    <3>6. CASE r # line.register
      <4>1. ~Defines(lines, k + 1, r)  BY <3>6 DEF Defines
      <4>2. r \in DOMAIN t.known <=> r \in DOMAIN s.known  BY <2>4, <3>6
      <4>3. CASE r \in DOMAIN s.known
        <5>1. PICK x \in d .. k : /\ Defines(lines, x, r) /\ s.known[r] = lines[x].size
                                  /\ \A y \in d .. k : Defines(lines, y, r) => y <= x
          BY <3>1, <4>3 DEF KnowsOwn
        <5>2. t.known[r] = lines[x].size  BY <2>4, <3>6, <4>3, <5>1
        <5>3. \A y \in d .. k + 1 : Defines(lines, y, r) => y <= x  BY <3>2, <4>1, <5>1
        <5> QED  BY <3>3, <4>2, <4>3, <5>1, <5>2, <5>3
      <4>4. CASE r \notin DOMAIN s.known
        <5>1. \A x \in d .. k : ~Defines(lines, x, r)  BY <3>1, <4>4 DEF KnowsOwn
        <5> QED  BY <3>2, <4>1, <4>2, <4>4, <5>1
      <4> QED  BY <4>3, <4>4
    <3> QED  BY <3>5, <3>6
  <2>6. SizesUpTo(t.done, lines, k + 1)  BY <1>0, <1>4, <1>d, <2>2, SizesStay
  <2>7. \E d \in 1 .. k + 1 : Starts(lines, d, k + 1)
    <3>1. PICK d \in 1 .. k : Starts(lines, d, k)  BY <1>3, <1>4
    <3>2. d \in 1 .. k + 1  OBVIOUS
    <3> QED  BY <1>3, <1>4, <3>1, <3>2
  <2> QED  BY <1>q, <2>0, <2>2, <2>5, <2>6, <2>7
<1>5. CASE line.op = "copy"
  <2>0. s.inside  BY <1>3, <1>5
  <2> DEFINE sizes == <<ObjectSize(s, line.to), ObjectSize(s, line.from)>>
  <2>1. t = [s EXCEPT !.done = Append(s.done, sizes)]  BY <1>5, <2>0 DEF ScanLine
  <2>2. /\ DOMAIN t = {"inside", "known", "done"} /\ t.done = Append(s.done, sizes)
        /\ t.inside = s.inside /\ t.known = s.known
    BY <1>0, <2>1
  <2> HIDE DEF t
  <2>3. PICK d \in 1 .. k : Starts(lines, d, k)  BY <1>3, <1>5
  <2>4. d \in 1 .. k + 1 /\ Starts(lines, d, k + 1)
    <3>1. d \in 1 .. k + 1  OBVIOUS
    <3> QED  BY <1>3, <1>5, <2>3, <3>1
  <2>5. KnowsOwn(s, lines, d, k)  BY <1>0, <2>3
  <2>6. sizes = OwnSizes(lines, k + 1)
    <3>1. OwnSize(lines, k + 1, line.to) = ObjectSize(s, line.to)
      BY <1>5, <2>4, <2>5, KnownIsOwn
    <3>2. OwnSize(lines, k + 1, line.from) = ObjectSize(s, line.from)
      BY <1>5, <2>4, <2>5, KnownIsOwn
    <3> QED  BY <3>1, <3>2 DEF OwnSizes
  <2> HIDE DEF sizes
  <2>7. SizesUpTo(t.done, lines, k + 1)
    <3>1. k + 1 \in Copies(lines) /\ Copies(lines) \subseteq 1 .. n
      BY <1>5, <1>d DEF Copies
    <3>2. /\ Count(lines, k + 1) = Count(lines, k) + 1 /\ Count(lines, k) \in Nat
          /\ \A i \in Copies(lines) : i <= k => Count(lines, i) \in 1 .. Count(lines, k)
      BY <1>d, <3>1, CountIs
    <3>3. PICK T : s.done \in Seq(T)  BY <1>0 DEF SizesUpTo
    <3>4. Len(s.done) = Count(lines, k)  BY <1>0 DEF SizesUpTo
    <3>5. s.done \in Seq(T \cup {sizes}) /\ sizes \in T \cup {sizes}  BY <3>3
    <3>6. /\ t.done \in Seq(T \cup {sizes}) /\ Len(t.done) = Count(lines, k + 1)
          /\ t.done[Count(lines, k + 1)] = sizes
          /\ \A j \in 1 .. Count(lines, k) : t.done[j] = s.done[j]
      BY <2>2, <3>2, <3>4, <3>5
    <3>7. ASSUME NEW i \in Copies(lines), i <= k + 1
          PROVE  t.done[Count(lines, i)] = OwnSizes(lines, i)
      <4>1. CASE i <= k
        <5>1. Count(lines, i) \in 1 .. Count(lines, k)  BY <3>2, <4>1
        <5>2. s.done[Count(lines, i)] = OwnSizes(lines, i)  BY <1>0, <4>1 DEF SizesUpTo
        <5> QED  BY <3>6, <5>1, <5>2
      <4>2. CASE ~(i <= k)
        <5>1. i = k + 1  BY <3>1, <3>7, <4>2
        <5> QED  BY <2>6, <3>6, <5>1
      <4> QED  BY <4>1, <4>2
    <3> QED  BY <3>6, <3>7 DEF SizesUpTo
  <2>8. ASSUME NEW c \in 1 .. k + 1, Starts(lines, c, k + 1)  PROVE KnowsOwn(t, lines, c, k + 1)
    <3>1. c \in 1 .. k /\ KnowsOwn(s, lines, c, k)  BY <1>0, <1>3, <1>5, <2>8
    <3>2. \A x \in c .. k + 1 : x \in c .. k \/ x = k + 1  BY <3>1
    <3>3. \A x \in c .. k : x \in c .. k + 1  BY <3>1
    <3>4. \A r : ~Defines(lines, k + 1, r)  BY <1>5 DEF Defines
    <3> SUFFICES ASSUME NEW r
        PROVE  IF r \in DOMAIN t.known
               THEN \E x \in c .. k + 1 : /\ Defines(lines, x, r) /\ t.known[r] = lines[x].size
                                          /\ \A y \in c .. k + 1 : Defines(lines, y, r) => y <= x
               ELSE \A x \in c .. k + 1 : ~Defines(lines, x, r)
      BY DEF KnowsOwn
    <3>5. CASE r \in DOMAIN s.known
      <4>1. PICK x \in c .. k : /\ Defines(lines, x, r) /\ s.known[r] = lines[x].size
                                /\ \A y \in c .. k : Defines(lines, y, r) => y <= x
        BY <3>1, <3>5 DEF KnowsOwn
      <4>2. \A y \in c .. k + 1 : Defines(lines, y, r) => y <= x  BY <3>2, <3>4, <4>1
      <4> QED  BY <2>2, <3>3, <3>5, <4>1, <4>2
    <3>6. CASE r \notin DOMAIN s.known
      <4>1. \A x \in c .. k : ~Defines(lines, x, r)  BY <3>1, <3>6 DEF KnowsOwn
      <4> QED  BY <2>2, <3>2, <3>4, <3>6, <4>1
    <3> QED  BY <3>5, <3>6
  <2> QED  BY <1>q, <2>0, <2>2, <2>4, <2>7, <2>8
<1> QED  BY <1>o, <1>1, <1>2, <1>4, <1>5

(* The sizes of all checked calls.                                         *)
LEMMA CheckedCallsAreLocal ==
  ASSUME NEW p \in Programs
  PROVE  SizesUpTo(CheckedCalls(p.lines), p.lines, Len(p.lines))
<1> DEFINE lines == p.lines
           n == Len(lines)
           f == CHOOSE g : Scans(g, lines, n)
<1>1. n \in Nat /\ DOMAIN lines = 1 .. n
  <2>1. lines \in Seq({lines[i] : i \in DOMAIN lines})  BY LinesAssumption
  <2> QED  BY <2>1
<1>2. ProperLines(lines, n)  BY <1>1, LinesAssumption DEF ProperLines
<1>3. Scans(f, lines, n)  BY <1>1, ScanExists
<1>4. CheckedCalls(lines) = f[1 .. n].done  BY <1>1, CheckedCallsIs DEF Scans
<1> HIDE DEF f, lines, n
<1>5. \A s \in SUBSET (1 .. n) : f[s] = Scan(f, lines, s)  BY <1>3 DEF Scans
<1> DEFINE Good == {k \in Nat : k <= n => ScanInv(f[1 .. k], lines, k)}
<1>6. 0 \in Good
  <2>1. 1 .. 0 = {} /\ 1 .. 0 \in SUBSET (1 .. n)  OBVIOUS
  <2>2. f[1 .. 0] = Fresh  BY <1>5, <2>1 DEF Scan
  <2>3. Count(lines, 0) = 0  BY <1>1, CountIs
  <2>4. \A i \in Copies(lines) : ~(i <= 0)  BY <1>1 DEF Copies
  <2>5. <<>> \in Seq({})  OBVIOUS
  <2>6. ~Inside(lines, 0)  BY <2>1 DEF Inside
  <2>7. Fresh.done = <<>> /\ Len(<<>>) = 0 /\ DOMAIN Fresh = {"inside", "known", "done"}
    BY DEF Fresh
  <2>8. ScanInv(Fresh, lines, 0)
    BY <2>1, <2>3, <2>4, <2>5, <2>6, <2>7 DEF ScanInv
  <2> QED  BY <2>2, <2>8
<1>7. ASSUME NEW k \in Nat, k \in Good  PROVE k + 1 \in Good
  <2> SUFFICES ASSUME k + 1 <= n  PROVE ScanInv(f[1 .. k + 1], lines, k + 1)  OBVIOUS
  <2>1. k + 1 \in 1 .. n /\ ScanInv(f[1 .. k], lines, k)  BY <1>1, <1>7
  <2>2. Max(1 .. k + 1) = k + 1  BY MaxIs
  <2>3. (1 .. k + 1) \ {k + 1} = 1 .. k  OBVIOUS
  <2>4. k + 1 \in 1 .. k + 1 /\ 1 .. k + 1 \in SUBSET (1 .. n)  BY <1>1
  <2>5. f[1 .. k + 1] = ScanLine(f[1 .. k], lines[k + 1])
    <3>1. 1 .. k + 1 # {}  BY <2>4
    <3>2. f[1 .. k + 1] = Scan(f, lines, 1 .. k + 1)  BY <1>5, <2>4
    <3> QED  BY <2>2, <2>3, <3>1, <3>2 DEF Scan
  <2> QED  BY <1>1, <1>2, <2>1, <2>5, ScanStep
<1>8. n \in Good
  <2> HIDE DEF Good
  <2> QED  BY <1>1, <1>6, <1>7, SetInduction
<1>9. ScanInv(f[1 .. n], lines, n)  BY <1>1, <1>8
<1>10. SizesUpTo(CheckedCalls(lines), lines, n)  BY <1>4, <1>9 DEF ScanInv, SizesUpTo
<1> QED  BY <1>10 DEF lines, n

(***************************************************************************)
(* Everything together.                                                    *)
(***************************************************************************)

ProgIsKnown == version \in Nat /\ (pc # "idle" => version > 0 /\ prog \in Programs)

BuildInv ==
  /\ DiskInv /\ SymbolicIsNew /\ BundleInv /\ QueryInv
  /\ LoopInv /\ ProgIsKnown /\ SizesAreLocal

(* A list of sizes is that of the calls of some lines.                     *)
LocalIn(lines, c) ==
  /\ Len(c) = Cardinality(Copies(lines))
  /\ \A i \in Copies(lines) :
       c[Cardinality({j \in Copies(lines) : j <= i})] = OwnSizes(lines, i)

(* That is what SizesAreLocal says of this build.                          *)
LEMMA SizesAreLocalIs == SizesAreLocal <=> (calls # <<>> => LocalIn(prog.lines, calls))
BY DEF SizesAreLocal, LocalIn, Copies, OwnSizes

(* The sizes of a program's checked calls are its own.                     *)
LEMMA SizesFollow ==
  ASSUME NEW p \in Programs
  PROVE  LocalIn(p.lines, CheckedCalls(p.lines))
<1> DEFINE lines == p.lines
           c == CheckedCalls(lines)
<1>1. SizesUpTo(c, lines, Len(lines))  BY CheckedCallsAreLocal
<1>2. lines \in Seq({lines[i] : i \in DOMAIN lines})  BY LinesAssumption
<1>3. \A i \in Copies(lines) : i <= Len(lines)  BY <1>2 DEF Copies
<1>4. {j \in Copies(lines) : j <= Len(lines)} = Copies(lines)  BY <1>3
<1> HIDE DEF c
<1>5. Len(c) = Cardinality(Copies(lines))  BY <1>1, <1>4 DEF SizesUpTo, Count
<1>6. \A i \in Copies(lines) :
        c[Cardinality({j \in Copies(lines) : j <= i})] = OwnSizes(lines, i)
  BY <1>1, <1>3 DEF SizesUpTo, Count
<1>7. LocalIn(lines, c)  BY <1>5, <1>6 DEF LocalIn
<1> QED  BY <1>7 DEF c

(* Steps that keep the program keep its sizes.                             *)
LEMMA SizesKept ==
  ASSUME SizesAreLocal, calls' = <<>> \/ UNCHANGED <<prog, calls>>
  PROVE  SizesAreLocal'
<1>1. calls # <<>> => LocalIn(prog.lines, calls)  BY SizesAreLocalIs
<1>2. PICK lines, c : lines = prog.lines /\ c = calls  OBVIOUS
<1>3. CASE calls' = <<>>  BY <1>3 DEF SizesAreLocal
<1>4. CASE UNCHANGED <<prog, calls>>
  <2>1. prog'.lines = lines /\ calls' = c  BY <1>2, <1>4
  <2>2. calls' # <<>> => LocalIn(prog'.lines, calls')  BY <1>1, <1>2, <2>1
  <2>3. (calls # <<>> => LocalIn(prog.lines, calls))'  BY <2>2 DEF LocalIn, Copies, OwnSizes, OwnSize
  <2> QED  BY <2>3, SizesAreLocalIs, PTL
<1> QED  BY <1>3, <1>4

(* Building, when no run has a copy, keeps what the others rely on.        *)
LEMMA BuildingIsAlone ==
  ASSUME BuildInv, pc # "built"
  PROVE  qphase = "off" /\ (pc # "symbolic" => sphase = "idle")
BY DEF BuildInv, BundleInv, SymbolicIsNew

(* The first states.                                                       *)
LEMMA BuildInit == Init => BuildInv
<1> SUFFICES ASSUME Init  PROVE BuildInv  OBVIOUS
<1>1. DiskInv /\ SymbolicIsNew /\ BundleInv /\ QueryInv
  BY DiskInit, SymbolicInit, QueryInit
<1>2. LoopInv
  <2>1. NoWalk  BY DEF Init, InitLoops, NoWalk
  <2> QED  BY <2>1, NoWalkIsFresh, FreshWalk
<1>3. ProgIsKnown /\ SizesAreLocal  BY DEF Init, InitIR, ProgIsKnown, SizesAreLocal
<1> QED  BY <1>1, <1>2, <1>3 DEF BuildInv

(* Every step of a build or of a run.                                      *)
LEMMA BuildStep == BuildInv /\ [Next]_all => BuildInv'
<1> SUFFICES ASSUME BuildInv, [Next]_all  PROVE BuildInv'  OBVIOUS
<1>0. DiskInv /\ SymbolicIsNew /\ BundleInv /\ QueryInv /\ LoopInv /\ ProgIsKnown /\ SizesAreLocal
  BY DEF BuildInv
<1>1. CASE CompileAndPrepare
  <2>1. UNCHANGED svars /\ UNCHANGED qvars /\ UNCHANGED lvars  BY <1>1 DEF CompileAndPrepare
  <2>2. pc \notin {"built", "symbolic"} /\ pc' # "built" /\ pc' # "idle"
    BY <1>1 DEF CompileAndPrepare, StartBuild, GenerateStg, WriteEffects, Plc, Instrument,
       GenerateHarness, Trim, SanitizeBounds, CheckMemory, MarkAsan, Normalize, AddStateTable,
       Link, Step
  <2>3. qphase = "off" /\ sphase = "idle"  BY <2>2, BuildingIsAlone
  <2>4. SymbolicIsNew'  BY <1>0, <2>1, <2>2, <2>3, SymbolicUntouched
  <2>5. BundleInv' /\ QueryInv'  BY <1>0, <2>1, <2>3, QueryUntouched
  <2>6. LoopInv'  BY <1>0, <2>1, LoopStutter
  <2>7. CASE StartBuild
    <3>1. DiskInv'  BY <1>0, <2>7, StartKeepsDisk
    <3>2. prog' \in Programs /\ calls' = <<>> /\ version' = version + 1  BY <2>7 DEF StartBuild
    <3>3. SizesAreLocal'  BY <1>0, <3>2, SizesKept
    <3>4. ProgIsKnown'  BY <1>0, <3>2 DEF ProgIsKnown
    <3> QED  BY <2>4, <2>5, <2>6, <3>1, <3>3, <3>4 DEF BuildInv
  <2>8. CASE ~StartBuild
    <3>1. \/ GenerateStg \/ WriteEffects \/ Plc \/ Instrument \/ GenerateHarness
          \/ Trim \/ SanitizeBounds \/ CheckMemory \/ MarkAsan \/ Normalize
          \/ AddStateTable \/ Link
      BY <1>1, <2>8 DEF CompileAndPrepare
    <3>2. UNCHANGED <<version, prog>> /\ pc # "idle"
      BY <3>1 DEF GenerateStg, WriteEffects, Plc, Instrument, GenerateHarness, Trim,
         SanitizeBounds, CheckMemory, MarkAsan, Normalize, AddStateTable, Link, Step, Keep
    <3>3. DiskInv'  BY <1>0, <3>1, <3>2, PrepareKeepsDisk
    <3>4. prog \in Programs  BY <1>0, <3>2 DEF ProgIsKnown
    <3>5. \/ calls' = <<>> \/ UNCHANGED <<prog, calls>>
          \/ CheckMemory /\ calls' = CheckedCalls(prog.lines)
      BY <3>1 DEF GenerateStg, WriteEffects, Plc, Instrument, GenerateHarness, Trim,
         SanitizeBounds, CheckMemory, MarkAsan, Normalize, AddStateTable, Link, Step, Keep
    <3>6. SizesAreLocal'
      <4>1. CASE calls' = <<>> \/ UNCHANGED <<prog, calls>>  BY <1>0, <4>1, SizesKept
      <4>2. CASE calls' = CheckedCalls(prog.lines)
        <5>1. LocalIn(prog.lines, CheckedCalls(prog.lines))  BY <3>4, SizesFollow
        <5>2. LocalIn(prog'.lines, calls')  BY <3>2, <4>2, <5>1
        <5>3. (calls # <<>> => LocalIn(prog.lines, calls))'
          BY <5>2 DEF LocalIn, Copies, OwnSizes, OwnSize
        <5> QED  BY <5>3, SizesAreLocalIs, PTL
      <4> QED  BY <3>5, <4>1, <4>2
    <3>7. ProgIsKnown'  BY <1>0, <3>2 DEF ProgIsKnown
    <3> QED  BY <2>4, <2>5, <2>6, <3>3, <3>6, <3>7 DEF BuildInv
  <2> QED  BY <2>7, <2>8
(* What only the loop pass does.                                           *)
<1>2. ASSUME UNCHANGED ivars, UNCHANGED svars, UNCHANGED qvars, UNCHANGED contract, pc # "built", LoopInv'
      PROVE  BuildInv'
  <2>1. UNCHANGED <<version, prog, disk, calls, pc>>  BY <1>2 DEF ivars
  <2>2. DiskInv'  BY <1>0, <2>1, DiskUntouched
  <2>3. SymbolicIsNew'  BY <1>0, <1>2, <2>1, SymbolicStutter
  <2>4. BundleInv' /\ QueryInv'  BY <1>0, <1>2, BuildingIsAlone, QueryUntouched
  <2>5. SizesAreLocal'  BY <1>0, <2>1, SizesKept
  <2>6. ProgIsKnown'  BY <1>0, <2>1 DEF ProgIsKnown
  <2> QED  BY <1>2, <2>2, <2>3, <2>4, <2>5, <2>6 DEF BuildInv
<1>3. CASE ReadFunctions
  <2>1. /\ UNCHANGED ivars /\ UNCHANGED svars /\ UNCHANGED qvars /\ UNCHANGED contract /\ pc = "loops"
        /\ body' = prog.body /\ state' = [x \in Range(body'.blocks) |-> 0]
        /\ open' = <<>> /\ headers' = {} /\ walk' = "visit"
    BY <1>3 DEF ReadFunctions
  <2>2. prog \in Programs  BY <1>0, <2>1 DEF ProgIsKnown
  <2>3. BodyShape'
    <3>1. PICK b : b = prog.body  OBVIOUS
    <3>2. /\ Range(b.blocks) \subseteq DOMAIN b.line
          /\ \A x \in Range(b.blocks) : b.line[x] \in Seq(Range(b.line[x]))
      BY <2>2, <3>1, BodiesAssumption
    <3>3. body' = b  BY <2>1, <3>1
    <3> QED  BY <3>2, <3>3 DEF BodyShape, Blocks
  <2>4. FreshState'  BY <2>1, <2>3 DEF FreshState, Blocks
  <2>5. LoopInv'  BY <2>4, FreshWalk, PTL
  <2> QED  BY <1>2, <2>1, <2>5
<1>4. CASE WalkLoops
  <2>1. /\ pc = "loops" /\ NextLoops
        /\ UNCHANGED ivars /\ UNCHANGED svars /\ UNCHANGED qvars /\ UNCHANGED contract
    BY <1>4 DEF WalkLoops
  <2>2. LoopInv'  BY <1>0, <2>1, NextLoopsKeeps
  <2> QED  BY <1>2, <2>1, <2>2
<1>5. ASSUME ForgetLoops  PROVE LoopInv'
  <2>1. NoWalk'  BY <1>5 DEF ForgetLoops, NoWalk
  <2> QED  BY <2>1, NoWalkIsFresh, FreshWalk, PTL
<1>6. CASE LoopsDone
  <2>0. PICK done : TickLoops(done)  BY <1>6 DEF LoopsDone
  <2>1. TickLoops(done) /\ ForgetLoops /\ UNCHANGED svars /\ UNCHANGED qvars  BY <1>6, <2>0 DEF LoopsDone
  <2>2. pc = "loops" /\ pc' = "state" /\ UNCHANGED <<version, prog, calls>>
    BY <2>1 DEF TickLoops, Step, Keep
  <2>3. DiskInv'  BY <1>0, <2>1, <2>2, PrepareKeepsDisk
  <2>4. qphase = "off" /\ sphase = "idle"  BY <2>2, BuildingIsAlone
  <2>5. SymbolicIsNew'  BY <1>0, <2>1, <2>2, <2>4, SymbolicUntouched
  <2>6. BundleInv' /\ QueryInv'  BY <1>0, <2>1, <2>4, QueryUntouched
  <2>7. SizesAreLocal' /\ ProgIsKnown'  BY <1>0, <2>2, SizesKept DEF ProgIsKnown
  <2> QED  BY <1>5, <2>1, <2>3, <2>5, <2>6, <2>7 DEF BuildInv
<1>7. CASE Abort
  <2>1. BuildFails /\ ForgetLoops /\ UNCHANGED qvars /\ sphase' = "idle" /\ UNCHANGED bitcode
    BY <1>7 DEF Abort, KilledSymbolic
  <2>2. /\ pc \notin {"idle", "failed", "built"} /\ pc' = "failed"
        /\ UNCHANGED <<version, prog, disk, calls>>
    BY <2>1 DEF BuildFails
  <2>3. DiskInv'  BY <1>0, <2>2, DiskUntouched
  <2>4. OneBuild'
    <3>1. CASE UNCHANGED <<bitcode, manifest, refusal>>
      BY <1>0, <3>1 DEF SymbolicIsNew, OneBuild
    <3>2. CASE KilledSymbolic
      <4>1. OneBuild  BY <1>0 DEF SymbolicIsNew
      <4>2. /\ bitcode' = bitcode /\ manifest' = manifest
            /\ refusal' = refusal \/ manifest.v = 0
        BY <3>2 DEF KilledSymbolic
      <4> QED  BY <4>1, <4>2 DEF OneBuild
    <3> QED  BY <1>7, <3>1, <3>2 DEF Abort
  <2>4a. SymbolicIsNew'  BY <1>0, <2>1, <2>2, <2>4 DEF SymbolicIsNew, Working, Outputs
  <2>5. BundleInv' /\ QueryInv'  BY <1>0, <2>1, <2>2, BuildingIsAlone, QueryUntouched
  <2>6. SizesAreLocal' /\ ProgIsKnown'  BY <1>0, <2>2, SizesKept DEF ProgIsKnown
  <2> QED  BY <1>5, <2>1, <2>3, <2>4a, <2>5, <2>6 DEF BuildInv
<1>8. CASE BuildSymbolic
  <2>1. pc = "symbolic" /\ UNCHANGED <<version, prog, disk, calls, pc>>
        /\ UNCHANGED qvars /\ UNCHANGED lvars
    BY <1>8 DEF BuildSymbolic, ivars
  <2>2. SymbolicIsNew'  BY <1>0, <1>8, BuildSymbolicKeeps
  <2>3. DiskInv'  BY <1>0, <2>1, DiskUntouched
  <2>4. BundleInv' /\ QueryInv'  BY <1>0, <2>1, BuildingIsAlone, QueryUntouched
  <2>5. LoopInv'  BY <1>0, <2>1, LoopStutter
  <2>6. SizesAreLocal' /\ ProgIsKnown'  BY <1>0, <2>1, SizesKept DEF ProgIsKnown
  <2> QED  BY <2>2, <2>3, <2>4, <2>5, <2>6 DEF BuildInv
<1>9. CASE SymbolicEnds
  <2>1. /\ pc = "symbolic" /\ sphase = "end" /\ sphase' = "idle"
        /\ pc' = IF ExitsCleanly THEN "built" ELSE "failed"
        /\ pc' = "built" => contract' = IF manifest.v > 0 THEN "supported" ELSE "unsupported"
        /\ UNCHANGED <<version, prog, disk, calls, bitcode, partial, manifest, refusal>>
        /\ UNCHANGED qvars /\ UNCHANGED lvars
    BY <1>9 DEF SymbolicEnds
  <2>2. pc' = "built" \/ pc' = "failed"  BY <2>1
  <2>3. DiskInv'  BY <1>0, <2>1, <2>2, DiskUntouched
  <2>4. SymbolicResult  BY <1>0, <2>1 DEF SymbolicIsNew
  <2>5. Functions' = Functions  BY <2>1 DEF Functions
  <2>6. Imprecision' = Imprecision
    BY <2>1, <2>5 DEF Imprecision, Reached, Runs, ClosedUnderCalls
  <2>7. SymbolicResult'  BY <2>1, <2>4, <2>6 DEF SymbolicResult
  <2>8. ExitsCleanly' <=> ExitsCleanly  BY <2>1 DEF ExitsCleanly
  <2>8a. pc' = "built" => ContractIsTrue'
    <3>1. version > 0 /\ version \in Nat  BY <1>0, <2>1 DEF ProgIsKnown
    <3>2. refusal = "none" <=> manifest.v > 0  BY <2>4, <3>1 DEF SymbolicResult
    <3> QED  BY <2>1, <2>7, <2>8, <3>2 DEF ContractIsTrue
  <2>9. SymbolicIsNew'
    BY <1>0, <2>1, <2>8a DEF SymbolicIsNew, Working, Outputs, OneBuild
  <2>10. BundleInv' /\ QueryInv'  BY <1>0, <2>1, BuildingIsAlone, QueryUntouched
  <2>11. LoopInv'  BY <1>0, <2>1, LoopStutter
  <2>12. SizesAreLocal' /\ ProgIsKnown'  BY <1>0, <2>1, SizesKept DEF ProgIsKnown
  <2> QED  BY <2>3, <2>9, <2>10, <2>11, <2>12 DEF BuildInv
<1>15. CASE SymbolicIsOff
  <2>1. /\ pc = "symbolic" /\ sphase = "idle" /\ pc' = "built" /\ contract' = "not built"
        /\ UNCHANGED <<version, prog, disk, calls>>
        /\ UNCHANGED svars /\ UNCHANGED qvars /\ UNCHANGED lvars
    BY <1>15 DEF SymbolicIsOff
  <2>2. DiskInv'  BY <1>0, <2>1, DiskUntouched
  <2>3. UNCHANGED <<bitcode, partial, manifest, refusal, pending, visited, symbols, sphase>>
    BY <2>1 DEF svars
  <2>4. SymbolicIsNew'  BY <1>0, <2>1, <2>3 DEF SymbolicIsNew, Working, Outputs, OneBuild
  <2>5. BundleInv' /\ QueryInv'  BY <1>0, <2>1, BuildingIsAlone, QueryUntouched
  <2>6. LoopInv'  BY <1>0, <2>1, LoopStutter
  <2>7. SizesAreLocal' /\ ProgIsKnown'  BY <1>0, <2>1, SizesKept DEF ProgIsKnown
  <2> QED  BY <2>2, <2>4, <2>5, <2>6, <2>7 DEF BuildInv
(* What only a run does.                                                   *)
<1>10. ASSUME UNCHANGED ivars, UNCHANGED svars, UNCHANGED lvars, UNCHANGED contract, BundleInv', QueryInv'
       PROVE  BuildInv'
  <2>1. UNCHANGED <<version, prog, disk, calls, pc>>  BY <1>10 DEF ivars
  <2>2. DiskInv'  BY <1>0, <2>1, DiskUntouched
  <2>3. SymbolicIsNew'  BY <1>0, <1>10, <2>1, SymbolicStutter
  <2>4. LoopInv'  BY <1>0, <1>10, LoopStutter
  <2>5. SizesAreLocal' /\ ProgIsKnown'  BY <1>0, <2>1, SizesKept DEF ProgIsKnown
  <2> QED  BY <1>10, <2>2, <2>3, <2>4, <2>5 DEF BuildInv
<1>11. CASE CopyBundle
  <2>1. UNCHANGED ivars /\ UNCHANGED svars /\ UNCHANGED lvars /\ UNCHANGED contract  BY <1>11 DEF CopyBundle
  <2> QED  BY <1>0, <1>10, <1>11, <2>1, CopyKeeps
<1>12. CASE Solve
  <2>1. UNCHANGED ivars /\ UNCHANGED svars /\ UNCHANGED lvars /\ UNCHANGED contract  BY <1>12 DEF Solve
  <2>2. CASE \E r \in Requests : Ask(r)
    <3>1. PICK r \in Requests : Ask(r)  BY <2>2
    <3> QED  BY <1>0, <1>10, <2>1, <3>1, AskKeeps
  <2>3. CASE StepQuery  BY <1>0, <1>10, <2>1, <2>3, StepQueryKeeps
  <2> QED  BY <1>12, <2>2, <2>3 DEF Solve
<1>13. CASE RunOver
  <2>1. /\ pc = "built" /\ pc' = "idle" /\ UNCHANGED <<version, prog, disk, calls>>
        /\ UNCHANGED svars /\ UNCHANGED lvars
    BY <1>13 DEF RunOver
  <2>2. DiskInv'  BY <1>0, <2>1, DiskUntouched
  <2>3. sphase = "idle"  BY <1>0, <2>1 DEF SymbolicIsNew
  <2>4. SymbolicIsNew'  BY <1>0, <2>1, <2>3, SymbolicUntouched
  <2>5. BundleInv' /\ QueryInv'  BY <1>0, <1>13, RunOverKeeps
  <2>6. LoopInv'  BY <1>0, <2>1, LoopStutter
  <2>7. SizesAreLocal' /\ ProgIsKnown'  BY <1>0, <2>1, SizesKept DEF ProgIsKnown
  <2> QED  BY <2>2, <2>4, <2>5, <2>6, <2>7 DEF BuildInv
<1>14. CASE Rest \/ UNCHANGED all
  <2>1. /\ UNCHANGED ivars /\ UNCHANGED svars /\ UNCHANGED qvars /\ UNCHANGED lvars
        /\ UNCHANGED contract
    BY <1>14 DEF Rest, all
  <2>2. CASE qphase = "off"
    <3>1. BundleInv' /\ QueryInv'  BY <1>0, <2>1, <2>2, QueryUntouched
    <3> QED  BY <1>10, <2>1, <3>1
  <2>3. CASE qphase # "off"
    <3>1. UNCHANGED <<bundle, query, scope, workdir, log, candidate, answer, asked, qphase>>
      BY <2>1 DEF qvars
    <3>2. UNCHANGED <<version, prog, pc>>  BY <2>1 DEF ivars
    <3>3. BundleInv'  BY <1>0, <2>1, <2>3, <3>1, BundleKept
    <3>4. QueryInv'
      <4>1. Can' = Can /\ Requested' = Requested /\ Prefixed' = Prefixed
            /\ Unreachable' = Unreachable /\ Out' = Out
        BY <3>1, <3>2, RequestKept DEF Out
      <4>2. RawRuns(scope.symbolic)' = RawRuns(scope.symbolic)
        BY <3>1 DEF RawRuns, RawFrames
      <4>3. WorkShape' /\ (ScopeIsOfQuery => ScopeIsOfQuery') /\ Doubts' = Doubts
        BY <1>0, <3>1, <4>1 DEF QueryInv, WorkShape, ScopeIsOfQuery, Doubts, Reals
      <4>4. ResultsAreRuns => ResultsAreRuns'  BY <4>1, <4>2 DEF ResultsAreRuns
      <4>5. UnsatIsTrue => UnsatIsTrue'
        BY <3>1, <4>1 DEF UnsatIsTrue, ApproximateModel, Searched
      <4>6. AnswersAreFacts'
        BY <1>0, <3>1, <3>2, <4>1, RequestKept
        DEF QueryInv, AnswersAreFacts, UnsatIsProof, SatIsNative, CandidateIsOfQuery, Meets, Agrees
      <4> QED
        BY <1>0, <3>1, <4>1, <4>3, <4>4, <4>5, <4>6 DEF QueryInv, Started, Linked
    <3> QED  BY <1>10, <2>1, <3>3, <3>4
  <2> QED  BY <2>2, <2>3
<1> QED
  BY <1>1, <1>3, <1>4, <1>6, <1>7, <1>8, <1>9, <1>11, <1>12, <1>13, <1>14, <1>15 DEF Next

(* The inductive invariant of builds and runs: which file of the directory *)
(* is of this build at which step, what a symbolic build has proved of its *)
(* outputs, what a run has copied, what the walk over the blocks has       *)
(* settled, and what a query may claim from what it has collected.         *)
THEOREM TargetBuildInvariant == Spec => []BuildInv
<1>1. Init => BuildInv  BY BuildInit
<1>2. BuildInv /\ [Next]_all => BuildInv'  BY BuildStep
<1> QED  BY <1>1, <1>2, PTL DEF Spec

(* What a run takes over is what its contract says, for any number of      *)
(* builds in the same directory: never the rest of a build that failed or  *)
(* was killed as a supported one, and never a manifest beside the bitcode  *)
(* of another build, even where symbolic execution is off                  *)
(* (symbolic/build.py, build_target.sh:236-258).                           *)
THEOREM BundlesAreWhole == Spec => []BundleIsWhole
<1>1. BuildInv => BundleIsWhole
  <2> SUFFICES ASSUME BuildInv, qphase # "off"
               PROVE  /\ disk["target"].v = version
                      /\ bundle.contract = "supported" =>
                           bundle.refusal = "none" /\ bundle.v = version /\ bundle.manifest.v = version
                      /\ bundle.contract = "unsupported" =>
                           bundle.refusal = "unsupported" /\ bundle.v = 0 /\ bundle.manifest.v = 0
                      /\ bundle.manifest.v > 0 =>
                           bundle.refusal = "none" /\ bundle.v \in {0, bundle.manifest.v}
    <3> HIDE DEF BuildInv
    <3> QED  BY DEF BundleIsWhole
  <2>1. pc = "built" /\ (WholeBundle \/ NoBundle \/ OldBundle)  BY DEF BuildInv, BundleInv
  <2>2. disk["target"].v = version  BY <2>1 DEF BuildInv, DiskInv, FilesAreNew
  <2>3. CASE WholeBundle  BY <2>2, <2>3 DEF WholeBundle
  <2>4. CASE NoBundle  BY <2>2, <2>4 DEF NoBundle
  <2>5. CASE OldBundle  BY <2>2, <2>5 DEF OldBundle
  <2> QED  BY <2>1, <2>3, <2>4, <2>5
<1> QED  BY <1>1, TargetBuildInvariant, PTL

(* What a symbolic query reports is a fact about the program of this       *)
(* build, whatever its calls, fields, prefixes and queries: SAT is a       *)
(* native run, and UNSAT, where the search was a whole one of this build's *)
(* bitcode, is a proof for printable texts (SymbolicSolver.solve).         *)
THEOREM AnswersStayFacts == Spec => []AnswersAreFacts
<1>1. BuildInv => AnswersAreFacts  BY DEF BuildInv, QueryInv
<1> QED  BY <1>1, TargetBuildInvariant, PTL

(* Every loop of branches of every function passes a tick, and a checked   *)
(* memory call has the sizes of its own function (loop_budget.py,          *)
(* compile.py).                                                            *)
THEOREM InstrumentationStaysRight == Spec => []InstrumentationIsRight
<1>1. BuildInv => InstrumentationIsRight  BY TicksFollow DEF BuildInv, InstrumentationIsRight
<1> QED  BY <1>1, TargetBuildInvariant, PTL
=============================================================================
