-------------------------------- MODULE Intake --------------------------------
(***************************************************************************)
(* The intake of one library of the corpus (compiler/intake/library.py     *)
(* with closure.py, dependencies.py, report.py and corpus_run.py), the     *)
(* normalization it runs and the stub generation that follows on the names *)
(* it misses.                                                              *)
(*                                                                         *)
(* A source is the record that UnitBuild builds before its files are       *)
(* put together: files (the units of each file, "D", "P" and "S" in order  *)
(* of name), deps (the files a file depends on), onDisk, entry (units that *)
(* are applications), supplement (whether "S", a sibling export, fills in  *)
(* declarations), rebound (names a profile rebinds), stubs (names a stub   *)
(* file declares), adapters (names a profile provides under assumptions),  *)
(* clocks (time sources), pragmas (units with a pragma that blocks them),  *)
(* far (the loose lines of other files than the library's own) and formed  *)
(* (the names that are used as the report looks for: called, or alone as   *)
(* the type of a declaration, not as "ARRAY OF" or as a value).            *)
(***************************************************************************)
EXTENDS UnitBuild, StubRounds

-----------------------------------------------------------------------------
(* The diagnostic-driven normalization of a library                        *)
(* (compiler/intake/normalize/engine.py): rules edit the text where the    *)
(* compiler objects; units no rule helps are masked, so that the others    *)
(* reach the type checker.  The masked text is only what is compiled: the  *)
(* normalized library keeps every unit.                                    *)
(*                                                                         *)
(* A fault carries the rule that takes it: "edit" and "move" cure it,      *)
(* "vain" changes the text and leaves the fault, "none" has no rule; `at'  *)
(* is its position.                                                        *)

CONSTANT NormalizeRounds   \* MAX_ROUNDS of the engine

VARIABLE norm      \* the state of normalize()

Rules == {"edit", "move", "vain", "none"}

NoNormalization == [stage |-> "none"]
BeginNormalize == [stage |-> "normalize", round |-> 0, masked |-> {}, applied |-> {},
                   start |-> 0, panic |-> FALSE, left |-> FALSE]

(* What one round compiles: the masked text, and only if that type checks  *)
(* the code.                                                               *)
Probing == TypeChecks(lib, norm.masked)
Errors ==
  IF Probing THEN {f \in GenFaults(lib, norm.masked) : f.form = "located" /\ ~GenPanics(lib, norm.masked)}
  ELSE {f \in Live(lib, norm.masked, "check") : f.form = "located" /\ ~CheckPanics(lib, norm.masked)}
Unhelped == {UnitOf(lib, d.part) : d \in Diagnostics(lib, norm.masked)}
Panics == GenPanics(lib, norm.masked)

(* Errors outside the files: in the compatibility sources, without a       *)
(* position, or of a compiler that fails without saying why.               *)
Outside ==
  IF Probing
  THEN lib.compat = "gen"
       \/ \E f \in GenFaults(lib, norm.masked) : f.form # "located" /\ Errors = {} /\ ~Panics
  ELSE ~Panics /\ (Unlocated(lib, norm.masked) # {} \/ lib.compat \in {"error", "exit"})

(* One proposal per error, none that was applied before.                   *)
Proposals == {f \in Errors : f.rule # "none" /\ f \notin norm.applied}

(* Proposals are taken in order of position; one that overlaps an earlier  *)
(* one waits, and a file gets moves or replacements in a round, not both.  *)
Overlaps(f, g) ==
  \/ f.of = g.of
  \/ lib.fileOf[UnitOf(lib, f.of)] = lib.fileOf[UnitOf(lib, g.of)] /\ (f.rule = "move") # (g.rule = "move")
NonOverlapping ==
  LET ordered == SetToSortSeq(Proposals, LAMBDA f, g : f.at < g.at)
      take(taken, f) == IF \E g \in taken : Overlaps(f, g) THEN taken ELSE taken \cup {f}
  IN  FoldLeft(take, {}, ordered)

RoundsLeft == norm.stage = "normalize" /\ norm.round < NormalizeRounds

(* Nothing is left to object to: the text type checks and generates code.  *)
NormalizeDone ==
  /\ RoundsLeft /\ Errors = {} /\ Unhelped = {} /\ ~Outside /\ ~Panics /\ Probing
  /\ norm' = [norm EXCEPT !.stage = "done", !.left = norm.masked # {}]
  /\ UNCHANGED buildVars

ApplyRules ==
  /\ RoundsLeft /\ Proposals # {}
  /\ lib' = [lib EXCEPT !.faults = @ \ {f \in NonOverlapping : f.rule # "vain"}]
  /\ norm' = [norm EXCEPT !.applied = @ \cup NonOverlapping, !.start = 0, !.round = @ + 1,
                    !.panic = FALSE]
  /\ UNCHANGED valid

PanicCulprit(active, out, start) ==
  LET dies == [o \in Blankings(lib) |-> CheckPanics(lib, o)]
  IN  IF active = <<>> \/ ~dies[out] THEN 0 ELSE Halve(active, out, dies, start)

(* The units of errors no rule takes are masked, or the unit a prefix      *)
(* search finds a panic in.                                                *)
MaskUnits ==
  /\ RoundsLeft /\ Proposals = {} /\ ~Probing /\ ~Outside
  /\ LET active == Kept(lib.units, Units(lib) \ norm.masked)
         culprit == IF Panics THEN PanicCulprit(active, norm.masked, norm.start) ELSE 0
         new == IF Panics THEN (IF culprit = 0 THEN {} ELSE {active[culprit]})
                ELSE Unhelped \ norm.masked
     IN  norm' = IF new = {} THEN [norm EXCEPT !.stage = "done", !.left = TRUE, !.panic = Panics]
              ELSE [norm EXCEPT !.masked = @ \cup new, !.round = @ + 1,
                             !.start = IF Panics THEN culprit - 1 ELSE 0]
  /\ UNCHANGED buildVars

(* Code generation errors no rule takes and errors outside the files end   *)
(* the rounds, and so does their number.                                   *)
StopNormalizing ==
  /\ norm.stage = "normalize"
  /\ \/ norm.round = NormalizeRounds
     \/ Proposals = {} /\ (Outside \/ (Probing /\ (Errors # {} \/ Panics)))
  /\ norm' = [norm EXCEPT !.stage = "done", !.left = TRUE, !.panic = Panics]
  /\ UNCHANGED buildVars

NormalizeStep == NormalizeDone \/ ApplyRules \/ MaskUnits \/ StopNormalizing

-----------------------------------------------------------------------------
(* The intake around it.                                                   *)

CONSTANTS Sources,        \* the libraries the corpus may hold
          Environments    \* the corpora the stubs may be generated for

(* What a source consists of; units, declarations and lines are places in  *)
(* its text, all different.                                                *)
SourceFields == {"files", "deps", "onDisk", "entry", "supplement", "decls", "extra", "plain", "uses",
                 "faults", "loose", "far", "compat", "barred", "calls", "noSymbol", "native", "rebound",
                 "stubs", "adapters", "clocks", "formed", "pragmas"}
UnitsOfFiles(s) == UNION {ToSet(s.files[f]) : f \in {"D", "E", "P", "S"}}
DistinctPlaces(s, units) ==
  /\ \A u \in units, w \in units :
       s.decls[u] \cap units = {} /\ (u # w => s.decls[u] \cap s.decls[w] = {})
  /\ \A u \in units : UnitNames(s, u) \cap (s.loose \cup {"none"}) = {}
  /\ \A u \in units, p \in UNION {UnitNames(s, w) : w \in units} :
       s.extra[p] \cap (UnitNames(s, u) \cup s.loose \cup {"none"}) = {}

ASSUME SourceAssumption ==
  \A s \in Sources :
    /\ DOMAIN s = SourceFields /\ s.compat \in {"ok", "error", "exit", "panic", "gen"}
    /\ \A f \in {"D", "E", "P", "S"} : s.files[f] \in Seq(UnitsOfFiles(s))
    /\ DistinctPlaces(s, UnitsOfFiles(s)) /\ "none" \notin s.loose

ASSUME EnvironmentAssumption == \A e \in Environments : IsFiniteSet(e.sites)

Primary == "P"

VARIABLES closure,       \* the walk over the dependency closure
          report   \* the compatibility report and manifest of the intake

intakeVars == <<lib, valid, norm, closure, report, env, gen>>

NoClosure == [stage |-> "none"]
NoReport == [level |-> "none", fidelity |-> "none", support |-> "none", unresolved |-> {},
             accepted |-> {}, status |-> "none"]
NoSource == [units |-> <<>>]

Init ==
  /\ lib \in Sources /\ valid = NoValidation /\ norm = NoNormalization
  /\ closure = [stage |-> "walk", stack |-> <<[file |-> Primary, todo |-> lib.deps[Primary]]>>,
          done |-> <<>>]
  /\ report = NoReport /\ env = [sites |-> {}] /\ gen = NoStubs

-----------------------------------------------------------------------------
(* The dependency closure, depth first.                                    *)

Visiting == {closure.stack[i].file : i \in 1..Len(closure.stack)}

VisitDependency ==
  /\ closure.stage = "walk" /\ Last(closure.stack).todo # <<>>
  /\ LET f == Head(Last(closure.stack).todo)
         rest == [closure.stack EXCEPT ![Len(closure.stack)].todo = Tail(@)]
         enter == f \in lib.onDisk /\ f \notin ToSet(closure.done) \cup Visiting
     IN  closure' = [closure EXCEPT !.stack = IF enter THEN Append(rest, [file |-> f, todo |-> lib.deps[f]])
                                  ELSE rest]
  /\ UNCHANGED <<lib, valid, norm, report, env, gen>>

LeaveFile ==
  /\ closure.stage = "walk" /\ Last(closure.stack).todo = <<>>
  /\ closure' = [closure EXCEPT !.stack = Front(@),
                    !.done = IF Last(closure.stack).file = Primary THEN @ ELSE Append(@, Last(closure.stack).file),
                    !.stage = IF Len(closure.stack) = 1 THEN "walked" ELSE @]
  /\ UNCHANGED <<lib, valid, norm, report, env, gen>>

(* The files that are built together: the closure without its application *)
(* entry points, and of the sibling export what the library lacks.  Names  *)
(* a profile rebinds or a stub declares are no longer missing.             *)
AssembleFiles ==
  /\ closure.stage = "walked"
  /\ LET own == lib.files[Primary]
         from(f) == CASE f = Primary -> own
                      [] f = "S" -> IF lib.supplement
                                    THEN Kept(lib.files[f], ToSet(lib.files[f]) \ ToSet(own)) ELSE <<>>
                      [] OTHER -> IF f \in ToSet(closure.done)
                                  THEN Kept(lib.files[f], ToSet(lib.files[f]) \ lib.entry) ELSE <<>>
         units == from("D") \o from("E") \o own \o from("S")
         places == UNION {UnitNames(lib, u) : u \in ToSet(units)}
         defined == places \cup UNION {lib.extra[p] : p \in places}
         named == UNION {lib.uses[p] : p \in places}
         fileOf(u) == CHOOSE f \in {"D", "E", Primary, "S"} : u \in ToSet(from(f))
     IN  lib' = [name \in DOMAIN lib \cup {"units", "fileOf", "missing"} |->
                   CASE name = "units" -> units
                     [] name = "fileOf" -> [u \in ToSet(units) |-> fileOf(u)]
                     [] name = "missing" -> named \ (defined \cup lib.rebound \cup lib.stubs \cup lib.adapters)
                     [] OTHER -> lib[name]]
  /\ norm' = BeginNormalize /\ closure' = NoClosure
  /\ UNCHANGED <<valid, report, env, gen>>

(* The normalized files are written and the profiles' native sources       *)
(* compiled, which may fail the intake; then the units are built.          *)
StartBuild ==
  /\ norm.stage = "done" /\ valid = NoValidation
  /\ \/ /\ valid' = Begin(lib) /\ UNCHANGED report
     \/ /\ lib.native = "object"
        /\ valid' = [stage |-> "failed"] /\ report' = [NoReport EXCEPT !.status = "intake_error"]
  /\ UNCHANGED <<lib, norm, closure, env, gen>>

-----------------------------------------------------------------------------
(* The reports.                                                            *)

IsPOU(u) == lib.decls[u] = {} /\ lib.extra[u] = {}

(* Who provides a name, in the order of the resolution: of the library,    *)
(* its units and types, but neither its variables nor enumeration values.  *)
Resolve(name) ==
  IF name \in {u \in Units(lib) : lib.decls[u] = {}} THEN "input_library"
  ELSE IF name \in lib.adapters THEN "profile"
  ELSE IF name \in lib.stubs THEN "compatibility_sources" ELSE "none"

(* Names the compiler did not resolve and symbols the linker did not find. *)
Unresolved ==
  {r \in {d.name : d \in valid.refs} : Resolve(r) = "none"}
    \cup UNION {valid.undefined[u] : u \in Units(lib)}

Used == UNION {lib.uses[p] : p \in Parts(lib)}

Own == {u \in Units(lib) : lib.fileOf[u] = Primary}
AcceptedUnits ==
  {u \in Own : /\ valid.status[u] = "ok" /\ valid.ir
               /\ IsPOU(u) => valid.link[u] = "passed"
               /\ u \notin lib.pragmas \cup lib.barred}

(* Only the loose lines of the library's own file are counted.             *)
Unparsed == valid.orphans \ lib.far

(* Mutant: only the functions and blocks must be accepted.                 *)
LevelOfPOUs ==
  IF {u \in Own : IsPOU(u)} # {} /\ (\A u \in Own : IsPOU(u) => u \in AcceptedUnits) /\ Unparsed = {}
  THEN "full"
  ELSE IF \E u \in AcceptedUnits : IsPOU(u) THEN "partial" ELSE "none"

Level ==
  IF {u \in Own : IsPOU(u)} # {} /\ AcceptedUnits = Own /\ Unparsed = {} THEN "full"
  ELSE IF \E u \in AcceptedUnits : IsPOU(u) THEN "partial" ELSE "none"

Assumed ==
  {n \in Used \cap lib.formed : Resolve(n) = "profile" \/ (n \in lib.clocks /\ Resolve(n) # "input_library")}

Behaviour ==
  IF Unresolved # {} THEN "needs_platform"
  ELSE IF Assumed # {} THEN "unverified_environment"
  ELSE "rule_equivalence"

Fidelity ==
  IF Level = "full" /\ Behaviour = "rule_equivalence" /\ lib.stubs = {}
  THEN "semantic" ELSE "approximate"

WriteReport ==
  /\ valid.stage = "done" /\ report.status = "none"
  /\ report' = [level |-> Level, fidelity |-> Fidelity,
                support |-> IF Level = "none" THEN "unsupported" ELSE Fidelity,
                unresolved |-> Unresolved, accepted |-> AcceptedUnits, status |-> "done"]
  /\ UNCHANGED <<lib, valid, norm, closure, env, gen>>

(* The stubs are generated from the results of all libraries that went     *)
(* through; of this one only the names it misses are read.                 *)
StartStubs ==
  /\ report.status = "done" /\ gen = NoStubs
  /\ \E e \in Environments :
       /\ {x.name : x \in {y \in e.sites : y.lib = "L"}} = report.unresolved \ lib.noSymbol
       /\ CollectGaps(e)
  /\ lib' = NoSource /\ valid' = NoValidation /\ norm' = NoNormalization /\ closure' = NoClosure
  /\ report' = [NoReport EXCEPT !.status = "read"]

Rest ==
  /\ report.status \in {"done", "intake_error", "read"}
  /\ gen.stage \in {"none", "frozen"}
  /\ UNCHANGED intakeVars

Next ==
  \/ VisitDependency \/ LeaveFile \/ AssembleFiles
  \/ NormalizeStep /\ UNCHANGED <<closure, report, env, gen>>
  \/ StartBuild
  \/ ValidateStep /\ UNCHANGED <<norm, closure, report, env, gen>>
  \/ WriteReport \/ StartStubs
  \/ StubStep /\ UNCHANGED <<lib, valid, norm, closure, report>>
  \/ Rest

Spec == Init /\ [][Next]_intakeVars

-----------------------------------------------------------------------------
(* The accepted text is the text that was compiled: it type checks and     *)
(* generates code, it holds every unit reported as built, and of a         *)
(* rejected unit nothing but the sound declarations of a global list.      *)
AcceptedTextBuilds ==
  valid.stage = "done" /\ valid.ir =>
    /\ TypeChecks(lib, valid.out) /\ GenFaults(lib, valid.out) = {}
    /\ \A u \in Units(lib) :
         IF valid.status[u] = "ok" THEN UnitNames(lib, u) \cap valid.out = {}
         ELSE u \in valid.out \/ lib.decls[u] # {}

(* The names that are gone or cannot be declared without one that is.      *)
Sunk(lb, gone) ==
  LET under[k \in 0..CascadeLimit] ==
        IF k = 0 THEN gone
        ELSE LET above == under[k - 1]
                 next == {p \in Parts(lb) : lb.uses[p] \cap above # {}}
             IN  above \cup next \cup Extras(lb, next)
  IN  under[CascadeLimit]

(* A list that lost single declarations may still hold an error without    *)
(* position: no prefix of the other units is free of it.                   *)
ListHidesFault ==
  \E u \in Units(lib) : /\ valid.status[u] # "ok" /\ lib.decls[u] # {}
                        /\ \E f \in lib.faults : /\ f.of \in UnitNames(lib, u) /\ f.stage = "check"
                                                 /\ f.form \in {"unlocated", "mute"}

(* The names validate() may not find in what it blanks: the values of an   *)
(* enumeration, the further variables of a declaration, and all variables  *)
(* that are not declared alone on their line.                              *)
Unnoticed(lb) ==
  Extras(lb, Parts(lb)) \cup UNION {lb.decls[u] \ lb.plain : u \in Units(lb)}

(* A unit rejected by the type check has a cause of its own, unless a list *)
(* hides the fault that is searched for or it refers to what was excluded  *)
(* by a name that is not noticed; one that is said to depend on something  *)
(* unsupported refers to what was excluded or sinks with it.               *)
RejectionHasCause ==
  valid.stage \notin {"none", "failed"} =>
    \A u \in Units(lib) :
      /\ valid.status[u] = "type_error" =>
           \/ \E f \in lib.faults : f.of \in UnitNames(lib, u) /\ f.stage = "check"
           \/ \E p \in UnitNames(lib, u) :
                lib.uses[p] \cap (lib.missing \cup (Gone(lib, valid.out) \cap Unnoticed(lib))) # {}
           \/ ListHidesFault
      /\ valid.status[u] = "depends_on_unsupported" =>
           Mentions(lib, u) \cap Sunk(lib, Gone(lib, valid.out \cup valid.failing)) # {}

(* What validation says of every unit is so: what is kept builds and what  *)
(* is rejected had to be.                                                  *)
VerdictsAreRight == AcceptedTextBuilds /\ RejectionHasCause

(* A library is called semantically faithful only when nothing of it was   *)
(* left out: none of its units, declarations and loose lines, and in no    *)
(* file anything that its own text refers to (report.py:70-76).            *)
SemanticIsWhole ==
  report.fidelity = "semantic" =>
    LET own == UNION {UnitNames(lib, u) : u \in Own}
    IN  /\ valid.out \cap (own \cup (lib.loose \ lib.far)) = {}
        /\ (UNION {lib.uses[p] : p \in own}) \cap (Gone(lib, valid.out) \cup lib.missing) = {}
        /\ (UNION {lib.calls[u] : u \in Own}) \cap lib.noSymbol = {}

=============================================================================
