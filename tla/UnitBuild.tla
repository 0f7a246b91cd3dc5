------------------------------ MODULE UnitBuild ------------------------------
(***************************************************************************)
(* The per-unit build evidence of a library (compiler/intake/build.py):    *)
(* units that fail to type check or to generate code are blanked, round by *)
(* round, until what is left compiles to one module and is linked.         *)
(*                                                                         *)
(* A library `lib' is a record:                                            *)
(*   units    its units in source order (the files sorted by name)         *)
(*   decls    the declarations of a unit that is a global variable list,   *)
(*            each named by its first variable                             *)
(*   extra    the further names a declaration or a unit stands for: the    *)
(*            other variables of "a, b : T;", the values of an enumeration *)
(*   plain    declarations of one variable on a line of their own          *)
(*   uses     the names a unit or a declaration refers to                  *)
(*   faults   what the compiler objects to: [of, stage, form, names, ...]  *)
(*   missing  the names nothing declares                                   *)
(*   loose    lines outside any unit that do not parse                     *)
(*   compat   how the compatibility sources behave: "ok", "error", "exit", *)
(*            "panic" or, an error in code generation only, "gen"          *)
(*   barred   units with a construct that is unsupported in any case       *)
(*   calls    the native symbols a unit calls, noSymbol those nobody has   *)
(*   native   whether clang and the linker work: "ok", "object", "link"    *)
(* Blanking is a set `out' of units, declarations and lines.               *)
(***************************************************************************)
EXTENDS Naturals, Sequences, SequencesExt, FiniteSets, FiniteSetsExt

CONSTANTS MaxRounds,      \* MAX_ROUNDS: rounds beyond one per unit
          PartialLimit,   \* PARTIAL_LIMIT: rounds a list loses single declarations
          CascadeLimit    \* the rounds of _exclusion_culprit

ASSUME BuildAssumption == CascadeLimit \in Nat /\ MaxRounds \in Nat /\ PartialLimit \in Nat

(* The elements of a sequence that are in `keep', in their order.          *)
Kept(s, keep) ==
  LET upto[i \in 0..Len(s)] ==
        IF i = 0 THEN <<>> ELSE IF s[i] \in keep THEN Append(upto[i - 1], s[i]) ELSE upto[i - 1]
  IN  upto[Len(s)]

Stages == {"check", "gen"}

(* located: reported at a line of the unit; unlocated: without a position; *)
(* mute: without position or words; dangling: without position, and only   *)
(* while a name it needs is gone; panic: the compiler dies on it.          *)
Forms == {"located", "unlocated", "mute", "dangling", "panic"}

Units(lb) == ToSet(lb.units)

(* A unit and its declarations: a list is known by its variables.          *)
UnitNames(lb, u) == {u} \cup lb.decls[u]

Parts(lb) == UNION {UnitNames(lb, u) : u \in Units(lb)}
Extras(lb, parts) == UNION {lb.extra[p] : p \in parts \cap Parts(lb)}

(* What is blanked, and the names nothing declares any more.               *)
Off(lb, out) == out \cup UNION {lb.decls[u] : u \in Units(lb) \cap out}
Gone(lb, out) == Off(lb, out) \cup Extras(lb, Off(lb, out))

(* Mutant: the variables of an excluded list are not taken.                *)
NotedUnits(lb, out) == out

(* blanked_names: the names that validate() takes from what it blanks.  It *)
(* finds a list's variables only in lines "name : type", a declaration's   *)
(* first variable, and no value of an enumeration.                         *)
Noted(lb, out) == out \cup UNION {lb.decls[u] \cap lb.plain : u \in Units(lb) \cap out}

(* What can be blanked: units, declarations and lines outside any unit.    *)
Blankings(lb) == SUBSET (Parts(lb) \cup lb.loose)

UnitOf(lb, p) == CHOOSE u \in Units(lb) : p \in UnitNames(lb, u)

(* What a unit's text refers to, and all its words.                        *)
Mentions(lb, u) ==
  (UNION {lb.uses[p] : p \in UnitNames(lb, u)})
    \cup UNION {f.names : f \in {g \in lb.faults : g.of \in UnitNames(lb, u)}}
WordsOf(lb, u) == UnitNames(lb, u) \cup Extras(lb, UnitNames(lb, u)) \cup Mentions(lb, u)

Live(lb, out, stage) ==
  {f \in lb.faults :
     /\ f.stage = stage /\ f.of \in Parts(lb) \ Off(lb, out)
     /\ f.form = "dangling" => f.names \cap Gone(lb, out) # {}}

-----------------------------------------------------------------------------
(* The pinned compiler.                                                    *)

CheckPanics(lb, out) ==
  lb.compat = "panic" \/ \E f \in Live(lb, out, "check") : f.form = "panic"

Diagnostics(lb, out) ==
  LET here == Parts(lb) \ Off(lb, out)
      absent == Gone(lb, out) \cup lb.missing
  IN  IF CheckPanics(lb, out) THEN {} ELSE
      {[part |-> f.of, refers |-> "none"] :
          f \in {g \in Live(lb, out, "check") : g.form = "located"}}
      \cup UNION {{[part |-> p, refers |-> n] : n \in lb.uses[p] \cap absent} : p \in here}

Unlocated(lb, out) ==
  IF CheckPanics(lb, out) THEN {} ELSE
  {f \in Live(lb, out, "check") : f.form \in {"unlocated", "mute"}}

Loose(lb, out) == IF CheckPanics(lb, out) THEN {} ELSE lb.loose \ out

TypeChecks(lb, out) ==
  /\ lb.compat \in {"ok", "gen"} /\ ~CheckPanics(lb, out)
  /\ Diagnostics(lb, out) = {} /\ Unlocated(lb, out) = {} /\ Loose(lb, out) = {}

(* Code generation runs only on text that type checks.                     *)
GenFaults(lb, out) == IF TypeChecks(lb, out) THEN Live(lb, out, "gen") ELSE {}

GenPanics(lb, out) ==
  CheckPanics(lb, out) \/ \E f \in GenFaults(lb, out) : f.form = "panic"

(* An error without location is one line of the output; a panic hides it.  *)
Says(lb, out, f) == f \in GenFaults(lb, out) /\ ~GenPanics(lb, out)

-----------------------------------------------------------------------------
(* Finding the unit an error without position comes from.                  *)

(* The first unit whose presence makes the build fail, by halving: the     *)
(* prefix of length start is taken to build, the whole to fail.  The test  *)
(* is a function of what is blanked.                                       *)
Halve(active, out, fails, start) ==
  LET without(k) == out \cup {active[i] : i \in (k + 1)..Len(active)}
      narrow[p \in (0..Len(active)) \X (0..Len(active))] ==
        LET low == p[1]  high == p[2]  middle == (p[1] + p[2]) \div 2
        IN  IF low + 1 < high
            THEN IF fails[without(middle)] THEN narrow[<<low, middle>>] ELSE narrow[<<middle, high>>]
            ELSE high
  IN  narrow[<<start, Len(active)>>]

(* 0: no unit is left to blame, or the build does not fail.                *)
CulpritPrefix(active, out, fails, start) ==
  IF start >= Len(active) \/ ~fails[out] THEN 0 ELSE Halve(active, out, fails, start)

(* What follows from leaving a unit out: the pieces that then fail to type *)
(* check, for a bounded number of rounds.                                  *)
Cascade(lb, out) ==
  LET after[k \in 0..CascadeLimit] ==
        IF k = 0 THEN out ELSE after[k - 1] \cup {d.part : d \in Diagnostics(lb, after[k - 1])}
  IN  after[CascadeLimit]

(* The candidate whose exclusion, with its dependents, removes the error.  *)
ExclusionCulprit(lb, active, out, f) ==
  LET cures(u) == LET rest == Cascade(lb, out \cup {u})
                  IN  TypeChecks(lb, rest) /\ ~Says(lb, rest, f)
      found == {i \in 1..Len(active) :
                  WordsOf(lb, active[i]) \cap f.names # {} /\ cures(active[i])}
  IN  IF found = {} THEN 0 ELSE Min(found)

-----------------------------------------------------------------------------
VARIABLES lib,    \* the library as it is built
          valid       \* the state of validate()

buildVars == <<lib, valid>>

Verdicts == {"ok", "unsupported_construct", "type_error", "depends_on_unsupported",
             "codegen_error", "compiler_panic", "codegen_panic"}
NoValidation == [stage |-> "none"]

Ok(val, us) == {u \in us : val.status[u] = "ok"}
Active(val) == Kept(lib.units, Ok(val, Units(lib)))
With(status, us, verdict) == [u \in DOMAIN status |-> IF u \in us THEN verdict ELSE status[u]]

(* Units with an unsupported construct start blanked.                      *)
Begin(lb) ==
  [stage |-> "check", round |-> 0, out |-> Units(lb) \cap lb.barred,
   status |-> [u \in Units(lb) |-> IF u \in lb.barred THEN "unsupported_construct" ELSE "ok"],
   failing |-> {}, decls |-> {}, lines |-> {}, orphans |-> {}, panic |-> "none", start |-> 0,
   partial |-> [u \in Units(lb) |-> 0], conf |-> {}, refs |-> {}, ir |-> FALSE,
   link |-> [u \in Units(lb) |-> "not_run"], undefined |-> [u \in Units(lb) |-> {}]]

(* The verdicts the diagnostics of a round may give: the first diagnostic  *)
(* of a unit decides, and the compiler chooses the order.                  *)
Judged(val, seen) ==
  LET of(u) == {d \in seen : UnitOf(lib, d.part) = u}
      fresh == {u \in Units(lib) : val.status[u] = "ok" /\ of(u) # {}}
      verdict(d) == IF d.refers \in Noted(lib, val.out)
                    THEN "depends_on_unsupported" ELSE "type_error"
  IN  {[u \in Units(lib) |-> IF u \in fresh THEN verdict(first[u]) ELSE val.status[u]] :
         first \in {f \in [fresh -> seen] : \A u \in fresh : f[u] \in of(u)}}

(* One type check of what is left: errors name their units, lines outside  *)
(* any unit are noted, and errors without position are searched for.       *)
CheckUnits ==
  /\ valid.stage = "check" /\ valid.round < MaxRounds + Len(lib.units)
  /\ LET seen == Diagnostics(lib, valid.out)
         hit == {UnitOf(lib, d.part) : d \in seen}
         lines == Loose(lib, valid.out)
         silent == Unlocated(lib, valid.out)
         clean == seen = {} /\ lines = {} /\ silent = {} /\ lib.compat # "error"
         panic == CheckPanics(lib, valid.out)
         active == Active(valid)
         unlocated == [o \in Blankings(lib) |-> Unlocated(lib, o) # {}]
         search == (silent # {} \/ lib.compat = "error") /\ hit = {} /\ lines = {} /\ ~panic
         culprit == IF search THEN CulpritPrefix(active, valid.out, unlocated, 0) ELSE 0
         conf == valid.conf \cup (IF clean /\ ~panic /\ lib.compat = "exit" THEN {"COMPILER_EXIT"} ELSE {})
                        \cup (IF search /\ culprit = 0 THEN {"unlocated"} ELSE {})
     IN  \E st \in Judged(valid, seen) :
           valid' = [valid EXCEPT !.status = IF culprit = 0 THEN st
                                     ELSE [st EXCEPT ![active[culprit]] = "type_error"],
                          !.failing = IF culprit = 0 THEN hit ELSE {active[culprit]},
                          !.decls = {d.part : d \in seen} \ Units(lib),
                          !.lines = lines, !.orphans = @ \cup lines, !.conf = conf,
                          !.refs = @ \cup {[unit |-> UnitOf(lib, d.part), name |-> d.refers] :
                                              d \in {e \in seen : e.refers # "none"}},
                          !.panic = IF panic THEN "check" ELSE "none",
                          !.stage = IF panic THEN "panic"
                                    ELSE IF clean /\ conf = {} THEN "generate" ELSE "blank"]
  /\ UNCHANGED lib

(* What type checks is compiled; a located error blames its unit, one      *)
(* without location the users of something excluded, else a unit found by  *)
(* exclusion or by prefixes.                                               *)
BlameHidden(f) ==
  LET active == Active(valid)
      dangling == f.names \cap Noted(lib, valid.out)
      users == {u \in Ok(valid, Units(lib)) : WordsOf(lib, u) \cap dangling # {}}
      isolated == IF f.form = "mute" THEN 0 ELSE ExclusionCulprit(lib, active, valid.out, f)
      says == [o \in Blankings(lib) |-> Says(lib, o, f)]
      found == IF f.form = "mute" THEN 0 ELSE CulpritPrefix(active, valid.out, says, 0)
      after == Cascade(lib, valid.out \cup {active[isolated]})
      dependents == (Units(lib) \cap after) \ (valid.out \cup {active[isolated]})
  IN  CASE users # {} ->
             valid' = [valid EXCEPT !.status = With(@, users, "depends_on_unsupported"),
                            !.failing = users, !.stage = "blank"]
        [] users = {} /\ isolated # 0 ->
             valid' = [valid EXCEPT !.status = With(With(@, Ok(valid, dependents), "depends_on_unsupported"),
                                            {active[isolated]}, "codegen_error"),
                            !.failing = dependents \cup {active[isolated]}, !.stage = "blank"]
        [] users = {} /\ isolated = 0 /\ found # 0 ->
             valid' = [valid EXCEPT !.status = With(@, {active[found]}, "codegen_error"),
                            !.failing = {active[found]}, !.stage = "blank"]
        [] OTHER -> valid' = [valid EXCEPT !.conf = @ \cup {"CODEGEN"}, !.stage = "finish"]

GenerateIR ==
  /\ valid.stage = "generate"
  /\ LET errors == GenFaults(lib, valid.out)
         hit == {UnitOf(lib, f.of) : f \in {g \in errors : g.form = "located"}}
     IN  CASE GenPanics(lib, valid.out) -> valid' = [valid EXCEPT !.panic = "codegen", !.stage = "panic"]
           [] ~GenPanics(lib, valid.out) /\ errors = {} /\ lib.compat = "ok" ->
                valid' = [valid EXCEPT !.ir = TRUE, !.start = 0, !.stage = "finish"]
           [] ~GenPanics(lib, valid.out) /\ (hit # {} \/ lib.compat = "gen") ->
                valid' = [valid EXCEPT !.status = With(@, hit, "codegen_error"), !.failing = hit,
                               !.conf = IF lib.compat = "gen" THEN @ \cup {"CODEGEN"} ELSE @,
                               !.stage = IF hit = {} THEN "finish" ELSE "blank"]
           [] OTHER -> \E f \in errors : BlameHidden(f)
  /\ UNCHANGED lib

(* A panic is searched for from the unit the previous panic was found at.  *)
AttributePanic ==
  /\ valid.stage = "panic"
  /\ LET active == Active(valid)
         dies == [o \in Blankings(lib) |->
                   IF valid.panic = "codegen" THEN GenPanics(lib, o) ELSE CheckPanics(lib, o)]
         culprit == CulpritPrefix(active, valid.out, dies, valid.start)
         u == active[culprit]
         blocked == (WordsOf(lib, u) \cap Noted(lib, valid.out)) \ {u}
         verdict == IF blocked # {} THEN "depends_on_unsupported"
                    ELSE IF valid.panic = "check" THEN "compiler_panic" ELSE "codegen_panic"
     IN  valid' = IF culprit = 0
              THEN [valid EXCEPT !.conf = @ \cup {"PANIC"}, !.stage = "finish"]
              ELSE [valid EXCEPT !.status[u] = verdict, !.failing = @ \cup {u},
                             !.start = culprit - 1, !.stage = "blank"]
  /\ UNCHANGED lib

(* What failed is blanked: a list its failing declarations as long as that *)
(* is granted, everything else as a whole; nothing new ends the rounds.    *)
BlankFailing ==
  /\ valid.stage = "blank"
  /\ LET new == valid.failing \ valid.out
         some(u) == (valid.decls \cap lib.decls[u]) \ valid.out
         partly == {u \in new : some(u) # {} /\ valid.partial[u] < PartialLimit}
         stuck == valid.conf # {} /\ valid.failing = {} /\ valid.lines = {}
         nothing == new = {} /\ valid.lines = {}
     IN  valid' = IF stuck \/ nothing THEN [valid EXCEPT !.stage = "finish"]
              ELSE [valid EXCEPT !.out = @ \cup valid.lines \cup (new \ partly)
                                       \cup UNION {some(u) : u \in partly},
                             !.partial = [u \in DOMAIN @ |-> IF u \in partly THEN @[u] + 1 ELSE @[u]],
                             !.start = IF valid.panic = "none" THEN 0 ELSE @,
                             !.failing = {}, !.decls = {}, !.lines = {}, !.panic = "none",
                             !.round = @ + 1, !.stage = "check"]
  /\ UNCHANGED lib

(* The rounds are used up: what is left is reported as it stands.          *)
StopRounds ==
  /\ valid.stage = "check" /\ valid.round = MaxRounds + Len(lib.units)
  /\ valid' = [valid EXCEPT !.stage = "finish"]
  /\ UNCHANGED lib

(* The symbols a unit's code reaches through the functions it calls.       *)
Reaches(u) ==
  LET near(s) == s \cup UNION {lib.uses[p] : p \in {q \in Parts(lib) : ({q} \cup lib.extra[q]) \cap s # {}}}
      far[k \in 0..Cardinality(Parts(lib))] == IF k = 0 THEN UnitNames(lib, u) ELSE near(far[k - 1])
  IN  UNION {lib.calls[w] : w \in far[Cardinality(Parts(lib))] \cap Units(lib)}

(* The module is linked as a whole: one undefined symbol fails every unit, *)
(* and is held against the units whose code reaches it.                    *)
LinkUnits ==
  /\ valid.stage = "finish"
  /\ LET built == Ok(valid, Units(lib))
         bad == (UNION {lib.calls[u] : u \in Units(lib) \ valid.out}) \cap lib.noSymbol
         linked(u) == IF lib.native = "object" THEN "object_failed"
                      ELSE IF bad = {} /\ lib.native = "ok" THEN "passed"
                      ELSE IF Reaches(u) \cap bad # {} THEN "undefined_symbols" ELSE "link_failed"
     IN  valid' = IF ~valid.ir THEN [valid EXCEPT !.stage = "done"]
              ELSE [valid EXCEPT
                !.undefined = [u \in Units(lib) |-> IF u \in built /\ lib.native # "object"
                                                    THEN Reaches(u) \cap bad ELSE {}],
                !.link = [u \in Units(lib) |-> IF u \in built THEN linked(u) ELSE "not_run"],
                !.stage = "done"]
  /\ UNCHANGED lib

ValidateStep == CheckUnits \/ GenerateIR \/ AttributePanic \/ BlankFailing \/ StopRounds \/ LinkUnits

=============================================================================
