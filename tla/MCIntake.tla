------------------------------- MODULE MCIntake -------------------------------
(***************************************************************************)
(* A library of one function and one list of globals that depends on a     *)
(* second file, with every pair of a pool of faults, and a corpus of two   *)
(* libraries that miss three names.                                        *)
(***************************************************************************)
EXTENDS Intake

Fault(of, stage, form, names, rule, at) ==
  [of |-> of, stage |-> stage, form |-> form, names |-> names, rule |-> rule, at |-> at]

Pool ==
  {Fault(u, "check", form, {}, "none", 1) : u \in {"a", "b"}, form \in {"located", "unlocated", "panic"}}
  \cup {Fault(u, "gen", form, {}, "none", 1) : u \in {"a", "b"}, form \in {"located", "mute", "panic"}}
  \cup {Fault("a", "gen", "unlocated", {"a"}, "none", 2), Fault("b", "gen", "unlocated", {}, "none", 2),
        Fault("a", "gen", "dangling", {"x"}, "none", 3), Fault("b", "gen", "located", {}, "edit", 4),
        Fault("a", "check", "located", {}, "edit", 5), Fault("a", "check", "located", {}, "vain", 6),
        Fault("g", "check", "located", {}, "move", 7), Fault("x", "check", "located", {}, "none", 8),
        Fault("x", "check", "located", {}, "edit", 9), Fault("y", "check", "unlocated", {}, "none", 10),
        Fault("t", "check", "located", {}, "none", 11), Fault("a", "gen", "dangling", {"z"}, "none", 12)}

MCFaults == {{}} \cup {{f} : f \in Pool} \cup {{f, g} : f \in Pool, g \in Pool}

Parties == {"a", "b", "g", "x", "y", "m", "t", "e"}
UsesOf(pairs) == [p \in Parties |-> {q[2] : q \in {r \in pairs : r[1] = p}}]
MCUses ==
  {UsesOf({}), UsesOf({<<"a", "b">>}), UsesOf({<<"b", "a">>, <<"m", "b">>}),
   UsesOf({<<"a", "x">>, <<"b", "y">>}), UsesOf({<<"a", "w1">>, <<"b", "a">>}),
   UsesOf({<<"y", "t">>, <<"a", "y">>}), UsesOf({<<"x", "w1">>, <<"y", "w2">>, <<"a", "y">>}),
   UsesOf({<<"a", "ADR">>, <<"b", "TIME">>}), UsesOf({<<"x", "a">>, <<"b", "x">>}),
   UsesOf({<<"a", "z">>, <<"b", "red">>})}

Base ==
  [files |-> [D |-> <<"b", "m">>, E |-> <<"e">>, P |-> <<"a", "g">>, S |-> <<"g", "t">>],
   deps |-> [D |-> <<"E">>, E |-> <<"D">>, P |-> <<"D", "E">>, S |-> <<>>],
   onDisk |-> {"D", "E", "P"}, entry |-> {"m"}, supplement |-> TRUE,
   decls |-> [u \in Parties |-> IF u = "g" THEN {"x", "y"} ELSE {}],
   extra |-> [p \in Parties |-> CASE p = "x" -> {"z"} [] p = "t" -> {"red"} [] OTHER -> {}], plain |-> {"y"},
   uses |-> UsesOf({}), faults |-> {}, loose |-> {}, far |-> {}, compat |-> "ok", barred |-> {},
   calls |-> [u \in Parties |-> IF u = "b" THEN {"native"} ELSE {}], noSymbol |-> {}, native |-> "ok",
   rebound |-> {}, stubs |-> {}, adapters |-> {"ADR"}, clocks |-> {},
   formed |-> {"ADR", "TIME", "a", "b", "w1"}, pragmas |-> {}]

(* The worlds a library is taken in.                                       *)
Worlds ==
  {Base, [Base EXCEPT !.deps.P = <<"E">>, !.onDisk = {"E", "P"}, !.supplement = FALSE],
   [Base EXCEPT !.deps.D = <<"P">>, !.deps.P = <<"D">>, !.loose = {"line", "remote"},
     !.far = {"remote"}, !.clocks = {"TIME"}],
   [Base EXCEPT !.loose = {"remote"}, !.far = {"remote"}, !.formed = {}],
   [Base EXCEPT !.compat = "error"], [Base EXCEPT !.compat = "exit"],
   [Base EXCEPT !.compat = "panic"], [Base EXCEPT !.compat = "gen"],
   [Base EXCEPT !.native = "object"], [Base EXCEPT !.native = "link", !.rebound = {"w2"}],
   [Base EXCEPT !.noSymbol = {"native"}, !.pragmas = {"g"}],
   [Base EXCEPT !.barred = {"b"}, !.stubs = {"w1"}]}

MCSources ==
  {[w EXCEPT !.uses = u, !.faults = f] :
     w \in Worlds, u \in MCUses, f \in {g \in MCFaults : Cardinality(g) < 2}}
  \cup {[Base EXCEPT !.uses = u, !.faults = f] : u \in MCUses, f \in MCFaults}

Site(name, library, use, args, type) ==
  [name |-> name, lib |-> library, use |-> use, args |-> args, type |-> type, counts |-> TRUE]
Passed(site) == [site EXCEPT !.counts = FALSE]

(* The corpora: the names the library misses, and a second library that    *)
(* misses names of its own.                                                *)
Corpus(sites, fixed, broken) ==
  [sites |-> sites, fixed |-> fixed, broken |-> broken,
   batch |-> [k \in {"w1", "w2", "w3"} |-> IF k = "w3" THEN 2 ELSE 1]]
MCEnvironments ==
  {Corpus({Site("w1", "L", "call", 1, "INT"), Site("w2", "M", "call", 1, "?"), Site("w2", "M", "call", 2, "INT"),
           Site("w3", "M", "call", 1, "BOOL")}, {}, {}),
   Corpus({Passed(Site("w1", "L", "call", 2, "INT")), Site("w1", "M", "call", 1, "INT"),
           Site("w2", "M", "call", 1, "INT"), Site("w3", "M", "call", 1, "INT"), Site("w3", "M", "call", 2, "INT")},
          {}, {}),
   Corpus({Passed(Site("w1", "L", "call", 1, "INT")), Site("w1", "M", "call", 2, "INT"),
           Site("w3", "M", "qualified", 0, "?")}, {}, {"M"}),
   Corpus({Site("w1", "L", "value", 0, "?"), Site("w2", "L", "type", 0, "DINT"),
           Site("w2", "M", "formal", 0, "?"), Site("w3", "M", "value", 0, "BOOL")}, {"w3"}, {})}

Answer(misfit, mentions, hollow) ==
  [from |-> "llm", misfit |-> misfit, mentions |-> mentions, hollow |-> hollow]
MCAnswers == {Answer({}, {}, FALSE), Answer({"L", "M"}, {}, FALSE), Answer({}, {"w2"}, FALSE),
              Answer({}, {"w3"}, FALSE), Answer({}, {}, TRUE)}

=============================================================================
