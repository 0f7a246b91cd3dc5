---------------------------- MODULE MCTargetBuild ----------------------------
(***************************************************************************)
(* Small instance of TargetBuild: programs with exact, approximate and     *)
(* stubbed calls whose goal needs a scalar, a float, a text, a wide array  *)
(* or a prefix; functions of three blocks with 64 choices of jumps.        *)
(***************************************************************************)
EXTENDS TargetBuild

Def(o) == [op |-> o, register |-> "", size |-> 0, to |-> "", from |-> ""]
Object(r, n) == [Def("object") EXCEPT !.register = r, !.size = n]
Copy(a, b) == [Def("copy") EXCEPT !.to = a, !.from = b]
OneFunction == <<Def("define"), Object("a", 4), Object("b", 8), Copy("a", "b"), Def("end")>>
TwoFunctions == OneFunction \o <<Def("define"), Object("a", 2), Copy("b", "a"), Def("end")>>

Straight == [blocks |-> <<1>>, phis |-> {}, line |-> <<<<>>>>]
Bodies ==
  { [blocks |-> <<1, 2, 3>>, phis |-> {3}, line |-> l] :
      l \in [1..3 -> {<<>>, <<1>>, <<2, 3>>, <<3, 1>>}] }

Asan == <<TRUE, {"address", "undefined"}>>
Prog(edges, need) ==
  [closure |-> {"library"}, defines |-> {"library"}, lines |-> OneFunction, calls |-> edges,
   undefined |-> FALSE, symbolic |-> TRUE, floats |-> FALSE, hidden |-> {}, stub |-> FALSE,
   conservative |-> FALSE, need |-> need, after |-> FALSE, body |-> Straight,
   bounds |-> TRUE, memory |-> TRUE, manifest |-> TRUE, flags |-> <<Asan>>]
Plain == {<<"f", "g">>, <<"g", "TON">>}

MCPrograms ==
  { Prog(Plain, "n" :> 1),
    [Prog(Plain, "n" :> 1) EXCEPT !.after = TRUE, !.lines = TwoFunctions],
    [Prog(Plain, "w" :> 1) EXCEPT !.closure = {"vendor"}, !.defines = {}, !.memory = FALSE],
    [Prog(Plain \cup {<<"g", "SIN">>, <<"g", "f">>}, "n" :> 1) EXCEPT
       !.lines = <<>>, !.manifest = FALSE],
    [Prog(Plain, "r" :> 1) EXCEPT !.floats = TRUE, !.conservative = TRUE, !.bounds = FALSE],
    [Prog(Plain, "n" :> 1) EXCEPT !.stub = TRUE, !.flags = <<Asan, <<FALSE, {"all"}>>>>],
    [Prog(Plain, "n" :> 1) EXCEPT !.hidden = {"malloc"}],
    Prog(Plain, "t" :> 1),
    [Prog(Plain, "n" :> 1) EXCEPT !.symbolic = FALSE] }
  \cup {[Prog({}, "n" :> 1) EXCEPT !.undefined = TRUE, !.body = b] : b \in Bodies}

MCKindOf == ("n" :> "scalar" @@ "r" :> "real" @@ "t" :> "string" @@ "w" :> "wide")
Zero == [f \in {"n", "r", "t", "w"} |-> 0]
Request(i, s, sy, b) ==
  [id |-> i, start |-> s, symbolic |-> sy, base |-> b, window |-> 1, stops |-> FALSE]
MCRequests ==
  { Request(1, "cold", {"n"}, Zero),
    [Request(1, "prefix", {"n"}, Zero) EXCEPT !.window = 2],
    Request(1, "cold", {"r"}, [Zero EXCEPT !["n"] = 1]),
    Request(2, "prefix", {"n", "w"}, Zero),
    Request(2, "cold", {"t"}, Zero),
    [Request(1, "prefix", {"n"}, Zero) EXCEPT !.stops = TRUE] }
=============================================================================
