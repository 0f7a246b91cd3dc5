--------------------------- MODULE MCPreparation ---------------------------
(***************************************************************************)
(* Small instance of Preparation: every graph of three nodes with three    *)
(* lists of targets, call graphs of three POUs, and plans over a Boolean   *)
(* frame field, an in-out field and a shared constant.                     *)
(***************************************************************************)
EXTENDS Preparation

T(k, n, e, m, d) ==
  [kind |-> k, node |-> n, edges |-> e, mapped |-> m, modeling |-> 0, needs |-> d]

MCTargetLists ==
  { <<T("branch", 2, {}, TRUE, {}), T("reach", 3, {<<2, 3>>}, TRUE, {}),
      T("violation", 3, {}, TRUE, {"s"})>>,
    <<T("violation", 2, {}, FALSE, {}), T("reach", 2, {}, TRUE, {}),
      T("branch", 2, {<<1, 2>>}, TRUE, {})>>,
    <<T("property", 3, {}, TRUE, {"s"}), T("cycle", 1, {}, TRUE, {}),
      T("branch", 3, {<<2, 3>>}, FALSE, {})>>,
    <<>> }
MCEdgeKind(e) == IF e[1] > e[2] THEN "temporal" ELSE "evaluation"
MCEdgeModel(e) == IF e = <<1, 3>> THEN 1 ELSE IF e[1] > e[2] THEN 2 ELSE 0
MCWrites(e) == IF e[1] = 2 THEN {"s"} ELSE {}

MCCallGraphs == SUBSET ({1} \X {2, 3} \cup {<<2, 3>>, <<3, 2>>, <<3, 4>>})
MCPouFacts == [{1, 2, 3} -> {{}}] \cup {(1 :> {} @@ 2 :> {} @@ 3 :> {"state"}),
                                        (1 :> {} @@ 2 :> {"inout_alias"} @@ 3 :> {})}
MCShape(b, i, l, c, g, t) ==
  [condition |-> c, boundary |-> g, guarded |-> g, elements |-> 4, controls |-> 1,
   switches |-> 1, bools |-> b, ints |-> i, literals |-> l, timers |-> t]
MCShapes == {MCShape(0, 1, 1, TRUE, FALSE, FALSE), MCShape(1, 1, 2, TRUE, TRUE, FALSE),
             MCShape(2, 1, 1, FALSE, FALSE, TRUE), MCShape(0, 0, 0, FALSE, TRUE, TRUE)}

(* b is a Boolean, x a string: it may end in a blank, and a line break in  *)
(* it (here a bar) is followed by what is no record, or by one for x.      *)
MCDefault(f) == "0"
MCDomain(f) == {"0", "1"} \cup (IF f = "b" THEN {} ELSE {"2", "2 ", "1|2", "2|x"})
MCAccepted(f) == MCDomain(f) \cup (IF f = "b" THEN {"true", "1.0"} ELSE {})
MCText(v) == IF v = "true" THEN "1" ELSE v
MCTrimmed(v) == IF v = "2 " THEN "2" ELSE v
MCReread(text) ==
  IF \E i \in DOMAIN text.frames : text.frames[i].x = "1|2" THEN FormatError
  ELSE [error |-> FALSE, shared |-> text.shared,
        frames |-> [i \in DOMAIN text.frames |-> [text.frames[i] EXCEPT !.x = "0"]]]
Set(f, v) == [op |-> "set", inputs |-> f :> v]
Pulse == [op |-> "pulse", input |-> "b"]
MCBodies ==
  { <<Set("b", "true")>>,
    <<Set("x", "2 "), [op |-> "wait", frames |-> 1]>>,
    <<Pulse, [op |-> "hold", inputs |-> ("x" :> "1"), frames |-> 2]>>,
    <<[op |-> "repeat", times |-> 2, actions |-> <<Pulse>>]>>,
    <<[op |-> "repeat", times |-> 2, actions |-> <<Pulse, Set("x", "1")>>]>>,
    <<Set("x", "1|2")>>, <<Set("x", "2|x")>>,
    <<Set("b", "1.0")>>, <<Set("b", "2")>> }
P(t, b, p) == [task |-> t, body |-> b, metadata |-> TRUE, named |-> TRUE, priority |-> p]
Broken(p) == [p EXCEPT !.named = FALSE]
SetB == <<Set("b", "1")>>
SetX == <<Set("x", "2"), [op |-> "wait", frames |-> 1]>>
MCBatches ==
  {<<>>} \cup {<<P(1, b, 1)>> : b \in MCBodies}
  \cup {<<P(1, SetB, 2), P(2, b, 1)>> : b \in MCBodies}
  \cup {<<P(2, SetX, 1), P(3, SetB, 1)>>, <<P(2, SetX, 1), Broken(P(1, SetB, 1))>>,
         <<P(2, SetX, NoPriority), P(1, SetB, 1)>>, <<P(2, SetX, NoPriority)>>}

(* A rising edge of b is the probe; x, as it is read, counts as the        *)
(* distance to 2.                                                          *)
MCRun(t, frames) ==
  LET edges == {i \in 2..Len(frames) : frames[i].b = "1" /\ frames[i - 1].b = "0"}
      x == MCTrimmed(Last(frames).x)
      far == CASE x = "0" -> 2 [] x = "1" -> 1 [] x = "2" -> 0 [] OTHER -> 3 IN
  [hits |-> {1} \cup (IF edges # {} THEN {2} ELSE {}),
   state |-> IF t = 1 THEN {Last(frames).x} ELSE {},
   distance |-> IF t = 2 /\ edges = {} /\ far = 2 THEN {} ELSE {far},
   goal |-> t = 2 /\ far = 0 /\ edges # {}]
=============================================================================
