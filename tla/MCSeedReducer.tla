--------------------------- MODULE MCSeedReducer ---------------------------
(* Small seeds and ways to end, and variants of the reducer used as mutants. *)
EXTENDS SeedReducer

R(i, c, n, t, h, v) == [index |-> i, cycle |-> c, name |-> n, ty |-> t, hex |-> h,
                        value |-> v]

Names == {"A", "a", "B"}
MCUpper == [n \in Names |-> IF n = "a" THEN "A" ELSE n]

\* A text as "abc defg".
MCBlanks == [n \in Names |-> IF n = "A" THEN {4} ELSE {}]

\* Two cycles with a duplicate that differs in case; an integer and a byte
\* string; a float; a record without cycle; texts; a type without candidates.
MCSeeds ==
  {{R(1, 0, "A", "BOOL", FALSE, <<1>>), R(2, 1, "A", "BOOL", FALSE, <<1>>),
    R(3, 1, "a", "BOOL", FALSE, <<1>>)},
   {R(1, None, "A", "SINT", FALSE, <<3>>), R(2, None, "B", "TIME", FALSE, <<0>>)},
   {R(i, None, IF i = 2 THEN "B" ELSE "A", "TIME", FALSE, <<i>>) : i \in 1 .. 3},
   {R(1, 0, "A", "POINTER", TRUE, <<7, 0>>)},
   {R(1, 0, "A", "POINTER", FALSE, <<1>>), R(2, 0, "B", "REAL", FALSE, <<8>>)},
   {R(1, 0, "A", "STRING", FALSE, <<8>>), R(2, 1, "A", "WSTRING", FALSE, <<1>>)}}

Exit(code, oom, san, stack) == [ended |-> "exit", code |-> code, oom |-> oom,
                                san |-> san, stack |-> stack]

MCProcesses == {Exit(-6, FALSE, "asan", "s1"), Exit(-6, FALSE, "asan", "s2"),
                Exit(0, FALSE, None, None)}

MCBaselines == {None, "timeout"}
=============================================================================
