----------------------------- MODULE MCHarness -----------------------------
(* A target with three globals, a constant and one that is defined         *)
(* elsewhere.                                                              *)
EXTENDS Harness

Global(n) == [name |-> n, kind |-> "global", attr |-> "plain"]

MCIR ==
  {Global(n) : n \in {<<"sum">>, <<"link">>, <<"vtable">>}} \cup
  {[name |-> <<"text">>, kind |-> "constant", attr |-> "plain"],
   [name |-> <<"library">>, kind |-> "global", attr |-> "declaration"]}

(* Nothing changes; or a written global is taken apart and the vtable,     *)
(* which is never read, is gone; or the vtable has become a constant.      *)
MCOptimizations ==
  {MCIR,
   {Global(n) : n \in {<<"sum", "0">>, <<"link">>}},
   {Global(n) : n \in {<<"sum">>, <<"link", "0">>, <<"link", "1">>}}
     \cup {[name |-> <<"vtable">>, kind |-> "constant", attr |-> "plain"]}}

MCWritten == {<<"sum">>, <<"link">>}

Io(v) == [name |-> "io", value |-> v]
NotCold == [name |-> "__INIT", value |-> 2]
MCShared == {<<>>, <<Io(1)>>, <<Io(1), NotCold>>, <<NotCold, Io(1)>>, <<Io(1), Io(2)>>}

MCFrames == {[in |-> 0, buf |-> 1, io |-> 0, dt |-> 1],
             [in |-> 1, buf |-> 0, io |-> 1, dt |-> 2],
             [in |-> 2, buf |-> 0, io |-> 0, dt |-> 1]}

(* Three scans and writes of a text; three frames of the engine.           *)
MCMaxEvents == [loop |-> 3, engine |-> 6]
=============================================================================
