------------------------------ MODULE MCBatch ------------------------------
(* A designed defect whose buggy source is missing, a known defect and a   *)
(* benchmark target; two command lines that share a target.                *)
EXTENDS Batch

MCDefects == <<[id |-> "d1", designed |-> TRUE, files |-> {"fixed"}],
               [id |-> "k1", designed |-> FALSE, files |-> {"buggy"}]>>
MCBenchmarks == [m \in {"oscat"} |-> <<"b1">>]
MCTargets == {<<"d1", "fixed">>, <<"k1", "buggy">>, <<"b1", "buggy">>}

Hybrid(suite, variant) ==
  [suite |-> suite, variant |-> variant, manifest |-> "oscat", budget |-> 5,
   full |-> FALSE, coverage |-> FALSE, only |-> FALSE, skip |-> FALSE]

MCOptions ==
  {[Hybrid("defects", "both") EXCEPT !.full = TRUE, !.skip = TRUE],
   [Hybrid("all", "fixed") EXCEPT !.coverage = TRUE],
   [Hybrid("benchmarks", "buggy") EXCEPT !.only = TRUE]}
=============================================================================
