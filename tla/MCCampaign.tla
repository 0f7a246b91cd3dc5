----------------------------- MODULE MCCampaign -----------------------------
(***************************************************************************)
(* Small instances of Campaign.  The testcases and what they show:         *)
(*   t1  always shows r1;                                                  *)
(*   t2  flaky: r2 or nothing;                                             *)
(*   t3  shows r3, a crash that differs from r2 in its diagnostic only,    *)
(*       and is what is left of t2 when frames are deleted;                *)
(*   t4  clean.                                                            *)
(***************************************************************************)
EXTENDS Campaign

CONSTANTS t1, t2, t3, t4, r1, r2, r3

MCKey(r) == IF r = r3 THEN r2 ELSE r

MCShows(t) ==
  CASE t = t1 -> {r1}
    [] t = t2 -> {r2, NoRisk}
    [] t = t3 -> {r3}
    [] OTHER  -> {NoRisk}

MCShorter(t) == IF t = t2 THEN {t3} \cap Tests ELSE {}
=============================================================================
