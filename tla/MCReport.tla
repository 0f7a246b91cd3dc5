------------------------------ MODULE MCReport ------------------------------
(* Run directories of hybrid campaigns and of the coverage engine.         *)
EXTENDS PackageReplay

V3(name, oracle, goal, seeds) ==
  [form |-> "v3", name |-> name, oracle |-> oracle, kind |-> "", hazard |-> None,
   goal |-> goal, place |-> None, cycles |-> None, seeds |-> seeds]
Rec(name, kind, place, cycles) ==
  [form |-> "record", name |-> name, oracle |-> "", kind |-> kind, hazard |-> None,
   goal |-> None, place |-> place, cycles |-> cycles, seeds |-> {"testcase"}]
Other(name) == [V3(name, "", None, {}) EXCEPT !.form = "other"]

Camp(verification, unresolved, confirmed, source) ==
  [verification |-> verification, unresolved |-> unresolved, confirmed |-> confirmed,
   source |-> source]
Dir(found, campaignReport, failed) ==
  [files |-> found, lost |-> {}, campaign |-> campaignReport, corpus |-> FALSE, failure |-> failed,
   minimize |-> FALSE]

Grouped == <<V3("a", "array_access", "g1", {"minimized", "testcase"}), Other("x"),
             V3("b", "array_access", "g1", {"testcase"}), V3("c", "scan_budget", "g2", {})>>
Mixed == <<V3("a", "scan_budget", None, {"testcase"}), V3("b", "crash", "g1", {"testcase"}),
           V3("c", "array_access", "g1", {"testcase"}), V3("d", "array_access", "g3", {})>>
Engine == <<Rec("a", "crash", "s1", "1"), Rec("b", "timeout", None, "2"),
            Rec("c", "crash", None, "1"), Rec("d", "crash", "s1", "2")>>
Two == <<Rec("a", "crash", "s1", "1"), Rec("b", "timeout", None, "2")>>

MCRuns ==
  {Dir(found, report_, None) :
     found \in {Grouped, Mixed}, report_ \in {None, Camp("incomplete", FALSE, 1, 0),
                                             Camp("executed", FALSE, 1, 0)}}
  \cup {Dir(found, Camp("executed", TRUE, 0, 0), failed) :
          found \in {<<>>, Grouped}, failed \in {None, "build_failed", "campaign_failed"}}
  \cup {Dir(<<>>, None, failed) : failed \in {"engine_failed", "killed", "campaign_failed"}}
  \cup {[Dir(Two, None, "engine_failed") EXCEPT !.lost = {<<"a", "testcase">>}]}
  \cup {[Dir(found, None, None) EXCEPT !.corpus = TRUE] : found \in {<<>>, Engine}}
  \cup {[Dir(found, None, None) EXCEPT !.minimize = TRUE] : found \in {Two, Grouped}}

(* Two goals whose keys are alike in their first 160 characters.           *)
CutKey(key) == IF key[2] = "g3" THEN [key EXCEPT ![2] = "g1"] ELSE key
=============================================================================
