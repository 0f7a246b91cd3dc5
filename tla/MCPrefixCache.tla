---------------------------- MODULE MCPrefixCache ----------------------------
(***************************************************************************)
(* Instances of PrefixCache for TLC.  The target is a small machine with   *)
(* visible state 0..2 and a hidden bit.  Frame "a" hits the goal g1 and    *)
(* the non-goal id n1 when it moves the visible state to 2; frame "b"      *)
(* flips the hidden bit.                                                   *)
(*   Complete target: the checkpoint holds the hidden bit too.             *)
(*   Leaky target: it does not, and initialising leaves the bit alone.     *)
(***************************************************************************)
EXTENDS PrefixCache

CONSTANTS Leaky, r1

MCStates == [vis : 0..2, hid : BOOLEAN]
MCBlobs == 0..5
MCCheckpoint(s) == IF Leaky \/ ~s.hid THEN s.vis ELSE s.vis + 3
MCBoot(s, r) == [vis |-> IF r = r1 THEN 0 ELSE 1, hid |-> Leaky /\ s.hid]
MCStep(s, f) == IF f = "a"
                THEN [vis |-> (s.vis + (IF s.hid THEN 2 ELSE 1)) % 3, hid |-> s.hid]
                ELSE [vis |-> s.vis, hid |-> ~s.hid]
MCHits(s, f) == IF f = "a" /\ MCStep(s, f).vis = 2 THEN {"g1", "n1"}
                ELSE IF f = "b" /\ s.hid THEN {"g2"} ELSE {}
MCRestore(s, b) == IF Leaky THEN [vis |-> b % 3, hid |-> s.hid]
                   ELSE [vis |-> b % 3, hid |-> b >= 3]
MCRun(r, p) ==
  LET run[n \in 0..Len(p)] == IF n = 0 THEN MCBoot([vis |-> 0, hid |-> FALSE], r)
                              ELSE MCStep(run[n - 1], p[n])
  IN run[Len(p)]

(* A target that passes its checkpoint off as complete really is. *)
ASSUME LeakyOrComplete == ~Leaky => CheckpointComplete
=============================================================================
