------------------------------ MODULE Reduction ------------------------------
(***************************************************************************)
(* What a seed reduction promises, whatever strategy it follows: it holds  *)
(* one seed, starts with the one it was given, and only ever moves to a    *)
(* seed that was seen to fail in the same way and whose records all come   *)
(* from the one before.  What was seen stays seen.                         *)
(***************************************************************************)
VARIABLES seed,            \* the records of the seed held now
          text,            \* the seed as it is replayed
          reproduced       \* the texts seen to fail as the given seed does

Origins(s) == {<<r.index, r.name, r.ty>> : r \in s}

Begin == reproduced = {}

See == /\ reproduced \subseteq reproduced'
       /\ UNCHANGED <<seed, text>>

Reduce == /\ reproduced \subseteq reproduced'
          /\ text' \in reproduced'
          /\ seed' # {}
          /\ Origins(seed') \subseteq Origins(seed)

Reducing == Begin /\ [][See \/ Reduce]_<<seed, text, reproduced>>
=============================================================================
