----------------------------- MODULE LoopBudget -----------------------------
(***************************************************************************)
(* The loop accounting pass, compiler/instrumentation/loop_budget.py: it   *)
(* walks the blocks of a function depth first, calls a block a loop header *)
(* when an edge leads to it while it is open, and puts a tick there. The   *)
(* harness ends a scan whose ticks exceed the budget, so a loop without a  *)
(* tick is a scan that never ends.                                         *)
(***************************************************************************)
EXTENDS Naturals, Sequences, SequencesExt, FiniteSets

(* A function has blocks, the order of its labelled blocks, phis, those    *)
(* that begin with phi nodes, and line[b], the labels on the line that     *)
(* starts the terminator of b.  A switch lists its cases on further lines, *)
(* which the pass does not read.                                           *)
VARIABLES
  body,      \* the function that is being instrumented
  state,     \* of each block: 0 new, 1 open, 2 left
  open,      \* the recursion: <<block, position in its successors>>
  headers,
  ticked,    \* blocks that received a tick
  walk       \* "visit", "done"

lvars == <<body, state, open, headers, ticked, walk>>

Blocks == Range(body.blocks)

(* Only a line that starts with a terminator is searched for labels.       *)
Successors(b) == body.line[b]

InitLoops(b) ==
  /\ body = b
  /\ state = [x \in Range(b.blocks) |-> 0]
  /\ open = <<>> /\ headers = {} /\ ticked = {} /\ walk = "visit"

Visit(b) ==
  /\ state' = [state EXCEPT ![b] = 1]
  /\ open' = Append(open, <<b, 1>>)

(* The next block that no earlier walk has reached.                        *)
VisitRoot ==
  /\ walk = "visit" /\ open = <<>>
  /\ \E i \in DOMAIN body.blocks :
       /\ state[body.blocks[i]] = 0
       /\ \A j \in 1 .. (i - 1) : state[body.blocks[j]] # 0
       /\ Visit(body.blocks[i])
  /\ UNCHANGED <<body, headers, ticked, walk>>

(* Mutant: an edge to a block that was left closes a loop, not one to an   *)
(* open block.                                                             *)
ClosesLeft(b) == state[b] = 2

Closes(b) == state[b] = 1

(* A label that names no block of the function is passed over.             *)
VisitSuccessor ==
  /\ walk = "visit" /\ open # <<>>
  /\ LET b == Last(open)[1] i == Last(open)[2] IN
     /\ i <= Len(Successors(b))
     /\ LET s == Successors(b)[i]
            rest == [open EXCEPT ![Len(open)] = <<b, i + 1>>] IN
        /\ headers' = headers \cup {x \in {s} \cap Blocks : Closes(x)}
        /\ IF s \in Blocks /\ state[s] = 0
           THEN /\ state' = [state EXCEPT ![s] = 1]
                /\ open' = Append(rest, <<s, 1>>)
           ELSE open' = rest /\ UNCHANGED state
  /\ UNCHANGED <<body, ticked, walk>>

LeaveBlock ==
  /\ walk = "visit" /\ open # <<>>
  /\ Last(open)[2] > Len(Successors(Last(open)[1]))
  /\ state' = [state EXCEPT ![Last(open)[1]] = 2]
  /\ open' = Front(open)
  /\ UNCHANGED <<body, headers, ticked, walk>>

(* The text of the function is written again with one call per header, put *)
(* in front of its first instruction that does not start with the word     *)
(* phi. A phi node starts with its name, so a tick is put in front of it.  *)
InsertTicks ==
  /\ walk = "visit" /\ open = <<>> /\ \A b \in Blocks : state[b] = 2
  /\ ticked' = headers
  /\ walk' = "done"
  /\ UNCHANGED <<body, state, open, headers>>

(* Phi nodes come first in a block: clang refuses a call in front of them. *)
Malformed == ticked \cap body.phis # {}

NextLoops == VisitRoot \/ VisitSuccessor \/ LeaveBlock \/ InsertTicks

Silent(jumps) ==
  \E loop \in (SUBSET (Blocks \ ticked)) \ {{}} :
    \A b \in loop : \E c \in loop : <<b, c>> \in jumps

BranchJumps == {e \in Blocks \X Blocks : e[2] \in Range(body.line[e[1]])}

(* Every loop made of branches passes a tick, whatever the order of its    *)
(* blocks and wherever it is entered (loop_budget.py:77-102, :141-152).    *)
BranchLoopsTick == walk = "done" => ~Silent(BranchJumps)

=============================================================================
