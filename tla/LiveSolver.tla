----------------------------- MODULE LiveSolver -----------------------------
(***************************************************************************)
(* The symbolic side of the campaign, fuzzer/pipeline/campaign.py:         *)
(* run_symbolic_startup, which runs before the engine starts, and          *)
(* _run_live_prefix_solver, the thread that follows the engine's queue;    *)
(* both claim queries from _claim_solver_budget and publish testcases with *)
(* _offer_solver_seed.                                                     *)
(*                                                                         *)
(* A query is its number.  What run_query answers, what the cold probe of  *)
(* its testcase shows and when a deadline passes are choices.  Every task  *)
(* is a defect task that is symbolic_suitable and has a runtime_id.        *)
(***************************************************************************)
EXTENDS SolverFiles

CONSTANTS
  QueryLimit,   \* QueryLimit[t]: budget.solver_queries of task t
  MaxQueries,   \* max_evaluations, the query budget of the campaign
  MaxExtra      \* further testcases of a seed_only answer (15 in the code)

ASSUME SolverAssumption ==
  /\ QueryLimit \in [Tasks -> Nat]
  /\ MaxQueries \in Nat /\ MaxExtra \in Nat

VARIABLES
  on,         \* where the solver is
  live,       \* has the live phase begun?
  used,       \* _solver_queries_used
  claimed,    \* _solver_task_queries
  unasked,    \* tasks the startup phase has not come to
  turn,       \* the task that may still get its second startup query
  queries,    \* task_queries of the thread
  exhausted,  \* budget_exhausted of the thread
  batch,      \* the records of a poll that are left to visit
  unread,     \* history: those of this poll whose frames could not be read
  seen,       \* the records taken up, as <<prefix, task>>
  decided,    \* those that were passed over or asked about
  asked,      \* the queries of the thread: <<prefix, task>>, in order
  known,      \* _native_reached_task_ids
  query,      \* the running query
  nextId,     \* _solver_seed_next_id
  reason      \* why the thread stopped

solverVars == <<on, live, used, claimed, unasked, turn, queries, exhausted, batch, unread,
                seen, decided, asked, known, query, nextId, reason>>
budgetVars == <<used, claimed>>
startVars == <<live, unasked, turn>>
recordVars == <<queries, exhausted, batch, unread, seen, decided, asked, known>>

(* A query: its number, its task, the testcases left to offer, and whether *)
(* the cold probe of the first one hit the goal.                           *)
Query == [id : Nat, task : Tasks \cup {NoTask}, left : 0..(MaxExtra + 1), hit : BOOLEAN]
NoRecord == [id |-> NoQuery, task |-> NoTask, left |-> 0, hit |-> FALSE]
QueryFor(t) == [id |-> used + 1, task |-> t, left |-> 0, hit |-> FALSE]

Keys == Nat \X Tasks
Key(r) == <<r.prefix, r.task>>

SolverTypeOK ==
  /\ on \in {"startup", "poll", "visit", "query", "offer", "publish", "ended"}
  /\ live \in BOOLEAN /\ exhausted \in BOOLEAN
  /\ used \in 0..MaxQueries
  /\ claimed \in [Tasks -> Nat] /\ queries \in [Tasks -> Nat]
  /\ unasked \subseteq Tasks /\ turn \in Tasks \cup {NoTask}
  /\ batch \subseteq QueueRecord
  /\ unread \subseteq Keys /\ seen \subseteq Keys /\ decided \subseteq Keys /\ asked \in Seq(Keys)
  /\ known \subseteq Tasks
  /\ query \in Query
  /\ on \in {"query", "offer", "publish"} => query.id # NoQuery /\ query.task # NoTask
  /\ on = "publish" => query.left > 0
  /\ nextId \in Nat \ {0}
  /\ reason \in {"none", "solver_budget_exhausted", "engine_finished", "deadline",
                "failed"}

SolverInit ==
  /\ on = "startup" /\ live = FALSE /\ exhausted = FALSE
  /\ used = 0 /\ claimed = [t \in Tasks |-> 0] /\ queries = [t \in Tasks |-> 0]
  /\ unasked = Tasks /\ turn = NoTask
  /\ batch = {} /\ unread = {} /\ seen = {} /\ decided = {} /\ asked = <<>> /\ known = {}
  /\ query = NoRecord /\ nextId = 1 /\ reason = "none"

-----------------------------------------------------------------------------

(* mutant: only the budget of the campaign is looked at                    *)
CampaignClaim(t) == used < MaxQueries

(* _claim_solver_budget, under its lock: may a query for t start?          *)
MayClaim(t) == used < MaxQueries /\ claimed[t] < QueryLimit[t]

Claim(t) ==
  /\ MayClaim(t)
  /\ used' = used + 1
  /\ claimed' = [claimed EXCEPT ![t] = @ + 1]

(* run_symbolic_startup: a query for each task.  The order of the tasks    *)
(* depends on the suggestions of the planner; a deadline ends it early.    *)
StartupQuery ==
  /\ on = "startup"
  /\ \E t \in unasked :
       /\ Claim(t)
       /\ unasked' = unasked \ {t} /\ turn' = t
       /\ query' = QueryFor(t)
  /\ on' = "query"
  /\ UNCHANGED <<live, recordVars, nextId, reason, fileVars>>

(* The second variant, typed_float_anchor, of the task just asked.         *)
StartupAnchor ==
  /\ on = "startup" /\ turn # NoTask
  /\ Claim(turn)
  /\ turn' = NoTask
  /\ query' = QueryFor(turn)
  /\ on' = "query"
  /\ UNCHANGED <<live, unasked, recordVars, nextId, reason, fileVars>>

(* The engine was started: _run_live_prefix_solver begins.                 *)
StartLive ==
  /\ on = "startup"
  /\ on' = "poll" /\ live' = TRUE
  /\ UNCHANGED <<budgetVars, unasked, turn, recordVars, query, nextId, reason, fileVars>>

-----------------------------------------------------------------------------
(* The records a poll finds: a line that does not parse is skipped.        *)
CompleteLines == {queue[i] : i \in {j \in DOMAIN queue : torn => j < Len(queue)}}

(* mutant: a line that does not parse is not read again                    *)
PollDropsTorn ==
  /\ on = "poll" /\ ~stop /\ ~exhausted
  /\ batch' = {r \in CompleteLines : Key(r) \notin seen}
  /\ seen' = IF torn THEN seen \cup {Key(queue[Len(queue)])} ELSE seen
  /\ unread' = {} /\ on' = "visit"
  /\ UNCHANGED <<budgetVars, startVars, queries, exhausted, decided, asked, known, query,
                 nextId, reason, fileVars>>

(* The file is read from its start.                                        *)
Poll ==
  /\ on = "poll" /\ ~stop /\ ~exhausted
  /\ batch' = {r \in CompleteLines : Key(r) \notin seen}
  /\ unread' = {} /\ on' = "visit"
  /\ UNCHANGED <<budgetVars, startVars, queries, exhausted, seen, decided, asked, known,
                 query, nextId, reason, fileVars>>

(* The batch was visited: back to the head of the loop.                    *)
EndBatch ==
  /\ on = "visit" /\ batch = {}
  /\ on' = "poll"
  /\ UNCHANGED <<budgetVars, startVars, recordVars, query, nextId, reason, fileVars>>

(* solver_prefix_priority: records with a hazard reach go first; the order *)
(* of the others depends on distances and stagnation.                      *)
First(r) == r \in batch /\ (r.reach \/ \A q \in batch : ~q.reach)

SeenWith(r) == seen \cup {Key(r)}

(* What _native_task_reached knows after it read the new events.           *)
KnownNow == known \cup goals

(* A record whose task is reached, or has no query of the thread left.     *)
Skip(r) == r.task \in KnownNow \/ queries[r.task] >= QueryLimit[r.task]

Takes(r) == on = "visit" /\ ~stop /\ First(r) /\ batch' = batch \ {r}

(* The file of the frames is not there or cannot be read or parsed: the    *)
(* record is not taken up, so the next poll comes back to it.              *)
VisitFails ==
  /\ \E r \in batch : Takes(r) /\ unread' = unread \cup {Key(r)}
  /\ UNCHANGED <<on, budgetVars, startVars, queries, exhausted, seen, decided, asked,
                 known, query, nextId, reason, fileVars>>

Visit(r) ==
  /\ Takes(r)
  /\ seen' = SeenWith(r) /\ UNCHANGED unread

(* A record without frames, or without progress on a task of the solver.   *)
VisitPasses ==
  /\ \E r \in batch : Visit(r) /\ decided' = decided \cup {Key(r)}
  /\ UNCHANGED <<on, budgetVars, startVars, queries, exhausted, asked, known, query,
                 nextId, reason, fileVars>>

Decides(r) == Visit(r) /\ decided' = decided \cup {Key(r)} /\ known' = KnownNow

VisitSkips ==
  /\ \E r \in batch : Decides(r) /\ Skip(r)
  /\ UNCHANGED <<on, budgetVars, startVars, queries, exhausted, asked, query, nextId,
                 reason, fileVars>>

VisitClaims ==
  /\ \E r \in batch :
       /\ Decides(r) /\ ~Skip(r) /\ Claim(r.task)
       /\ asked' = Append(asked, Key(r))
       /\ queries' = [queries EXCEPT ![r.task] = @ + 1]
       /\ query' = QueryFor(r.task)
  /\ on' = "query"
  /\ UNCHANGED <<startVars, exhausted, nextId, reason, fileVars>>

(* The claim fails: the rest of the batch is visited, and the loop ends.   *)
VisitExhausts ==
  /\ \E r \in batch : Decides(r) /\ ~Skip(r) /\ ~MayClaim(r.task)
  /\ exhausted' = TRUE
  /\ UNCHANGED <<on, budgetVars, startVars, queries, asked, query, nextId, reason, fileVars>>

WhyStopped ==
  CASE exhausted -> "solver_budget_exhausted"
    [] ~exhausted /\ stop -> "engine_finished"
    [] OTHER -> "deadline"

(* The thread ends, at the head of the loop or before a record.  The       *)
(* deadline can pass at any time; with stop, or with an exhausted budget   *)
(* at the head of the loop, nothing else is left.                          *)
SolverStops ==
  /\ on \in {"poll", "visit"}
  /\ reason' = WhyStopped
  /\ on' = "ended"
  /\ UNCHANGED <<budgetVars, startVars, recordVars, query, nextId, fileVars>>

(* It ends with a record taken up and not decided: the deadline passed, or *)
(* stop was set, since the loop looked.                                    *)
VisitStops ==
  /\ on = "visit"
  /\ \E r \in batch : First(r) /\ batch' = batch \ {r} /\ seen' = SeenWith(r)
  /\ reason' = WhyStopped
  /\ on' = "ended"
  /\ UNCHANGED <<budgetVars, startVars, queries, exhausted, unread, decided, asked, known,
                 query, nextId, fileVars>>

(* An exception: solver_worker records it and the thread is over.          *)
ThreadFails ==
  /\ live /\ on \in {"poll", "visit", "query", "offer"}
  /\ reason' = "failed"
  /\ on' = "ended"
  /\ UNCHANGED <<budgetVars, startVars, recordVars, query, nextId, fileVars>>

-----------------------------------------------------------------------------
Back == IF live THEN "visit" ELSE "startup"

(* The query fails or has no testcase.                                     *)
QueryFails ==
  /\ on = "query"
  /\ on' = Back /\ query' = NoRecord
  /\ UNCHANGED <<budgetVars, startVars, recordVars, nextId, reason, fileVars>>

(* It has one, which is probed, and further ones if it is seed_only.  A    *)
(* testcase whose probe shows a risk is not offered to the engine.         *)
QueryAnswers ==
  /\ on = "query"
  /\ \E hit \in BOOLEAN, extra \in 0..MaxExtra :
       query' = [query EXCEPT !.hit = hit, !.left = IF hit THEN extra ELSE extra + 1]
  /\ on' = "offer"
  /\ UNCHANGED <<budgetVars, startVars, recordVars, nextId, reason, fileVars>>

OneLess == query' = [query EXCEPT !.left = @ - 1]

(* _offer_solver_seed turns a testcase down: the engine has finished, the  *)
(* probe failed or shows a risk, or nothing about it is new.               *)
OfferRejected ==
  /\ on = "offer" /\ query.left > 0
  /\ OneLess
  /\ UNCHANGED <<on, budgetVars, startVars, recordVars, nextId, reason, fileVars>>

NewFile == [id |-> nextId, query |-> query.id, task |-> query.task]

(* mutant: the seed becomes visible before its metadata                    *)
SeedBeforeMetadata ==
  /\ on = "offer" /\ query.left > 0 /\ ~stop /\ nextId <= MaxSeeds
  /\ seeds' = seeds \cup {NewFile}
  /\ on' = "publish"
  /\ UNCHANGED <<budgetVars, startVars, recordVars, query, nextId, reason, queue, torn,
                 meta, goals, stop>>

(* Both temporary files are written and the metadata renamed.              *)
OfferMetadata ==
  /\ on = "offer" /\ query.left > 0 /\ ~stop /\ nextId <= MaxSeeds
  /\ meta' = {m \in meta : m.id # nextId} \cup {NewFile}
  /\ on' = "publish"
  /\ UNCHANGED <<budgetVars, startVars, recordVars, query, nextId, reason, queue, torn,
                 seeds, goals, stop>>

(* The seed is renamed: the engine can see it from now on.                 *)
OfferSeed ==
  /\ on = "publish"
  /\ seeds' = seeds \cup {NewFile}
  /\ nextId' = nextId + 1
  /\ OneLess /\ on' = "offer"
  /\ UNCHANGED <<budgetVars, startVars, recordVars, reason, queue, torn, meta, goals, stop>>

(* mutant: the number of a seed that could not be written is lost          *)
NumberIsLost == nextId + 1

(* The number the next seed gets after a failed write.                     *)
NumberAfterFailure == nextId

(* An OSError when the seed is renamed: what was written is removed.       *)
OfferFails ==
  /\ on = "publish"
  /\ meta' = {m \in meta : m.id # nextId}
  /\ nextId' = NumberAfterFailure
  /\ OneLess /\ on' = "offer"
  /\ UNCHANGED <<budgetVars, startVars, recordVars, reason, queue, torn, seeds, goals, stop>>

(* All is offered.  A goal hit in the probe becomes a candidate and a      *)
(* goal_reached event; a task that was SAT gets no second variant.         *)
EndQuery ==
  /\ on = "offer" /\ query.left = 0
  /\ goals' = IF query.hit THEN goals \cup {query.task} ELSE goals
  /\ turn' = IF query.hit THEN NoTask ELSE turn
  /\ query' = NoRecord
  /\ on' = Back
  /\ UNCHANGED <<budgetVars, live, unasked, recordVars, nextId, reason, queue, torn, seeds,
                 meta, stop>>

SolverStep ==
  \/ StartupQuery \/ StartupAnchor
  \/ Poll \/ EndBatch \/ VisitFails \/ VisitPasses \/ VisitSkips \/ VisitClaims
  \/ VisitExhausts \/ VisitStops \/ SolverStops \/ ThreadFails
  \/ QueryFails \/ QueryAnswers \/ OfferRejected \/ OfferMetadata \/ OfferSeed
  \/ OfferFails \/ EndQuery
=============================================================================
