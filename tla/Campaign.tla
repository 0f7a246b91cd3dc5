------------------------------ MODULE Campaign ------------------------------
(***************************************************************************)
(* The campaign orchestrator, fuzzer/pipeline/campaign.py: the main thread *)
(* of run_rust_engine, the daemon solver thread, the native engine process *)
(* (the loop of fuzzer/engine/src/inprocess.rs) and the files they share.  *)
(*                                                                         *)
(* A testcase is an opaque value.  What a cold run of it shows is the      *)
(* operator Shows; a probe returns one of those outcomes or a timeout,     *)
(* since every probe runs against a deadline.  A risk stands for one value *)
(* of the signature by which _register_candidate tells candidates apart;   *)
(* Key(r) is the part of it confirmation and minimization compare.         *)
(*                                                                         *)
(* Time is not counted: a deadline that may pass between two steps is a    *)
(* nondeterministic choice at the step that reads the clock.               *)
(***************************************************************************)
EXTENDS Integers, Sequences, FiniteSets

CONSTANTS
  Tests,                \* testcases
  Risks,                \* registration signatures
  NoTest,               \* no file
  NoRisk,               \* classify returned None for a probe that finished
  Timeout,              \* the observation of a probe that timed out
  Key(_),               \* Key(r): what _candidate_key keeps of signature r
  Shows(_),             \* Shows(t): outcomes of a cold run of t
  Shorter(_),           \* Shorter(t): t with frames deleted
  MaxOffers,            \* bound: testcases offered for registration
  Torn,                 \* a journal that was cut before a whole frame
  MaxRuns               \* bound: executions of the engine

ASSUME CampaignAssumption ==
  /\ NoTest \notin Tests /\ Torn \notin Tests /\ Torn # NoTest
  /\ NoRisk \notin Risks /\ Timeout \notin Risks /\ NoRisk # Timeout
  /\ MaxOffers \in Nat /\ MaxRuns \in Nat
  /\ \A t \in Tests : Shows(t) \subseteq Risks \cup {NoRisk}
  /\ \A t \in Tests : Shorter(t) \subseteq Tests

VARIABLES
  main,        \* where the main thread is
  solver,      \* the solver thread: "off", "live", "query" or "ended"
  stop,        \* online_stop
  late,        \* history: the join gave up on a solver thread that still ran
  engine,      \* the engine process: [at, test]; test is what it executes
  pending,     \* metrics/engine-pending.txt
  ran,         \* history: the last testcase this engine ran to its end
  files,       \* findings/candidates/candidate-NNNNNN.txt, in number order
  replays,     \* native_replay_results: how many engine files were replayed
  reg,         \* a call of _register_candidate in progress, per thread
  candidates,  \* self.candidates
  todo,        \* positions the running _run_confirmation works on
  left,        \* those its current pass over them has still to visit
  back,        \* where main goes on after _run_confirmation
  passed,      \* history: how many candidates the last pass found in the list
  previous,    \* previous_count of the replay loop
  results,     \* candidate_confirmation_results, as a set
  confirmed,   \* self.confirmed
  repro,       \* findings/confirmed/<finding_id>/
  report,      \* report.json: 0, or 1 + the number of candidates it counts
  offers,      \* testcases offered so far
  runs         \* engine executions so far

candVars == <<candidates, results, confirmed, repro>>
confirmVars == <<todo, left, back, passed>>
vars == <<main, solver, stop, late, engine, pending, ran, files, replays,
          reg, candidates, todo, left, back, passed, previous, results, confirmed,
          repro, report, offers, runs>>

Threads == {"main", "solver"}
Outcomes == Risks \cup {NoRisk, Timeout}
Candidate == [id : Nat, risk : Risks, test : Tests]
Idle == [step |-> "idle"]
Call == [step : {"scan", "number"}, risk : Risks, test : Tests]
          \cup [step : {"append"}, risk : Risks, test : Tests, id : Nat]

MainPoints ==
  {"plan", "startup", "launch", "wait", "join", "killed", "recover",
   "recovering", "summary", "replay", "replaying", "shorten", "judge", "repro",
   "final", "report", "returning", "failed", "done", "raised"}

TypeOK ==
  /\ main \in MainPoints
  /\ solver \in {"off", "live", "query", "ended"}
  /\ stop \in BOOLEAN /\ late \in BOOLEAN
  /\ engine \in [at : {"off", "idle", "exited"}, test : {NoTest}]
                \cup [at : {"journal", "preflight", "exec", "cut"}, test : Tests]
                \cup [at : {"dead"}, test : Tests \cup {NoTest}]
  /\ pending \in Tests \cup {NoTest, Torn}
  /\ ran \in Tests \cup {NoTest}
  /\ files \in Seq(Tests)
  /\ replays \in 0..Len(files)
  /\ main = "replaying" => replays < Len(files)
  /\ reg \in [Threads -> {Idle} \cup Call]
  /\ candidates \in Seq(Candidate)
  /\ todo \subseteq DOMAIN candidates /\ left \subseteq todo
  /\ back \in {"failed", "replay", "final", "report", "done"}
  /\ passed \in 0..Len(candidates)
  /\ previous \in Nat
  /\ results \subseteq [id : Nat, status : {"confirmed", "TIMEOUT", "REPLAY_MISMATCH"},
                         risk : Risks, test : Tests, matches : BOOLEAN]
  /\ confirmed \in Seq(Candidate)
  /\ repro \subseteq Candidate
  /\ report \in Nat
  /\ offers \in 0..MaxOffers
  /\ runs \in 0..MaxRuns

(* The run directory is new and every list of the Campaign object empty.   *)
Init ==
  /\ main = "plan" /\ solver = "off" /\ stop = FALSE /\ late = FALSE
  /\ engine = [at |-> "off", test |-> NoTest]
  /\ pending = NoTest /\ ran = NoTest
  /\ files = <<>> /\ replays = 0
  /\ reg = [th \in Threads |-> Idle]
  /\ candidates = <<>> /\ todo = {} /\ left = {} /\ back = "done" /\ passed = 0
  /\ previous = 0
  /\ results = {} /\ confirmed = <<>> /\ repro = {} /\ report = 0
  /\ offers = 0 /\ runs = 0

-----------------------------------------------------------------------------
(* run() returned or raised: the interpreter exits and takes the daemon    *)
(* thread with it.                                                         *)
Over == main \in {"done", "raised"}

(* _probe_with_deadline and classify: what a cold probe of t may give.     *)
Probe(t) == Shows(t) \cup {Timeout}

(* _same_candidate.  An outcome that is no risk is the None of classify.   *)
SameCandidate(r, o) == o \in Risks /\ Key(o) = Key(r)

-----------------------------------------------------------------------------
(***************************************************************************)
(* _register_candidate, called by either thread.  It takes no lock, so its *)
(* scan of self.candidates, the choice of the finding id with the writing  *)
(* of the files, and the append are steps of their own.                    *)
(***************************************************************************)
Offer(th, t, r) ==
  /\ reg[th] = Idle /\ offers < MaxOffers
  /\ offers' = offers + 1
  /\ reg' = [reg EXCEPT ![th] = [step |-> "scan", risk |-> r, test |-> t]]

RegScan(th) ==
  /\ ~Over /\ reg[th].step = "scan"
  /\ reg' = [reg EXCEPT ![th] =
               IF \E i \in DOMAIN candidates : candidates[i].risk = @.risk
                 THEN Idle
                 ELSE [step |-> "number", risk |-> @.risk, test |-> @.test]]
  /\ UNCHANGED <<main, solver, stop, late, engine, pending, ran, files, replays,
                 candVars, confirmVars, previous, report, offers, runs>>

(* finding_id = F(len(self.candidates) + 1)                                *)
FindingId == Len(candidates) + 1

RegNumber(th) ==
  /\ ~Over /\ reg[th].step = "number"
  /\ reg' = [reg EXCEPT ![th] = [step |-> "append", risk |-> @.risk,
                                 test |-> @.test, id |-> FindingId]]
  /\ UNCHANGED <<main, solver, stop, late, engine, pending, ran, files, replays,
                 candVars, confirmVars, previous, report, offers, runs>>

RegAppend(th) ==
  /\ ~Over /\ reg[th].step = "append"
  /\ candidates' = Append(candidates, [id |-> reg[th].id, risk |-> reg[th].risk,
                                       test |-> reg[th].test])
  /\ reg' = [reg EXCEPT ![th] = Idle]
  /\ UNCHANGED <<main, solver, stop, late, engine, pending, ran, files, replays,
                 results, confirmed, repro, confirmVars, previous, report, offers, runs>>

Register(th) == RegScan(th) \/ RegNumber(th) \/ RegAppend(th)

-----------------------------------------------------------------------------
(***************************************************************************)
(* Before the engine.  LLM plan batches and the symbolic startup queries   *)
(* register what their cold probe shows.                                   *)
(***************************************************************************)
StartupCandidate ==
  /\ main \in {"plan", "startup"}
  /\ \E t \in Tests : \E r \in Shows(t) \cap Risks : Offer("main", t, r)
  /\ UNCHANGED <<main, solver, stop, late, engine, pending, ran, files, replays,
                 candVars, confirmVars, previous, report, runs>>

(* run_plan_batches returns, or raises because a strict planner produced   *)
(* nothing useful.                                                         *)
PlanDone ==
  /\ main = "plan" /\ reg["main"] = Idle
  /\ main' \in {"startup", "raised"}
  /\ UNCHANGED <<solver, stop, late, engine, pending, ran, files, replays, reg,
                 candVars, confirmVars, previous, report, offers, runs>>

(* run_symbolic_startup returns; the budget may be spent by now, or the    *)
(* engine binary missing.                                                  *)
StartupDone ==
  /\ main = "startup" /\ reg["main"] = Idle
  /\ main' \in {"launch", "raised"}
  /\ UNCHANGED <<solver, stop, late, engine, pending, ran, files, replays, reg,
                 candVars, confirmVars, previous, report, offers, runs>>

(* The prior summary and journal are cleared, the engine is started and    *)
(* then the solver thread, unless an ablation switches it off.             *)
Launch ==
  /\ main = "launch"
  /\ pending' = NoTest
  /\ engine' = [at |-> "idle", test |-> NoTest]
  /\ solver' \in {"live", "off"}
  /\ main' = "wait"
  /\ UNCHANGED <<stop, late, ran, files, replays, reg, candVars,
                 confirmVars, previous, report, offers, runs>>

(* Clearing the files fails, or Popen does.                                *)
LaunchFails ==
  /\ main = "launch"
  /\ pending' \in {pending, NoTest}
  /\ main' = "raised"
  /\ UNCHANGED <<solver, stop, late, engine, ran, files, replays, reg, candVars,
                 confirmVars, previous, report, offers, runs>>

-----------------------------------------------------------------------------
(***************************************************************************)
(* The engine process.  The testcase is journalled, run once in a cold     *)
(* process and, if that run is clean, run in the engine.  The journal is   *)
(* truncated and then written, so the process can die between the two, and *)
(* a removal of it that fails is ignored.                                  *)
(***************************************************************************)
OpenJournal(t) ==
  /\ engine.at = "idle" /\ runs < MaxRuns
  /\ pending' = Torn
  /\ engine' = [at |-> "journal", test |-> t]
  /\ runs' = runs + 1
  /\ UNCHANGED <<main, solver, stop, late, ran, files, replays, reg,
                 candVars, confirmVars, previous, report, offers>>

WriteJournal ==
  /\ engine.at = "journal"
  /\ pending' = engine.test
  /\ engine' = [engine EXCEPT !.at = "preflight"]
  /\ UNCHANGED <<main, solver, stop, late, ran, files, replays, reg,
                 candVars, confirmVars, previous, report, offers, runs>>

(* What a journal that was being written may hold when the process stops.  *)
Cuts(t) == {t, Torn} \cup Shorter(t)

(* let _ = remove_file: the testcase has run to its end, its journal may   *)
(* stay.                                                                   *)
RemoveJournal ==
  /\ pending' \in {pending, NoTest}
  /\ ran' = engine.test
  /\ engine' = [at |-> "idle", test |-> NoTest]

(* v3_cold_preflight: a risk in the cold run ends the testcase; on_result  *)
(* writes it as a candidate.  A timeout writes none.                       *)
PreflightStops ==
  /\ engine.at = "preflight"
  /\ \E o \in Probe(engine.test) \ {NoRisk} :
       files' = IF o = Timeout THEN files ELSE Append(files, engine.test)
  /\ RemoveJournal
  /\ UNCHANGED <<main, solver, stop, late, replays, reg, candVars,
                 confirmVars, previous, report, offers, runs>>

(* mutant: the journal is removed when the preflight was clean             *)
PreflightCleanRemoves ==
  /\ engine.at = "preflight" /\ NoRisk \in Shows(engine.test)
  /\ engine' = [engine EXCEPT !.at = "exec"]
  /\ pending' = NoTest
  /\ UNCHANGED <<main, solver, stop, late, ran, files, replays,
                 reg, candVars, confirmVars, previous, report, offers, runs>>

PreflightClean ==
  /\ engine.at = "preflight" /\ NoRisk \in Shows(engine.test)
  /\ engine' = [engine EXCEPT !.at = "exec"]
  /\ UNCHANGED <<main, solver, stop, late, pending, ran, files, replays,
                 reg, candVars, confirmVars, previous, report, offers, runs>>

(* fuzzer.execute_input returns; on_result may write a candidate (a crash  *)
(* the harness caught, or a first hit of an exact goal).                   *)
Executed ==
  /\ engine.at = "exec"
  /\ files' \in {files, Append(files, engine.test)}
  /\ RemoveJournal
  /\ UNCHANGED <<main, solver, stop, late, replays, reg, candVars, confirmVars,
                 previous, report, offers, runs>>

(* The process stops where it is: a journal it was writing is cut.         *)
StopEngine ==
  IF engine.at = "journal"
    THEN engine' = [engine EXCEPT !.at = "cut"] /\ pending' \in Cuts(engine.test)
    ELSE engine' = [engine EXCEPT !.at = "dead"] /\ UNCHANGED pending

Running == engine.at \in {"idle", "journal", "preflight", "exec"}
Gone == engine.at \in {"dead", "cut"}

(* The process dies, or returns an error: the journal cannot be written,   *)
(* the preflight or on_result fails, or the testcase kills it.             *)
EngineDies ==
  /\ Running /\ StopEngine
  /\ UNCHANGED <<main, solver, stop, late, ran, files, replays, reg,
                 candVars, confirmVars, previous, report, offers, runs>>

(* The loop ends, the summary is written and the process exits with 0.     *)
EngineExits ==
  /\ engine.at = "idle"
  /\ engine' = [engine EXCEPT !.at = "exited"]
  /\ UNCHANGED <<main, solver, stop, late, pending, ran, files, replays, reg,
                 candVars, confirmVars, previous, report, offers, runs>>

Engine ==
  \/ \E t \in Tests : OpenJournal(t)
  \/ WriteJournal \/ PreflightStops \/ PreflightClean \/ Executed \/ EngineDies \/ EngineExits

-----------------------------------------------------------------------------
(***************************************************************************)
(* The solver thread: _run_live_prefix_solver.  It looks at the stop event *)
(* between two records only, so a query that is running when the event is  *)
(* set still registers what its probe shows.                               *)
(***************************************************************************)
SolverQuery ==
  /\ ~Over /\ solver = "live" /\ reg["solver"] = Idle /\ ~stop
  /\ solver' = "query"
  /\ UNCHANGED <<main, stop, late, engine, pending, ran, files, replays, reg,
                 candVars, confirmVars, previous, report, offers, runs>>

(* The testcase of the query shows its goal in a cold probe.               *)
SolverCandidate ==
  /\ ~Over /\ solver = "query" /\ solver' = "live"
  /\ \E t \in Tests : \E r \in Shows(t) \cap Risks : Offer("solver", t, r)
  /\ UNCHANGED <<main, stop, late, engine, pending, ran, files, replays,
                 candVars, confirmVars, previous, report, runs>>

SolverNoCandidate ==
  /\ ~Over /\ solver = "query"
  /\ solver' = "live"
  /\ UNCHANGED <<main, stop, late, engine, pending, ran, files, replays, reg,
                 candVars, confirmVars, previous, report, offers, runs>>

(* The stop event, the deadline, the query budget or an error.             *)
SolverEnds ==
  /\ ~Over /\ solver = "live" /\ reg["solver"] = Idle
  /\ solver' = "ended"
  /\ UNCHANGED <<main, stop, late, engine, pending, ran, files, replays, reg,
                 candVars, confirmVars, previous, report, offers, runs>>

-----------------------------------------------------------------------------
(***************************************************************************)
(* The end of the engine phase.                                            *)
(***************************************************************************)
WriteReport == report' = 1 + Len(candidates)

(* communicate times out: the process group is killed and the report is    *)
(* written before the finally clause stops the solver thread.              *)
KillEngine ==
  /\ main = "wait" /\ Running /\ StopEngine
  /\ WriteReport
  /\ main' = "killed"
  /\ UNCHANGED <<solver, stop, late, ran, files, replays, reg, candVars, confirmVars,
                 previous, offers, runs>>

Collect ==
  /\ main = "wait" /\ (engine.at = "exited" \/ Gone)
  /\ main' = "join" /\ stop' = TRUE
  /\ UNCHANGED <<solver, late, engine, pending, ran, files, replays, reg,
                 candVars, confirmVars, previous, report, offers, runs>>

(* mutant: join without a timeout                                          *)
ThreadEnded == solver \in {"off", "ended"}

(* solver_thread.join(timeout=2.0) returns whether the thread has ended or *)
(* not: a query may take five seconds and its probes more.                 *)
JoinReturns == TRUE

Joined == JoinReturns /\ late' = (solver \notin {"off", "ended"})

JoinAfterKill ==
  /\ main = "killed"
  /\ IF stop THEN Joined /\ main' = "raised" /\ UNCHANGED stop
             ELSE stop' = TRUE /\ UNCHANGED <<main, late>>
  /\ UNCHANGED <<solver, engine, pending, ran, files, replays, reg,
                 candVars, confirmVars, previous, report, offers, runs>>

Join ==
  /\ main = "join" /\ Joined
  /\ main' = IF Gone THEN "recover" ELSE "summary"
  /\ UNCHANGED <<solver, stop, engine, pending, ran, files, replays, reg,
                 candVars, confirmVars, previous, report, offers, runs>>

(* The engine failed: its journal, if there is one and it can be read as a *)
(* testcase, is run cold.                                                  *)
Recover ==
  /\ main = "recover"
  /\ IF pending \in {NoTest, Torn}
       THEN main' = "failed" /\ UNCHANGED <<reg, offers>>
       ELSE \E o \in Probe(pending) :
              IF o \in Risks
                THEN /\ main' = "recovering"
                     /\ reg' = [reg EXCEPT !["main"] =
                                  [step |-> "scan", risk |-> o, test |-> pending]]
                     /\ UNCHANGED offers
                ELSE main' = "failed" /\ UNCHANGED <<reg, offers>>
  /\ UNCHANGED <<solver, stop, late, engine, pending, ran, files, replays, candVars,
                 confirmVars, previous, report, runs>>

(* _run_confirmation starts with the candidates whose id is not among the  *)
(* confirmed ones.                                                         *)
ConfirmedIds == {confirmed[i].id : i \in DOMAIN confirmed}

(* mutant: confirmed candidates are not left out                           *)
AllCandidates == DOMAIN candidates

Unconfirmed == {i \in DOMAIN candidates : candidates[i].id \notin ConfirmedIds}

StartConfirmation(then) ==
  /\ passed' = Len(candidates)
  /\ IF Unconfirmed = {}
       THEN main' = then /\ UNCHANGED <<todo, left, back>>
       ELSE /\ main' = "shorten" /\ back' = then
            /\ todo' = Unconfirmed /\ left' = Unconfirmed

Recovered ==
  /\ main = "recovering" /\ reg["main"] = Idle
  /\ StartConfirmation("failed")
  /\ UNCHANGED <<solver, stop, late, engine, pending, ran, files, replays, reg,
                 candVars, previous, report, offers, runs>>

(* The report of a failed engine is written and the error raised.          *)
Fail ==
  /\ main = "failed"
  /\ WriteReport
  /\ main' = "raised"
  /\ UNCHANGED <<solver, stop, late, engine, pending, ran, files, replays, reg,
                 candVars, confirmVars, previous, offers, runs>>

(* The summary is read and checked; without a valid one nothing else is    *)
(* done.                                                                   *)
ReadSummary ==
  /\ main = "summary"
  /\ main' \in {"replay", "raised"}
  /\ UNCHANGED <<solver, stop, late, engine, pending, ran, files, replays, reg, candVars,
                 confirmVars, previous, report, offers, runs>>

-----------------------------------------------------------------------------
(***************************************************************************)
(* After a clean exit: every candidate file of the engine is run cold, in  *)
(* the order of the numbers; what shows a risk is registered, and a new    *)
(* candidate is confirmed at once.                                         *)
(***************************************************************************)
ReplayFile ==
  /\ main = "replay" /\ replays < Len(files)
  /\ LET t == files[replays + 1] IN
       \E o \in Probe(t) :
         IF o \in Risks
           THEN /\ main' = "replaying" /\ previous' = Len(candidates)
                /\ reg' = [reg EXCEPT !["main"] =
                             [step |-> "scan", risk |-> o, test |-> t]]
                /\ UNCHANGED replays
           ELSE /\ replays' = replays + 1 /\ UNCHANGED <<main, previous, reg>>
  /\ UNCHANGED <<solver, stop, late, engine, pending, ran, files, candVars,
                 confirmVars, report, offers, runs>>

Replayed ==
  /\ main = "replaying" /\ reg["main"] = Idle
  /\ replays' = replays + 1
  /\ IF Len(candidates) > previous
       THEN StartConfirmation("replay")
       ELSE main' = "replay" /\ UNCHANGED confirmVars
  /\ UNCHANGED <<solver, stop, late, engine, pending, ran, files, reg, candVars,
                 previous, report, offers, runs>>

(* mutant: only a file that grew the list starts a confirmation            *)
ReportAfterReplays ==
  /\ main = "replay" /\ replays = Len(files)
  /\ main' = "report"
  /\ UNCHANGED <<solver, stop, late, engine, pending, ran, files, replays, reg,
                 candVars, confirmVars, previous, report, offers, runs>>

(* After the files, confirmation runs twice more.                          *)
AfterReplays ==
  /\ main = "replay" /\ replays = Len(files)
  /\ StartConfirmation("final")
  /\ UNCHANGED <<solver, stop, late, engine, pending, ran, files, replays, reg,
                 candVars, previous, report, offers, runs>>

Final ==
  /\ main = "final"
  /\ StartConfirmation("report")
  /\ UNCHANGED <<solver, stop, late, engine, pending, ran, files, replays, reg,
                 candVars, previous, report, offers, runs>>

Report ==
  /\ main = "report"
  /\ WriteReport
  /\ main' = "returning"
  /\ UNCHANGED <<solver, stop, late, engine, pending, ran, files, replays,
                 reg, candVars, confirmVars, previous, offers, runs>>

(* A solver thread that still runs may go on until the process is gone.    *)
Return ==
  /\ main = "returning"
  /\ main' = "done"
  /\ UNCHANGED <<solver, stop, late, engine, pending, ran, files, replays,
                 reg, candVars, confirmVars, previous, report, offers, runs>>

-----------------------------------------------------------------------------
(***************************************************************************)
(* _run_confirmation: every candidate is first shortened, then judged.     *)
(***************************************************************************)
(* The list is visited in order.                                           *)
Visited(i) == i \in left /\ \A j \in left : i <= j

(* minimize keeps a shorter testcase only if its last probe matches.       *)
ShortForms(c) ==
  {c.test} \cup
  {t \in Shorter(c.test) : \E o \in Shows(t) : SameCandidate(c.risk, o)}

Shorten ==
  /\ main = "shorten"
  /\ \E i \in left :
       /\ Visited(i)
       /\ \E t \in ShortForms(candidates[i]) :
            candidates' = [candidates EXCEPT ![i].test = t]
       /\ IF left = {i} THEN left' = todo /\ main' = "judge"
                        ELSE left' = left \ {i} /\ UNCHANGED main
  /\ UNCHANGED <<solver, stop, late, engine, pending, ran, files, replays, reg,
                 results, confirmed, repro, todo, back, passed, previous, report,
                 offers, runs>>

(* The outcomes that a round of three probes of t sees.                    *)
Rounds(t) == {seen \in SUBSET Probe(t) : Cardinality(seen) \in 1..3}

(* mutant: one match is enough                                             *)
SomeProbeMatches(r, seen) == \E o \in seen : SameCandidate(r, o)

(* confirm: all three probes match.                                        *)
Confirms(r, seen) == \A o \in seen : SameCandidate(r, o)

Status(r, first, last) ==
  IF Confirms(r, last) THEN "confirmed"
  ELSE IF Timeout \in first \cup last THEN "TIMEOUT"
  ELSE "REPLAY_MISMATCH"

(* The evidence of one candidate: one round of three probes and, if it     *)
(* does not confirm and time is left, a second one.  Of the attempts of    *)
(* the last round it is kept whether all of them are a MATCH.              *)
Evidence(c) ==
  UNION {{[id |-> c.id, status |-> Status(c.risk, first, last), risk |-> c.risk,
           test |-> c.test, matches |-> \A o \in last : SameCandidate(c.risk, o)] :
            last \in IF Confirms(c.risk, first) THEN {first} ELSE Rounds(c.test)} :
         first \in Rounds(c.test)}

(* The loop over the candidates goes on after the i-th one, or ends.       *)
NextCandidate(i) ==
  /\ left' = left \ {i}
  /\ main' = IF left = {i} THEN back ELSE "judge"

(* An exception leaves the confirmation: the recovery of a failed engine   *)
(* catches it and still writes its report.                                 *)
Abandon == main' = IF back = "failed" THEN "failed" ELSE "raised"

(* The evidence is kept, in the list and in a file that may fail; then the *)
(* finding, if there is one, is appended.                                  *)
JudgeCandidate(i) ==
  \E e \in Evidence(candidates[i]) :
    /\ results' = results \cup {e}
    /\ \/ e.status # "confirmed" /\ NextCandidate(i) /\ UNCHANGED confirmed
       \/ /\ e.status = "confirmed" /\ confirmed' = Append(confirmed, candidates[i])
          /\ main' = "repro" /\ UNCHANGED left
       \/ Abandon /\ UNCHANGED <<confirmed, left>>

Judge ==
  /\ main = "judge"
  /\ \E i \in left : Visited(i) /\ JudgeCandidate(i)
  /\ UNCHANGED <<solver, stop, late, engine, pending, ran, files, replays,
                 reg, candidates, repro, todo, back, passed, previous, report,
                 offers, runs>>

(* _write_repro fills the directory named after the finding id, or fails   *)
(* with what was there overwritten or not.                                 *)
Others(c) == {p \in repro : p.id # c.id}

WriteRepro(i) ==
  \/ repro' = Others(candidates[i]) \cup {candidates[i]} /\ NextCandidate(i)
  \/ repro' \in {repro, Others(candidates[i])} /\ Abandon /\ UNCHANGED left

SaveFinding ==
  /\ main = "repro"
  /\ \E i \in left : Visited(i) /\ WriteRepro(i)
  /\ UNCHANGED <<solver, stop, late, engine, pending, ran, files, replays,
                 reg, candidates, results, confirmed, todo, back, passed, previous,
                 report, offers, runs>>

-----------------------------------------------------------------------------
Main ==
  \/ StartupCandidate \/ PlanDone \/ StartupDone \/ Launch \/ LaunchFails
  \/ KillEngine \/ Collect \/ JoinAfterKill \/ Join \/ Recover \/ Recovered
  \/ Fail \/ ReadSummary \/ ReplayFile \/ Replayed \/ AfterReplays \/ Final
  \/ Report \/ Return \/ Shorten \/ Judge \/ SaveFinding
  \/ Register("main")

Solver == SolverQuery \/ SolverCandidate \/ SolverNoCandidate \/ SolverEnds \/ Register("solver")

Terminated == Over /\ UNCHANGED vars

Next == Main \/ Engine \/ Solver \/ Terminated

Spec == Init /\ [][Next]_vars

(* Every wait of the main thread has a timeout (communicate, join, probe). *)
(* Nothing is assumed of the engine or of the solver thread.               *)
FairSpec == Spec /\ WF_vars(Main)

-----------------------------------------------------------------------------
(***************************************************************************)
(* Properties.                                                             *)
(***************************************************************************)

(* Two candidates share a finding id.  The id is the length of a list that *)
(* two threads append to without a lock.                                   *)
SameId(c, d) == c.id = d.id

(* As long as the solver thread ended before its join returned, no two     *)
(* candidates share a finding id.                                          *)
UniqueFindingIds ==
  late \/ \A i, j \in DOMAIN candidates : SameId(candidates[i], candidates[j]) => i = j

(* The replay directory of every confirmed finding holds that finding and  *)
(* the testcase its probes confirmed, whatever fails in between: only the  *)
(* one that is being written, or whose writing ended the campaign, may be  *)
(* missing, and only a solver thread that outlived its join can make a     *)
(* later finding overwrite it.                                             *)
ReproMatchesFinding ==
  \A i \in DOMAIN confirmed :
    \/ confirmed[i] \in repro
    \/ i = Len(confirmed) /\ main \in {"repro", "failed", "raised"}
    \/ late /\ \E j \in DOMAIN confirmed : j > i /\ SameId(confirmed[i], confirmed[j])

(* Nothing is recorded as a finding unless a round of cold probes of the   *)
(* very testcase that is kept matched without exception, through           *)
(* shortening and retries.                                                 *)
ConfirmedWasRepeated ==
  \A i \in DOMAIN confirmed :
    \E e \in results : /\ e.id = confirmed[i].id /\ e.test = confirmed[i].test
                       /\ e.risk = confirmed[i].risk /\ e.matches

(* A campaign that ends normally has run every candidate file of the       *)
(* engine cold, holds confirmation evidence for every candidate the last   *)
(* pass found, those of the planner included, and counts them in its       *)
(* report.  Only a solver thread that outlived its join can add candidates *)
(* after that pass, or hide one behind another with the same id.           *)
NothingLost ==
  main = "done" =>
    /\ replays = Len(files)
    /\ late \/ passed = Len(candidates)
    /\ report \in 1 + passed .. 1 + Len(candidates)
    /\ \A i \in 1..passed :
         \E e \in results :
           /\ e.id = candidates[i].id
           /\ \/ e.risk = candidates[i].risk
              \/ late /\ \E j \in DOMAIN candidates \ {i} :
                           SameId(candidates[i], candidates[j])

(* When the engine is gone, its journal names the testcase that it was     *)
(* running.  Between two testcases it is gone too, or names the one that   *)
(* ran last; where it was being written it is a part of that testcase.     *)
JournalNamesCrash ==
  /\ engine.at = "dead" =>
       IF engine.test = NoTest THEN pending \in {NoTest, ran} ELSE pending = engine.test
  /\ engine.at = "cut" => pending \in Cuts(engine.test)

(* run() returns or raises, whatever the engine and the solver thread do.  *)
Terminates == <>Over

=============================================================================
