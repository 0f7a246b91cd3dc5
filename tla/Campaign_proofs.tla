--------------------------- MODULE Campaign_proofs ---------------------------
(***************************************************************************)
(* Proofs about Campaign, for any number of testcases, risks, offers and   *)
(* engine runs, whether the solver thread outlives its join or not.        *)
(***************************************************************************)
EXTENDS Campaign, SequenceTheorems, TLAPS

-----------------------------------------------------------------------------
(* Sequences.                                                              *)

(* Append adds one element at the end and keeps the others. *)
LEMMA AppendFacts ==
  ASSUME NEW S, NEW s \in Seq(S), NEW e \in S
  PROVE  /\ Append(s, e) \in Seq(S)
         /\ Len(Append(s, e)) = Len(s) + 1
         /\ DOMAIN Append(s, e) = 1..(Len(s) + 1)
         /\ Append(s, e)[Len(s) + 1] = e
         /\ \A i \in 1..Len(s) : Append(s, e)[i] = s[i]
OBVIOUS

(* Replacing one element keeps the length. *)
LEMMA ExceptFacts ==
  ASSUME NEW S, NEW s \in Seq(S), NEW i \in DOMAIN s, NEW e \in S
  PROVE  /\ [s EXCEPT ![i] = e] \in Seq(S)
         /\ Len([s EXCEPT ![i] = e]) = Len(s)
         /\ DOMAIN [s EXCEPT ![i] = e] = DOMAIN s
BY ExceptSeq

(* A call of _register_candidate keeps its risk and testcase. *)
LEMMA CallFacts ==
  ASSUME NEW c \in {Idle} \cup Call
  PROVE  /\ c.step \in {"idle", "scan", "number", "append"}
         /\ c.step = "idle" <=> c = Idle
         /\ c.step # "idle" => c.risk \in Risks /\ c.test \in Tests
         /\ c.step = "append" => c.id \in Nat
BY DEF Idle, Call

-----------------------------------------------------------------------------
(* Type correctness.                                                       *)

(* A started call is well typed. *)
LEMMA OfferType ==
  ASSUME TypeOK, NEW th \in Threads, NEW t \in Tests, NEW r \in Risks, Offer(th, t, r)
  PROVE  reg' \in [Threads -> {Idle} \cup Call] /\ offers' \in 0..MaxOffers
BY CampaignAssumption DEF TypeOK, Offer, Call

(* The main thread's own offers are well typed. *)
LEMMA ScanCallType ==
  ASSUME TypeOK, NEW t \in Tests, NEW r \in Risks
  PROVE  [reg EXCEPT !["main"] = [step |-> "scan", risk |-> r, test |-> t]]
           \in [Threads -> {Idle} \cup Call]
BY DEF TypeOK, Call, Threads

(* Each step of a registration keeps the types. *)
LEMMA RegisterType ==
  ASSUME TypeOK, NEW th \in Threads, Register(th)
  PROVE  TypeOK'
<1> USE DEF TypeOK
<1>1. reg[th] \in {Idle} \cup Call OBVIOUS
<1>2. CASE RegScan(th)
  <2>1. reg[th].step = "scan" BY <1>2 DEF RegScan
  <2>2. [step |-> "number", risk |-> reg[th].risk, test |-> reg[th].test] \in Call
    BY <1>1, <2>1, CallFacts DEF Call
  <2>3. reg' \in [Threads -> {Idle} \cup Call] BY <1>2, <2>2 DEF RegScan
  <2> QED BY <1>2, <2>3 DEF RegScan, candVars, confirmVars
<1>3. CASE RegNumber(th)
  <2>1. reg[th].step = "number" BY <1>3 DEF RegNumber
  <2>2. reg[th].risk \in Risks /\ reg[th].test \in Tests BY <1>1, <2>1, CallFacts
  <2>3. FindingId \in Nat BY DEF FindingId
  <2>4. [step |-> "append", risk |-> reg[th].risk, test |-> reg[th].test, id |-> FindingId] \in Call
    BY <2>2, <2>3 DEF Call
  <2>5. reg' \in [Threads -> {Idle} \cup Call] BY <1>3, <2>4 DEF RegNumber
  <2> QED BY <1>3, <2>5 DEF RegNumber, candVars, confirmVars
<1>4. CASE RegAppend(th)
  <2>1. reg[th].step = "append" BY <1>4 DEF RegAppend
  <2>2. reg[th].risk \in Risks /\ reg[th].test \in Tests /\ reg[th].id \in Nat
    BY <1>1, <2>1, CallFacts
  <2> DEFINE c == [id |-> reg[th].id, risk |-> reg[th].risk, test |-> reg[th].test]
  <2>3. c \in Candidate BY <2>2 DEF Candidate
  <2>4. candidates' = Append(candidates, c) BY <1>4 DEF RegAppend
  <2>5. /\ candidates' \in Seq(Candidate) /\ DOMAIN candidates \subseteq DOMAIN candidates'
        /\ Len(candidates') = Len(candidates) + 1 /\ Len(candidates) \in Nat
    <3> HIDE DEF c
    <3> QED BY <2>3, <2>4, AppendFacts
  <2>6. reg' \in [Threads -> {Idle} \cup Call] BY <1>4 DEF RegAppend
  <2> HIDE DEF c
  <2>7. todo' = todo /\ left' = left /\ passed' = passed BY <1>4 DEF RegAppend, confirmVars
  <2>8. todo' \subseteq DOMAIN candidates' /\ left' \subseteq todo' BY <2>5, <2>7
  <2>9. passed' \in 0..Len(candidates') BY <2>5, <2>7
  <2> QED BY <1>4, <2>5, <2>6, <2>8, <2>9 DEF RegAppend, confirmVars
<1> QED BY <1>2, <1>3, <1>4 DEF Register

(* The start of a confirmation keeps the types. *)
LEMMA StartConfirmationType ==
  ASSUME TypeOK, NEW then \in {"failed", "replay", "final", "report"},
         StartConfirmation(then)
  PROVE  /\ main' \in MainPoints \ {"replaying"}
         /\ todo' \subseteq DOMAIN candidates /\ left' \subseteq todo'
         /\ back' \in {"failed", "replay", "final", "report", "done"}
         /\ passed' \in 0..Len(candidates)
<1>1. Unconfirmed \subseteq DOMAIN candidates BY DEF Unconfirmed
<1>2. Len(candidates) \in Nat BY DEF TypeOK
<1> QED BY <1>1, <1>2 DEF TypeOK, StartConfirmation, MainPoints

(* A candidate file more, or none, keeps the types. *)
LEMMA FilesType ==
  ASSUME TypeOK, NEW t \in Tests, files' \in {files, Append(files, t)},
         UNCHANGED <<main, replays>>
  PROVE  /\ files' \in Seq(Tests) /\ replays' \in 0..Len(files')
         /\ main' = "replaying" => replays' < Len(files')
<1>1. files \in Seq(Tests) /\ Len(files) \in Nat BY DEF TypeOK
<1>2. /\ Append(files, t) \in Seq(Tests) /\ Len(Append(files, t)) = Len(files) + 1
  BY <1>1, AppendFacts
<1>3. files' \in Seq(Tests) /\ Len(files') \in Nat /\ Len(files') >= Len(files)
  <2>1. CASE files' = files BY <2>1, <1>1
  <2>2. CASE files' = Append(files, t) BY <2>2, <1>1, <1>2
  <2> QED BY <2>1, <2>2
<1> QED BY <1>1, <1>3 DEF TypeOK

(* Stopping the engine keeps the types. *)
LEMMA StopType ==
  ASSUME TypeOK, Running, StopEngine
  PROVE  /\ engine' \in [at : {"off", "idle", "exited"}, test : {NoTest}]
                     \cup [at : {"journal", "preflight", "exec", "cut"}, test : Tests]
                     \cup [at : {"dead"}, test : Tests \cup {NoTest}]
         /\ pending' \in Tests \cup {NoTest, Torn}
BY CampaignAssumption DEF TypeOK, Running, StopEngine, Cuts

(* Every step of the engine keeps the types. *)
LEMMA EngineType ==
  ASSUME TypeOK, Engine
  PROVE  TypeOK'
<1> USE CampaignAssumption DEF TypeOK, candVars, confirmVars
<1>1. ASSUME NEW t \in Tests, OpenJournal(t) PROVE TypeOK' BY <1>1 DEF OpenJournal
<1>2. CASE WriteJournal BY <1>2 DEF WriteJournal
<1>3. CASE PreflightStops
  <2>1. engine.test \in Tests BY <1>3 DEF PreflightStops
  <2>2. files' \in {files, Append(files, engine.test)} BY <1>3 DEF PreflightStops
  <2>3. UNCHANGED <<main, replays>> BY <1>3 DEF PreflightStops
  <2>4. /\ files' \in Seq(Tests) /\ replays' \in 0..Len(files')
        /\ main' = "replaying" => replays' < Len(files')
    BY <2>1, <2>2, <2>3, FilesType
  <2>5. pending' \in Tests \cup {NoTest, Torn} /\ ran' \in Tests \cup {NoTest}
    BY <1>3, <2>1 DEF PreflightStops, RemoveJournal
  <2> QED BY <1>3, <2>4, <2>5 DEF PreflightStops, RemoveJournal
<1>4. CASE PreflightClean BY <1>4 DEF PreflightClean
<1>5. CASE Executed
  <2>1. engine.test \in Tests BY <1>5 DEF Executed
  <2>2. files' \in {files, Append(files, engine.test)} BY <1>5 DEF Executed
  <2>3. UNCHANGED <<main, replays>> BY <1>5 DEF Executed
  <2>4. /\ files' \in Seq(Tests) /\ replays' \in 0..Len(files')
        /\ main' = "replaying" => replays' < Len(files')
    BY <2>1, <2>2, <2>3, FilesType
  <2>5. pending' \in Tests \cup {NoTest, Torn} /\ ran' \in Tests \cup {NoTest}
    BY <1>5, <2>1 DEF Executed, RemoveJournal
  <2> QED BY <1>5, <2>4, <2>5 DEF Executed, RemoveJournal
<1>6. CASE EngineDies BY <1>6, StopType DEF EngineDies
<1>7. CASE EngineExits BY <1>7 DEF EngineExits
<1> QED BY <1>1, <1>2, <1>3, <1>4, <1>5, <1>6, <1>7 DEF Engine

(* Every step of the solver thread keeps the types. *)
LEMMA SolverType ==
  ASSUME TypeOK, Solver
  PROVE  TypeOK'
<1> USE DEF TypeOK, candVars, confirmVars
<1>1. CASE SolverQuery BY <1>1 DEF SolverQuery
<1>2. CASE SolverCandidate
  <2>1. PICK t \in Tests, r \in Risks : Offer("solver", t, r) BY <1>2 DEF SolverCandidate
  <2>2. reg' \in [Threads -> {Idle} \cup Call] /\ offers' \in 0..MaxOffers
    BY <2>1, OfferType DEF Threads
  <2> QED BY <1>2, <2>2 DEF SolverCandidate
<1>3. CASE SolverNoCandidate BY <1>3 DEF SolverNoCandidate
<1>4. CASE SolverEnds BY <1>4 DEF SolverEnds
<1>5. CASE Register("solver") BY <1>5, RegisterType DEF Threads
<1> QED BY <1>1, <1>2, <1>3, <1>4, <1>5 DEF Solver

(* The records of the evidence. *)
Record == [id : Nat, status : {"confirmed", "TIMEOUT", "REPLAY_MISMATCH"},
           risk : Risks, test : Tests, matches : BOOLEAN]

(* What the evidence of a candidate is made of. *)
LEMMA EvidenceFacts ==
  ASSUME NEW c \in Candidate, NEW e \in Evidence(c)
  PROVE  /\ e \in Record
         /\ e.id = c.id /\ e.risk = c.risk /\ e.test = c.test
         /\ e.status = "confirmed" => e.matches
<1>1. PICK first \in Rounds(c.test) :
        e \in {[id |-> c.id, status |-> Status(c.risk, first, last), risk |-> c.risk,
                test |-> c.test, matches |-> \A o \in last : SameCandidate(c.risk, o)] :
               last \in IF Confirms(c.risk, first) THEN {first} ELSE Rounds(c.test)}
  BY DEF Evidence
<1>2. PICK last \in (IF Confirms(c.risk, first) THEN {first} ELSE Rounds(c.test)) :
        e = [id |-> c.id, status |-> Status(c.risk, first, last), risk |-> c.risk,
             test |-> c.test, matches |-> \A o \in last : SameCandidate(c.risk, o)]
  BY <1>1
<1>3. c.id \in Nat /\ c.risk \in Risks /\ c.test \in Tests BY DEF Candidate
<1>4. Status(c.risk, first, last) \in {"confirmed", "TIMEOUT", "REPLAY_MISMATCH"} BY DEF Status
<1> DEFINE m == \A o \in last : SameCandidate(c.risk, o)
           s == Status(c.risk, first, last)
<1>5. m \in BOOLEAN OBVIOUS
<1>6. s = "confirmed" => m BY DEF Status, Confirms
<1>7. e = [id |-> c.id, status |-> s, risk |-> c.risk, test |-> c.test, matches |-> m]
  BY <1>2
<1> HIDE DEF m, s
<1>8. s \in {"confirmed", "TIMEOUT", "REPLAY_MISMATCH"} BY <1>4 DEF s
<1> QED BY <1>3, <1>5, <1>6, <1>7, <1>8 DEF Record

(* A judged candidate keeps the types. *)
LEMMA JudgeType ==
  ASSUME TypeOK, NEW i \in left, JudgeCandidate(i)
  PROVE  /\ results' \subseteq Record
         /\ confirmed' \in Seq(Candidate)
         /\ main' \in MainPoints \ {"replaying"}
         /\ left' \subseteq left
<1> USE DEF TypeOK
<1>1. candidates[i] \in Candidate OBVIOUS
<1>2. PICK e \in Evidence(candidates[i]) :
        /\ results' = results \cup {e}
        /\ \/ NextCandidate(i) /\ UNCHANGED confirmed
           \/ /\ confirmed' = Append(confirmed, candidates[i])
              /\ main' = "repro" /\ UNCHANGED left
           \/ Abandon /\ UNCHANGED <<confirmed, left>>
  BY DEF JudgeCandidate
<1>3. e \in Record BY <1>1, EvidenceFacts
<1>4. results' \subseteq Record BY <1>2, <1>3 DEF Record
<1>5. confirmed' \in Seq(Candidate)
  <2>1. confirmed \in Seq(Candidate) /\ Append(confirmed, candidates[i]) \in Seq(Candidate)
    BY <1>1
  <2> QED BY <1>2, <2>1
<1>6. main' \in MainPoints \ {"replaying"} /\ left' \subseteq left
  BY <1>2 DEF NextCandidate, Abandon, MainPoints
<1> QED BY <1>4, <1>5, <1>6

(* Every step of the main thread keeps the types. *)
LEMMA MainType ==
  ASSUME TypeOK, Main
  PROVE  TypeOK'
<1> USE DEF TypeOK, candVars, confirmVars, MainPoints
<1>1. CASE StartupCandidate
  <2>1. PICK t \in Tests, r \in Risks : Offer("main", t, r) BY <1>1 DEF StartupCandidate
  <2>2. reg' \in [Threads -> {Idle} \cup Call] /\ offers' \in 0..MaxOffers
    BY <2>1, OfferType DEF Threads
  <2> QED BY <1>1, <2>2 DEF StartupCandidate
<1>2. CASE PlanDone BY <1>2 DEF PlanDone
<1>3. CASE StartupDone BY <1>3 DEF StartupDone
<1>4. CASE Launch BY <1>4 DEF Launch
<1>5. CASE LaunchFails BY <1>5 DEF LaunchFails
<1>6. CASE KillEngine
  <2>1. report' \in Nat BY <1>6 DEF KillEngine, WriteReport
  <2> QED BY <1>6, <2>1, StopType DEF KillEngine
<1>7. CASE Collect BY <1>7 DEF Collect
<1>8. CASE JoinAfterKill
  <2>1. stop' \in BOOLEAN /\ late' \in BOOLEAN BY <1>8 DEF JoinAfterKill, Joined
  <2>2. main' \in {"killed", "raised"} BY <1>8 DEF JoinAfterKill
  <2> QED BY <1>8, <2>1, <2>2 DEF JoinAfterKill
<1>9. CASE Join
  <2>1. late' \in BOOLEAN BY <1>9 DEF Join, Joined
  <2> QED BY <1>9, <2>1 DEF Join
<1>10. CASE Recover
  <2>1. ASSUME NEW o \in Risks, pending \notin {NoTest, Torn}
        PROVE [reg EXCEPT !["main"] = [step |-> "scan", risk |-> o, test |-> pending]]
                \in [Threads -> {Idle} \cup Call]
    BY <2>1, ScanCallType
  <2>2. reg' \in [Threads -> {Idle} \cup Call] /\ offers' = offers
        /\ main' \in {"failed", "recovering"}
    BY <1>10, <2>1 DEF Recover
  <2> QED BY <1>10, <2>2 DEF Recover
<1>11. CASE Recovered
  <2>1. StartConfirmation("failed") BY <1>11 DEF Recovered
  <2> QED BY <1>11, <2>1, StartConfirmationType DEF Recovered
<1>12. CASE Fail BY <1>12 DEF Fail, WriteReport
<1>13. CASE ReadSummary BY <1>13 DEF ReadSummary
<1>14. CASE ReplayFile
  <2>1. files[replays + 1] \in Tests BY <1>14 DEF ReplayFile
  <2>2. ASSUME NEW o \in Risks
        PROVE [reg EXCEPT !["main"] = [step |-> "scan", risk |-> o, test |-> files[replays + 1]]]
                \in [Threads -> {Idle} \cup Call]
    BY <2>1, ScanCallType
  <2>3. /\ reg' \in [Threads -> {Idle} \cup Call] /\ previous' \in Nat
        /\ main' \in {"replay", "replaying"} /\ replays' \in 0..Len(files)
        /\ main' = "replaying" => replays' < Len(files)
    BY <1>14, <2>2 DEF ReplayFile
  <2> QED BY <1>14, <2>3 DEF ReplayFile
<1>15. CASE Replayed
  <2>1. StartConfirmation("replay") \/ (main' = "replay" /\ UNCHANGED confirmVars)
    BY <1>15 DEF Replayed
  <2>2. /\ main' \in MainPoints \ {"replaying"}
        /\ todo' \subseteq DOMAIN candidates /\ left' \subseteq todo'
        /\ back' \in {"failed", "replay", "final", "report", "done"}
        /\ passed' \in 0..Len(candidates)
    BY <2>1, StartConfirmationType
  <2>3. replays' \in 0..Len(files) BY <1>15 DEF Replayed
  <2> QED BY <1>15, <2>2, <2>3 DEF Replayed
<1>16. CASE AfterReplays
  <2>1. StartConfirmation("final") BY <1>16 DEF AfterReplays
  <2> QED BY <1>16, <2>1, StartConfirmationType DEF AfterReplays
<1>17. CASE Final
  <2>1. StartConfirmation("report") BY <1>17 DEF Final
  <2> QED BY <1>17, <2>1, StartConfirmationType DEF Final
<1>18. CASE Report BY <1>18 DEF Report, WriteReport
<1>19. CASE Return BY <1>19 DEF Return
<1>20. CASE Shorten
  <2>1. PICK i \in left : \E t \in ShortForms(candidates[i]) :
          candidates' = [candidates EXCEPT ![i].test = t]
    BY <1>20 DEF Shorten
  <2>2. i \in DOMAIN candidates /\ candidates[i] \in Candidate BY <2>1
  <2>8. PICK t \in ShortForms(candidates[i]) :
          candidates' = [candidates EXCEPT ![i].test = t]
    BY <2>1
  <2>3. t \in Tests BY <2>8, <2>2, CampaignAssumption DEF ShortForms, Candidate
  <2>4. [candidates[i] EXCEPT !.test = t] \in Candidate BY <2>2, <2>3 DEF Candidate
  <2>5. candidates' = [candidates EXCEPT ![i] = [candidates[i] EXCEPT !.test = t]] BY <2>8, <2>2
  <2>6. /\ candidates' \in Seq(Candidate) /\ DOMAIN candidates' = DOMAIN candidates
        /\ Len(candidates') = Len(candidates)
    BY <2>2, <2>4, <2>5, ExceptFacts
  <2>7. todo' = todo /\ left' \subseteq todo /\ main' \in {"shorten", "judge"}
    BY <1>20 DEF Shorten
  <2> QED BY <1>20, <2>6, <2>7 DEF Shorten
<1>21. CASE Judge
  <2>1. PICK i \in left : JudgeCandidate(i) BY <1>21 DEF Judge
  <2>2. /\ results' \subseteq Record
        /\ confirmed' \in Seq(Candidate)
        /\ main' \in MainPoints \ {"replaying"}
        /\ left' \subseteq left
    BY <2>1, JudgeType
  <2> QED BY <1>21, <2>2 DEF Judge, Record
<1>22. CASE SaveFinding
  <2>1. PICK i \in left : WriteRepro(i) BY <1>22 DEF SaveFinding
  <2>2. candidates[i] \in Candidate BY <2>1
  <2>3. repro' \subseteq Candidate BY <2>1, <2>2 DEF WriteRepro, Others
  <2>4. main' \in MainPoints \ {"replaying"} /\ left' \subseteq left
    BY <2>1 DEF WriteRepro, NextCandidate, Abandon
  <2> QED BY <1>22, <2>3, <2>4 DEF SaveFinding
<1>23. CASE Register("main") BY <1>23, RegisterType DEF Threads
<1> QED BY <1>1, <1>2, <1>3, <1>4, <1>5, <1>6, <1>7, <1>8, <1>9, <1>10, <1>11, <1>12,
           <1>13, <1>14, <1>15, <1>16, <1>17, <1>18, <1>19, <1>20, <1>21, <1>22, <1>23
       DEF Main

(* The first state is well typed. *)
LEMMA InitType == Init => TypeOK
<1> SUFFICES ASSUME Init PROVE TypeOK OBVIOUS
<1>1. late \in BOOLEAN /\ stop \in BOOLEAN BY DEF Init
<1>2. reg \in [Threads -> {Idle} \cup Call] BY DEF Init
<1>3. /\ files \in Seq(Tests) /\ Len(files) = 0
      /\ candidates \in Seq(Candidate) /\ Len(candidates) = 0
      /\ confirmed \in Seq(Candidate)
  BY DEF Init
<1>4. results \subseteq Record /\ repro \subseteq Candidate BY DEF Init
<1> QED BY <1>1, <1>2, <1>3, <1>4, CampaignAssumption DEF Init, TypeOK, MainPoints, Record

(* The typing invariant is inductive. *)
THEOREM CampaignTypes == Spec => []TypeOK
<1>1. TypeOK /\ [Next]_vars => TypeOK'
  <2> SUFFICES ASSUME TypeOK, [Next]_vars PROVE TypeOK' OBVIOUS
  <2>1. CASE Main BY <2>1, MainType
  <2>2. CASE Engine BY <2>2, EngineType
  <2>3. CASE Solver BY <2>3, SolverType
  <2>4. CASE UNCHANGED vars BY <2>4 DEF TypeOK, vars
  <2> QED BY <2>1, <2>2, <2>3, <2>4 DEF Next, Terminated
<1> QED BY <1>1, InitType, PTL DEF Spec

-----------------------------------------------------------------------------
(* Registration: who runs it, and the ids it gives.                        *)

(* The solver thread runs while the main thread waits for the engine or    *)
(* for the thread, or after a join that gave up; each thread registers     *)
(* only where its code does.                                               *)
Exclusive ==
  /\ solver \in {"live", "query"} => main \in {"wait", "killed", "join"} \/ late
  /\ main \in {"plan", "startup", "launch", "wait", "killed", "join"} => ~late
  /\ reg["solver"] # Idle => solver = "live"
  /\ reg["main"] # Idle => main \in {"plan", "startup", "recovering", "replaying"}

(* Unless the join gave up, a candidate's id is its position, and a call   *)
(* about to append has the next one.                                       *)
Numbered ==
  late \/ /\ \A i \in DOMAIN candidates : candidates[i].id = i
          /\ \A th \in Threads :
               reg[th].step = "append" => reg[th].id = Len(candidates) + 1

(* Unless the join gave up, what a confirmation still has to judge is not  *)
(* confirmed.                                                              *)
Fresh ==
  \/ late
  \/ /\ main = "shorten" => \A i \in todo : \A k \in DOMAIN confirmed :
                               confirmed[k].id # candidates[i].id
     /\ main = "judge" => \A i \in left : \A k \in DOMAIN confirmed :
                             confirmed[k].id # candidates[i].id
     /\ main = "repro" => \A i \in left : \A k \in DOMAIN confirmed :
                             k < Len(confirmed) => confirmed[k].id # candidates[i].id

(* The finding whose directory is written is the last one, and it is the   *)
(* candidate the loop has reached.                                         *)
Saving ==
  main = "repro" =>
    /\ Len(confirmed) \in DOMAIN confirmed
    /\ \A i \in left : Visited(i) => confirmed[Len(confirmed)] = candidates[i]

IdsInv ==
  TypeOK /\ Exclusive /\ Numbered /\ Fresh /\ Saving /\ ReproMatchesFinding

(* What the registrations of a step must keep. *)
Kept == Numbered' /\ Fresh' /\ Saving' /\ ReproMatchesFinding'

(* Steps of a registration keep the two threads apart. *)
LEMMA ExclusiveRegister ==
  ASSUME TypeOK, Exclusive, NEW th \in Threads, Register(th)
  PROVE  Exclusive'
<1>1. reg[th] # Idle /\ main' = main /\ solver' = solver /\ late' = late
  BY DEF Register, RegScan, RegNumber, RegAppend, Idle
<1>2. \A o \in Threads : o # th => reg'[o] = reg[o]
  BY DEF Register, RegScan, RegNumber, RegAppend, TypeOK
<1> QED BY <1>1, <1>2 DEF Exclusive, Threads

(* The steps of the main thread keep the two threads apart. *)
LEMMA ExclusiveMain ==
  ASSUME TypeOK, Exclusive, Main
  PROVE  Exclusive'
<1> USE DEF Exclusive, TypeOK
<1>1. CASE StartupCandidate BY <1>1 DEF StartupCandidate, Offer, Threads
<1>2. CASE PlanDone BY <1>2 DEF PlanDone
<1>3. CASE StartupDone BY <1>3 DEF StartupDone
<1>4. CASE Launch BY <1>4 DEF Launch
<1>5. CASE LaunchFails BY <1>5 DEF LaunchFails
<1>6. CASE KillEngine BY <1>6 DEF KillEngine
<1>7. CASE Collect BY <1>7 DEF Collect
<1>8. CASE JoinAfterKill BY <1>8 DEF JoinAfterKill, Joined
<1>9. CASE Join BY <1>9 DEF Join, Joined
<1>10. CASE Fail BY <1>10 DEF Fail
<1>11. CASE ReadSummary BY <1>11 DEF ReadSummary
<1>12. CASE Report \/ Return BY <1>12 DEF Report, Return
<1>13. CASE Recover BY <1>13 DEF Recover, Threads
<1>14. CASE Recovered BY <1>14 DEF Recovered, StartConfirmation
<1>15. CASE ReplayFile BY <1>15 DEF ReplayFile, Threads
<1>16. CASE Replayed BY <1>16 DEF Replayed, StartConfirmation
<1>17. CASE AfterReplays BY <1>17 DEF AfterReplays, StartConfirmation
<1>18. CASE Final BY <1>18 DEF Final, StartConfirmation
<1>19. CASE Shorten BY <1>19 DEF Shorten
<1>20. CASE Judge
  <2>1. /\ main' \in {back, "judge", "repro", "failed", "raised"} /\ main = "judge"
        /\ UNCHANGED <<solver, late, reg>>
    BY <1>20 DEF Judge, JudgeCandidate, NextCandidate, Abandon
  <2> QED BY <2>1
<1>21. CASE SaveFinding
  <2>1. /\ main' \in {back, "judge", "failed", "raised"} /\ main = "repro"
        /\ UNCHANGED <<solver, late, reg>>
    BY <1>21 DEF SaveFinding, WriteRepro, NextCandidate, Abandon
  <2> QED BY <2>1
<1>22. CASE Register("main") BY <1>22, ExclusiveRegister DEF Threads
<1> QED BY <1>1, <1>2, <1>3, <1>4, <1>5, <1>6, <1>7, <1>8, <1>9, <1>10, <1>11, <1>12, <1>13,
           <1>14, <1>15, <1>16, <1>17, <1>18, <1>19, <1>20, <1>21, <1>22 DEF Main

(* What no step of the engine touches. *)
LEMMA EngineFrame ==
  ASSUME Engine
  PROVE  UNCHANGED <<main, solver, stop, late, replays, reg, candVars, confirmVars,
                     previous, report, offers>>
BY DEF Engine, OpenJournal, WriteJournal, PreflightStops, PreflightClean, Executed,
       EngineDies, EngineExits

(* The other steps keep them apart. *)
LEMMA ExclusiveOthers ==
  ASSUME TypeOK, Exclusive, Engine \/ Solver
  PROVE  Exclusive'
<1> USE DEF Exclusive, TypeOK
<1>1. CASE Engine BY <1>1, EngineFrame
<1>2. CASE SolverQuery BY <1>2 DEF SolverQuery
<1>3. CASE SolverCandidate BY <1>3 DEF SolverCandidate, Offer, Threads
<1>4. CASE SolverNoCandidate BY <1>4 DEF SolverNoCandidate
<1>5. CASE SolverEnds BY <1>5 DEF SolverEnds
<1>6. CASE Register("solver") BY <1>6, ExclusiveRegister DEF Threads
<1> QED BY <1>1, <1>2, <1>3, <1>4, <1>5, <1>6 DEF Solver

(* Steps that append nothing and number no call keep the numbering. *)
LEMMA QuietNumbered ==
  ASSUME Numbered, UNCHANGED candidates, late => late',
         \A th \in Threads : reg'[th] = reg[th] \/ reg'[th].step # "append"
  PROVE  Numbered'
BY DEF Numbered

(* Steps that start no confirmation keep what is known of the current one. *)
LEMMA QuietFresh ==
  ASSUME IdsInv, UNCHANGED <<candidates, confirmed, repro>>, late => late',
         \/ /\ main \notin {"repro", "failed", "raised"}
            /\ main' \notin {"shorten", "judge", "repro"}
         \/ main = "failed" /\ main' = "raised"
         \/ UNCHANGED <<main, todo, left>>
  PROVE  Fresh' /\ Saving' /\ ReproMatchesFinding'
<1>1. Fresh' BY DEF IdsInv, Fresh
<1>2. Saving' BY DEF IdsInv, Saving, Visited
<1>3. ReproMatchesFinding' BY DEF IdsInv, ReproMatchesFinding
<1> QED BY <1>1, <1>2, <1>3

(* While the join has not given up, a registration numbers its candidate   *)
(* with the position it appends at: no other thread appends in between.    *)
LEMMA RegisterNumbers ==
  ASSUME IdsInv, NEW th \in Threads, Register(th), ~late
  PROVE  Numbered'
<1> USE DEF IdsInv
<1>1. reg \in [Threads -> {Idle} \cup Call] /\ reg[th] # Idle
  BY DEF TypeOK, Register, RegScan, RegNumber, RegAppend, Idle
<1>2. \A o \in Threads : o # th => reg'[o] = reg[o] /\ reg[o] = Idle
  <2>1. \A o \in Threads : o # th => reg'[o] = reg[o]
    BY DEF Register, RegScan, RegNumber, RegAppend, TypeOK
  <2>2. \A o \in Threads : o # th => reg[o] = Idle BY <1>1 DEF Exclusive, Threads
  <2> QED BY <2>1, <2>2
<1>3. CASE RegScan(th)
  <2>1. reg'[th].step # "append" BY <1>1, <1>3 DEF RegScan, Idle
  <2> QED BY <1>2, <1>3, <2>1, QuietNumbered DEF RegScan, candVars
<1>4. CASE RegNumber(th)
  <2>1. reg'[th].id = Len(candidates) + 1 BY <1>1, <1>4 DEF RegNumber, FindingId
  <2> QED BY <1>2, <1>4, <2>1 DEF RegNumber, candVars, Numbered, Idle
<1>5. CASE RegAppend(th)
  <2>1. reg[th].step = "append" BY <1>5 DEF RegAppend
  <2>2. reg[th].risk \in Risks /\ reg[th].test \in Tests /\ reg[th].id \in Nat
    BY <1>1, <2>1, CallFacts
  <2> DEFINE c == [id |-> reg[th].id, risk |-> reg[th].risk, test |-> reg[th].test]
  <2>3. c \in Candidate /\ c.id = reg[th].id BY <2>2 DEF Candidate
  <2>4. candidates' = Append(candidates, c) BY <1>5 DEF RegAppend
  <2> HIDE DEF c
  <2>5. candidates \in Seq(Candidate) /\ Len(candidates) \in Nat
        /\ DOMAIN candidates = 1..Len(candidates)
    BY DEF TypeOK
  <2>6. /\ DOMAIN candidates' = 1..(Len(candidates) + 1)
        /\ candidates'[Len(candidates) + 1] = c
        /\ \A i \in DOMAIN candidates : candidates'[i] = candidates[i]
    BY <2>3, <2>4, <2>5, AppendFacts
  <2>7. c.id = Len(candidates) + 1 BY <2>1, <2>3 DEF Numbered
  <2>8. \A i \in DOMAIN candidates' : candidates'[i].id = i
    BY <2>5, <2>6, <2>7 DEF Numbered
  <2>9. \A o \in Threads : reg'[o] = Idle BY <1>1, <1>2, <1>5 DEF RegAppend
  <2> QED BY <2>8, <2>9 DEF Numbered, Idle
<1> QED BY <1>3, <1>4, <1>5 DEF Register

(* A registration disturbs no finding, whichever thread it is in. *)
LEMMA RegisterIds ==
  ASSUME IdsInv, NEW th \in Threads, Register(th)
  PROVE  Kept
<1> USE DEF IdsInv
<1>1. late' = late BY DEF Register, RegScan, RegNumber, RegAppend
<1>2. Numbered' BY <1>1, RegisterNumbers DEF Numbered
<1>3. UNCHANGED <<main, todo, left, confirmed, repro>>
  BY DEF Register, RegScan, RegNumber, RegAppend, confirmVars, candVars
<1>4. todo \subseteq DOMAIN candidates /\ left \subseteq DOMAIN candidates BY DEF TypeOK
<1>5. \A i \in DOMAIN candidates : candidates'[i] = candidates[i]
  <2>1. CASE candidates' = candidates BY <2>1
  <2>2. CASE RegAppend(th)
    <3>1. reg[th] \in {Idle} \cup Call /\ reg[th].step = "append"
      BY <2>2 DEF RegAppend, TypeOK
    <3>2. reg[th].risk \in Risks /\ reg[th].test \in Tests /\ reg[th].id \in Nat
      BY <3>1, CallFacts
    <3> DEFINE c == [id |-> reg[th].id, risk |-> reg[th].risk, test |-> reg[th].test]
    <3>3. c \in Candidate BY <3>2 DEF Candidate
    <3>4. candidates' = Append(candidates, c) BY <2>2 DEF RegAppend
    <3> HIDE DEF c
    <3>5. candidates \in Seq(Candidate) BY DEF TypeOK
    <3> QED BY <3>3, <3>4, <3>5, AppendFacts
  <2> QED BY <2>1, <2>2 DEF Register, RegScan, RegNumber, candVars
<1>6. Fresh' BY <1>1, <1>3, <1>4, <1>5 DEF Fresh
<1>7. Saving' BY <1>3, <1>4, <1>5 DEF Saving, Visited
<1>8. ReproMatchesFinding' BY <1>1, <1>3 DEF ReproMatchesFinding
<1> QED BY <1>2, <1>6, <1>7, <1>8 DEF Kept

(* The start of a confirmation leaves out what is confirmed. *)
LEMMA StartFresh ==
  ASSUME IdsInv, NEW then \in {"failed", "replay", "final", "report"},
         main \notin {"repro", "failed", "raised"},
         StartConfirmation(then), UNCHANGED <<candVars, reg, late>>
  PROVE  Kept
<1> USE DEF IdsInv, candVars
<1>1. Numbered' BY QuietNumbered
<1>2. CASE Unconfirmed = {} BY <1>1, <1>2, QuietFresh DEF StartConfirmation, Kept
<1>3. CASE Unconfirmed # {}
  <2>1. main' = "shorten" /\ todo' = Unconfirmed BY <1>3 DEF StartConfirmation
  <2>2. Fresh' BY <2>1 DEF Fresh, Unconfirmed, ConfirmedIds
  <2>3. Saving' BY <2>1 DEF Saving
  <2>4. ReproMatchesFinding' BY DEF ReproMatchesFinding
  <2> QED BY <1>1, <2>2, <2>3, <2>4 DEF Kept
<1> QED BY <1>2, <1>3

(* What shortening does: one testcase changes, in place. *)
LEMMA ShortenFacts ==
  ASSUME TypeOK, Shorten
  PROVE  /\ DOMAIN candidates' = DOMAIN candidates /\ Len(candidates') = Len(candidates)
         /\ \A j \in DOMAIN candidates : /\ candidates'[j].id = candidates[j].id
                                         /\ candidates'[j].risk = candidates[j].risk
         /\ main = "shorten" /\ main' \in {"shorten", "judge"}
         /\ left' \subseteq todo /\ (main' = "judge" => left' = todo)
         /\ UNCHANGED <<late, reg, todo, back, passed, results, confirmed, repro>>
<1>1. PICK i \in left : \E t \in ShortForms(candidates[i]) :
        candidates' = [candidates EXCEPT ![i].test = t]
  BY DEF Shorten
<1>2. PICK t \in ShortForms(candidates[i]) : candidates' = [candidates EXCEPT ![i].test = t]
  BY <1>1
<1>3. candidates \in Seq(Candidate) /\ i \in DOMAIN candidates /\ candidates[i] \in Candidate
  BY <1>1 DEF TypeOK
<1>4. t \in Tests BY <1>2, <1>3, CampaignAssumption DEF ShortForms, Candidate
<1> DEFINE d == [candidates[i] EXCEPT !.test = t]
<1>5. d \in Candidate /\ d.id = candidates[i].id /\ d.risk = candidates[i].risk
  BY <1>3, <1>4 DEF Candidate
<1>6. candidates' = [candidates EXCEPT ![i] = d] BY <1>2, <1>3
<1> HIDE DEF d
<1>7. DOMAIN candidates' = DOMAIN candidates /\ Len(candidates') = Len(candidates)
  BY <1>3, <1>5, <1>6, ExceptFacts
<1>8. \A j \in DOMAIN candidates : /\ candidates'[j].id = candidates[j].id
                                   /\ candidates'[j].risk = candidates[j].risk
  BY <1>3, <1>5, <1>6
<1> QED BY <1>7, <1>8 DEF Shorten, TypeOK

(* Shortening keeps every id. *)
LEMMA ShortenIds ==
  ASSUME IdsInv, Shorten
  PROVE  Kept
<1> USE ShortenFacts DEF IdsInv
<1>1. Numbered' BY DEF Numbered
<1>2. todo \subseteq DOMAIN candidates BY DEF TypeOK
<1>3. Fresh' BY <1>2 DEF Fresh
<1>4. Saving' BY DEF Saving
<1>5. ReproMatchesFinding' BY DEF ReproMatchesFinding
<1> QED BY <1>1, <1>3, <1>4, <1>5 DEF Kept

(* Judging appends at most the candidate it visits. *)
LEMMA JudgeIds ==
  ASSUME IdsInv, Judge
  PROVE  Kept
<1> USE DEF IdsInv
<1>1. Numbered' BY QuietNumbered DEF Judge
<1>2. PICK i \in left : Visited(i) /\ JudgeCandidate(i) BY DEF Judge
<1>3. /\ main = "judge" /\ UNCHANGED <<late, candidates, repro>>
      /\ left \subseteq DOMAIN candidates /\ i \in DOMAIN candidates
      /\ back \notin {"shorten", "judge", "repro"}
      /\ candidates[i] \in Candidate /\ confirmed \in Seq(Candidate)
  BY <1>2 DEF Judge, TypeOK
<1>4. CASE NextCandidate(i) /\ UNCHANGED confirmed
  <2>1. left' = left \ {i} /\ main' \in {back, "judge"} BY <1>4 DEF NextCandidate
  <2>2. Fresh' BY <1>3, <1>4, <2>1 DEF Fresh
  <2>3. Saving' BY <1>3, <2>1 DEF Saving
  <2>4. ReproMatchesFinding' BY <1>3, <1>4 DEF ReproMatchesFinding
  <2> QED BY <1>1, <2>2, <2>3, <2>4 DEF Kept
<1>5. CASE /\ confirmed' = Append(confirmed, candidates[i])
           /\ main' = "repro" /\ UNCHANGED left
  <2>1. /\ DOMAIN confirmed = 1..Len(confirmed) /\ Len(confirmed) \in Nat
        /\ DOMAIN confirmed' = 1..(Len(confirmed) + 1)
        /\ Len(confirmed') = Len(confirmed) + 1
        /\ confirmed'[Len(confirmed) + 1] = candidates[i]
        /\ \A k \in DOMAIN confirmed : confirmed'[k] = confirmed[k]
    BY <1>3, <1>5, AppendFacts
  <2>2. Fresh' BY <1>3, <1>5, <2>1 DEF Fresh
  <2>3. \A j \in left : Visited(j) => j = i BY <1>2, <1>3 DEF Visited, TypeOK
  <2>4. Saving' BY <1>3, <1>5, <2>1, <2>3 DEF Saving, Visited
  <2>5. \A k \in DOMAIN confirmed :
          \/ confirmed[k] \in repro
          \/ late /\ \E j \in DOMAIN confirmed : j > k /\ SameId(confirmed[k], confirmed[j])
    BY <1>3 DEF ReproMatchesFinding
  <2>6. ReproMatchesFinding'
    <3> SUFFICES ASSUME NEW k \in DOMAIN confirmed'
                 PROVE  \/ confirmed'[k] \in repro'
                        \/ k = Len(confirmed') /\ main' \in {"repro", "failed", "raised"}
                        \/ late' /\ \E j \in DOMAIN confirmed' :
                                      j > k /\ SameId(confirmed'[k], confirmed'[j])
      BY DEF ReproMatchesFinding, SameId
    <3>1. CASE k = Len(confirmed) + 1 BY <1>5, <2>1, <3>1
    <3>2. CASE k \in DOMAIN confirmed BY <1>3, <2>1, <2>5, <3>2 DEF SameId
    <3> QED BY <2>1, <3>1, <3>2
  <2> QED BY <1>1, <2>2, <2>4, <2>6 DEF Kept
<1>6. CASE Abandon /\ UNCHANGED <<confirmed, left>>
  <2>1. main' \in {"failed", "raised"} BY <1>6 DEF Abandon
  <2>2. Fresh' /\ Saving' BY <2>1 DEF Fresh, Saving
  <2>3. ReproMatchesFinding' BY <1>3, <1>6 DEF ReproMatchesFinding
  <2> QED BY <1>1, <2>2, <2>3 DEF Kept
<1> QED BY <1>2, <1>4, <1>5, <1>6 DEF JudgeCandidate

(* Writing a directory overwrites that of another finding only if two      *)
(* findings share an id.                                                   *)
LEMMA SaveIds ==
  ASSUME IdsInv, SaveFinding
  PROVE  Kept
<1> USE DEF IdsInv
<1>1. Numbered' BY QuietNumbered DEF SaveFinding
<1>2. PICK i \in left : Visited(i) /\ WriteRepro(i) BY DEF SaveFinding
<1> DEFINE c == candidates[i]
           n == Len(confirmed)
<1>3. /\ main = "repro" /\ UNCHANGED <<late, candidates, confirmed>>
      /\ left \subseteq DOMAIN candidates
      /\ back \notin {"shorten", "judge", "repro"}
      /\ confirmed \in Seq(Candidate) /\ DOMAIN confirmed = 1..n /\ n \in Nat
  BY <1>2 DEF SaveFinding, TypeOK
<1>4. n \in DOMAIN confirmed /\ confirmed[n] = c BY <1>2, <1>3 DEF Saving
<1> HIDE DEF c
<1>5. repro \ {p \in repro : p.id = c.id} \subseteq repro' BY <1>2 DEF WriteRepro, Others, c
<1>6. \A k \in DOMAIN confirmed : k # n =>
        \/ confirmed[k] \in repro'
        \/ late' /\ \E j \in DOMAIN confirmed' : j > k /\ SameId(confirmed'[k], confirmed'[j])
  <2> SUFFICES ASSUME NEW k \in DOMAIN confirmed, k # n
               PROVE  \/ confirmed[k] \in repro'
                      \/ late' /\ \E j \in DOMAIN confirmed' :
                                    j > k /\ SameId(confirmed'[k], confirmed'[j])
    OBVIOUS
  <2>1. k < n BY <1>3
  <2>2. CASE confirmed[k].id # c.id
    <3>1. \/ confirmed[k] \in repro
          \/ late /\ \E j \in DOMAIN confirmed : j > k /\ SameId(confirmed[k], confirmed[j])
      BY <2>1 DEF ReproMatchesFinding
    <3> QED BY <1>3, <1>5, <2>2, <3>1 DEF SameId
  <2>3. CASE confirmed[k].id = c.id
    <3>1. late BY <1>2, <1>3, <2>1, <2>3 DEF Fresh, c
    <3> QED BY <1>3, <1>4, <2>1, <2>3, <3>1 DEF SameId
  <2> QED BY <2>2, <2>3
<1>7. CASE repro' = Others(candidates[i]) \cup {candidates[i]} /\ NextCandidate(i)
  <2>1. left' = left \ {i} /\ main' \in {back, "judge"} BY <1>7 DEF NextCandidate
  <2>2. confirmed[n] \in repro' BY <1>4, <1>7 DEF c
  <2>3. ReproMatchesFinding' BY <1>3, <1>6, <2>2 DEF ReproMatchesFinding, SameId
  <2>4. Saving' BY <1>3, <2>1 DEF Saving
  <2>5. Fresh'
    <3>1. CASE late BY <1>3, <3>1 DEF Fresh
    <3>2. CASE ~late
      <4>1. \A j \in left \ {i} : candidates[j].id # c.id BY <1>2, <1>3, <3>2 DEF Numbered, c
      <4>2. \A j \in left : \A k \in DOMAIN confirmed : k < n => confirmed[k].id # candidates[j].id
        BY <1>3, <3>2 DEF Fresh
      <4>3. \A j \in left' : \A k \in DOMAIN confirmed : confirmed[k].id # candidates[j].id
        BY <1>3, <1>4, <2>1, <4>1, <4>2
      <4> QED BY <1>3, <2>1, <4>3 DEF Fresh
    <3> QED BY <3>1, <3>2
  <2> QED BY <1>1, <2>3, <2>4, <2>5 DEF Kept
<1>8. CASE Abandon
  <2>1. main' \in {"failed", "raised"} BY <1>8 DEF Abandon
  <2>2. Fresh' /\ Saving' BY <2>1 DEF Fresh, Saving
  <2>3. ReproMatchesFinding' BY <1>3, <1>6, <2>1 DEF ReproMatchesFinding, SameId
  <2> QED BY <1>1, <2>2, <2>3 DEF Kept
<1> QED BY <1>2, <1>7, <1>8 DEF WriteRepro

(* Every step of the main thread keeps the invariant. *)
LEMMA MainIds ==
  ASSUME IdsInv, Main
  PROVE  Kept
<1> USE DEF candVars
<1>1. ASSUME UNCHANGED candVars, reg' = reg, late => late',
             \/ /\ main \notin {"repro", "failed", "raised"}
                /\ main' \notin {"shorten", "judge", "repro"}
             \/ main = "failed" /\ main' = "raised"
      PROVE  Kept
  BY <1>1, QuietNumbered, QuietFresh DEF IdsInv, Kept
<1>2. ASSUME NEW t, NEW r, UNCHANGED <<candVars, late>>,
             main \notin {"repro", "failed", "raised"},
             main' \notin {"shorten", "judge", "repro"},
             reg' = [reg EXCEPT !["main"] = [step |-> "scan", risk |-> r, test |-> t]]
      PROVE  Kept
  <2>1. \A th \in Threads : reg'[th] = reg[th] \/ reg'[th].step # "append"
    BY <1>2 DEF IdsInv, TypeOK
  <2> QED BY <1>2, <2>1, QuietNumbered, QuietFresh DEF IdsInv, Kept
<1>3. CASE StartupCandidate BY <1>2, <1>3 DEF StartupCandidate, Offer
<1>4. CASE PlanDone BY <1>1, <1>4 DEF PlanDone
<1>5. CASE StartupDone BY <1>1, <1>5 DEF StartupDone
<1>6. CASE Launch BY <1>1, <1>6 DEF Launch
<1>7. CASE LaunchFails BY <1>1, <1>7 DEF LaunchFails
<1>8. CASE KillEngine BY <1>1, <1>8 DEF KillEngine
<1>9. CASE Collect BY <1>1, <1>9 DEF Collect
<1>10. CASE JoinAfterKill BY <1>1, <1>10 DEF JoinAfterKill, IdsInv, Exclusive
<1>11. CASE Join BY <1>1, <1>11 DEF Join, IdsInv, Exclusive
<1>12. CASE Recover BY <1>1, <1>2, <1>12 DEF Recover
<1>13. CASE Recovered BY <1>13, StartFresh DEF Recovered
<1>14. CASE Fail BY <1>1, <1>14 DEF Fail
<1>15. CASE ReadSummary BY <1>1, <1>15 DEF ReadSummary
<1>16. CASE ReplayFile BY <1>1, <1>2, <1>16 DEF ReplayFile
<1>17. CASE Replayed BY <1>1, <1>17, StartFresh DEF Replayed
<1>18. CASE AfterReplays BY <1>18, StartFresh DEF AfterReplays
<1>19. CASE Final BY <1>19, StartFresh DEF Final
<1>20. CASE Report BY <1>1, <1>20 DEF Report
<1>21. CASE Return BY <1>1, <1>21 DEF Return
<1>22. CASE Shorten BY <1>22, ShortenIds
<1>23. CASE Judge BY <1>23, JudgeIds
<1>24. CASE SaveFinding BY <1>24, SaveIds
<1>25. CASE Register("main") BY <1>25, RegisterIds DEF Threads
<1> QED BY <1>3, <1>4, <1>5, <1>6, <1>7, <1>8, <1>9, <1>10, <1>11, <1>12, <1>13, <1>14,
           <1>15, <1>16, <1>17, <1>18, <1>19, <1>20, <1>21, <1>22, <1>23, <1>24, <1>25
       DEF Main

(* So do the engine and the solver thread. *)
LEMMA OtherIds ==
  ASSUME IdsInv, Engine \/ Solver
  PROVE  Kept
<1> USE DEF candVars, confirmVars
<1>1. ASSUME UNCHANGED <<main, late, candVars, confirmVars>>,
             \A th \in Threads : reg'[th] = reg[th] \/ reg'[th].step # "append"
      PROVE  Kept
  BY <1>1, QuietNumbered, QuietFresh DEF IdsInv, Kept
<1>2. CASE Engine BY <1>1, <1>2, EngineFrame
<1>3. CASE SolverQuery BY <1>1, <1>3 DEF SolverQuery
<1>4. CASE SolverCandidate
  <2>1. \A th \in Threads : reg'[th] = reg[th] \/ reg'[th].step # "append"
    BY <1>4 DEF SolverCandidate, Offer, IdsInv, TypeOK
  <2> QED BY <1>1, <1>4, <2>1 DEF SolverCandidate
<1>5. CASE SolverNoCandidate BY <1>1, <1>5 DEF SolverNoCandidate
<1>6. CASE SolverEnds BY <1>1, <1>6 DEF SolverEnds
<1>7. CASE Register("solver") BY <1>7, RegisterIds DEF Threads
<1> QED BY <1>2, <1>3, <1>4, <1>5, <1>6, <1>7 DEF Solver

(* The invariant behind the two theorems on finding ids: it says what the  *)
(* ids are while one thread registers, and what two findings that share    *)
(* one have to do with a join that gave up.                                *)
THEOREM IdsInvariant == Spec => []IdsInv
<1>1. Init => IdsInv
  <2> SUFFICES ASSUME Init PROVE IdsInv OBVIOUS
  <2>1. Exclusive BY DEF Init, Exclusive, Threads
  <2>2. Numbered BY DEF Init, Numbered, Idle
  <2>3. Fresh /\ Saving /\ ReproMatchesFinding
    BY DEF Init, Fresh, Saving, ReproMatchesFinding
  <2> QED BY InitType, <2>1, <2>2, <2>3 DEF IdsInv
<1>2. IdsInv /\ [Next]_vars => IdsInv'
  <2> SUFFICES ASSUME IdsInv, [Next]_vars PROVE IdsInv' OBVIOUS
  <2>1. CASE Main BY <2>1, MainType, ExclusiveMain, MainIds DEF IdsInv, Kept
  <2>2. CASE Engine BY <2>2, EngineType, ExclusiveOthers, OtherIds DEF IdsInv, Kept
  <2>3. CASE Solver BY <2>3, SolverType, ExclusiveOthers, OtherIds DEF IdsInv, Kept
  <2>4. CASE UNCHANGED vars
    BY <2>4 DEF vars, IdsInv, TypeOK, Exclusive, Numbered, Fresh, Saving, Visited,
                ReproMatchesFinding
  <2> QED BY <2>1, <2>2, <2>3, <2>4 DEF Next, Terminated
<1> QED BY <1>1, <1>2, PTL DEF Spec

(* The numbering of _register_candidate takes no lock, yet two candidates  *)
(* share an id only if the join gave up on a running solver thread.        *)
THEOREM FindingIdsAreUnique == Spec => []UniqueFindingIds
<1>1. IdsInv => UniqueFindingIds BY DEF IdsInv, Numbered, UniqueFindingIds, SameId
<1> QED BY <1>1, IdsInvariant, PTL

(* A replay directory holds what the probes confirmed, whatever write      *)
(* fails; it is overwritten only by a later finding with the same id.      *)
THEOREM ReplayDirectoriesAreKept == Spec => []ReproMatchesFinding
<1>1. IdsInv => ReproMatchesFinding BY DEF IdsInv
<1> QED BY <1>1, IdsInvariant, PTL

-----------------------------------------------------------------------------
(* Findings were repeated, and the journal names the crash.                *)

(* What no step of the main thread but those of a confirmation, or of a    *)
(* registration, touches. *)
LEMMA OnlyJudgeConfirms ==
  ASSUME TypeOK, [Next]_vars, ~Judge
  PROVE  UNCHANGED <<results, confirmed>>
<1> USE DEF candVars
<1>1. CASE Main
  <2>1. CASE Register("main") BY <2>1 DEF Register, RegScan, RegNumber, RegAppend
  <2>2. CASE Shorten BY <2>2 DEF Shorten
  <2>3. CASE SaveFinding BY <2>3 DEF SaveFinding
  <2> QED BY <1>1, <2>1, <2>2, <2>3
       DEF Main, StartupCandidate, PlanDone, StartupDone, Launch, LaunchFails, KillEngine,
           Collect, JoinAfterKill, Join, Recover, Recovered, Fail, ReadSummary, ReplayFile,
           Replayed, AfterReplays, Final, Report, Return
<1>2. CASE Engine BY <1>2, EngineFrame
<1>3. CASE Solver
  BY <1>3 DEF Solver, SolverQuery, SolverCandidate, SolverNoCandidate, SolverEnds, Register,
     RegScan, RegNumber, RegAppend
<1> QED BY <1>1, <1>2, <1>3 DEF Next, Terminated, vars

(* A finding is kept only with a round of probes that all match it. *)
THEOREM FindingsWereRepeated == Spec => []ConfirmedWasRepeated
<1>1. Init => ConfirmedWasRepeated BY DEF Init, ConfirmedWasRepeated
<1>2. TypeOK /\ ConfirmedWasRepeated /\ [Next]_vars => ConfirmedWasRepeated'
  <2> SUFFICES ASSUME TypeOK, ConfirmedWasRepeated, [Next]_vars PROVE ConfirmedWasRepeated'
    OBVIOUS
  <2>1. CASE ~Judge BY <2>1, OnlyJudgeConfirms DEF ConfirmedWasRepeated
  <2>2. CASE Judge
    <3>1. PICK i \in left : JudgeCandidate(i) BY <2>2 DEF Judge
    <3> DEFINE c == candidates[i]
    <3>2. c \in Candidate /\ confirmed \in Seq(Candidate) BY <3>1 DEF TypeOK
    <3>3. PICK e \in Evidence(c) :
            /\ results' = results \cup {e}
            /\ \/ UNCHANGED confirmed
               \/ e.status = "confirmed" /\ confirmed' = Append(confirmed, c)
      BY <3>1 DEF JudgeCandidate
    <3>4. /\ e.id = c.id /\ e.risk = c.risk /\ e.test = c.test
          /\ e.status = "confirmed" => e.matches
      BY <3>2, <3>3, EvidenceFacts
    <3> HIDE DEF c
    <3>5. CASE UNCHANGED confirmed BY <3>3, <3>5 DEF ConfirmedWasRepeated
    <3>6. CASE e.status = "confirmed" /\ confirmed' = Append(confirmed, c)
      <4>1. \A k \in DOMAIN confirmed' :
              confirmed'[k] = c \/ (k \in DOMAIN confirmed /\ confirmed'[k] = confirmed[k])
        BY <3>2, <3>6, AppendFacts
      <4> QED BY <3>3, <3>4, <3>6, <4>1 DEF ConfirmedWasRepeated
    <3> QED BY <3>3, <3>5, <3>6
  <2> QED BY <2>1, <2>2
<1> QED BY <1>1, <1>2, CampaignTypes, PTL DEF Spec

(* What the journal holds while the engine lives: the testcase that runs,  *)
(* or nothing, or what the last removal left there.                        *)
JournalInv ==
  /\ engine.at \in {"preflight", "exec"} => pending = engine.test
  /\ engine.at \in {"idle", "exited"} => pending \in {NoTest, ran}
  /\ main \in {"plan", "startup", "launch"} => engine.at = "off"
  /\ JournalNamesCrash

(* Stopping the engine at any point leaves a journal that tells. *)
LEMMA StopKeepsJournal ==
  ASSUME TypeOK, JournalInv, Running, StopEngine, UNCHANGED ran,
         main' \notin {"plan", "startup", "launch"}
  PROVE  JournalInv'
<1> USE CampaignAssumption DEF JournalInv, JournalNamesCrash, TypeOK
<1>1. CASE engine.at = "journal"
  <2>1. engine' = [engine EXCEPT !.at = "cut"] /\ pending' \in Cuts(engine.test)
    BY <1>1 DEF StopEngine
  <2>2. engine'.at = "cut" /\ engine'.test = engine.test BY <2>1
  <2>3. pending' \in Cuts(engine'.test) BY <2>1, <2>2
  <2> QED BY <2>2, <2>3 DEF Cuts
<1>2. CASE engine.at # "journal"
  <2>1. engine' = [engine EXCEPT !.at = "dead"] /\ pending' = pending
    BY <1>2 DEF StopEngine
  <2>2. engine'.at = "dead" /\ engine'.test = engine.test BY <2>1
  <2>3. CASE engine.at = "idle" BY <2>1, <2>2, <2>3
  <2>4. CASE engine.at \in {"preflight", "exec"} BY <2>1, <2>2, <2>4
  <2> QED BY <1>2, <2>3, <2>4 DEF Running
<1> QED BY <1>1, <1>2

(* Every step of the engine keeps what is known of the journal. *)
LEMMA EngineJournal ==
  ASSUME TypeOK, JournalInv, Engine
  PROVE  JournalInv'
<1> USE DEF JournalInv, JournalNamesCrash, TypeOK
<1>1. main' = main BY EngineFrame
<1>2. engine.at # "off"
  BY DEF Engine, OpenJournal, WriteJournal, PreflightStops, PreflightClean, Executed,
         EngineDies, Running, EngineExits
<1>3. main \notin {"plan", "startup", "launch"} BY <1>2
<1>4. ASSUME NEW t \in Tests, OpenJournal(t) PROVE JournalInv'
  BY <1>1, <1>3, <1>4 DEF OpenJournal
<1>5. CASE WriteJournal BY <1>1, <1>3, <1>5 DEF WriteJournal
<1>6. CASE PreflightStops BY <1>1, <1>3, <1>6 DEF PreflightStops, RemoveJournal
<1>7. CASE PreflightClean BY <1>1, <1>3, <1>7 DEF PreflightClean
<1>8. CASE Executed BY <1>1, <1>3, <1>8 DEF Executed, RemoveJournal
<1>9. CASE EngineDies BY <1>1, <1>3, <1>9, StopKeepsJournal DEF EngineDies
<1>10. CASE EngineExits BY <1>1, <1>3, <1>10 DEF EngineExits
<1> QED BY <1>4, <1>5, <1>6, <1>7, <1>8, <1>9, <1>10 DEF Engine

(* The journal of an engine that is gone names what it was running, or is  *)
(* a part of it; its truncation, its writing and its removal are steps of  *)
(* their own, and the removal may fail.                                    *)
THEOREM JournalNamesTheCrash == Spec => []JournalNamesCrash
<1>1. Init => JournalInv BY DEF Init, JournalInv, JournalNamesCrash
<1>2. TypeOK /\ JournalInv /\ [Next]_vars => JournalInv'
  <2> SUFFICES ASSUME TypeOK, JournalInv, [Next]_vars PROVE JournalInv' OBVIOUS
  <2>1. ASSUME UNCHANGED <<engine, pending, ran>>,
               main' \notin {"plan", "startup", "launch"} \/ engine.at = "off"
        PROVE  JournalInv'
    BY <2>1 DEF JournalInv, JournalNamesCrash, Cuts
  <2> USE DEF JournalInv, TypeOK
  <2>2. CASE Launch BY <2>2 DEF Launch, JournalNamesCrash
  <2>3. CASE LaunchFails BY <2>3 DEF LaunchFails, JournalNamesCrash
  <2>4. CASE Engine BY <2>4, EngineJournal
  <2>5. CASE KillEngine BY <2>5, StopKeepsJournal DEF KillEngine
  <2>6. CASE PlanDone \/ StartupDone \/ StartupCandidate
    BY <2>1, <2>6 DEF PlanDone, StartupDone, StartupCandidate
  <2>7. CASE Recovered BY <2>1, <2>7 DEF Recovered, StartConfirmation
  <2>8. CASE Replayed BY <2>1, <2>8 DEF Replayed, StartConfirmation
  <2>9. CASE AfterReplays BY <2>1, <2>9 DEF AfterReplays, StartConfirmation
  <2>10. CASE Final BY <2>1, <2>10 DEF Final, StartConfirmation
  <2>11. CASE Shorten BY <2>1, <2>11, ShortenFacts DEF Shorten
  <2>12. CASE Judge
    <3>1. /\ main' \in {"judge", "repro", "failed", "raised", back}
          /\ UNCHANGED <<engine, pending, ran>>
      BY <2>12 DEF Judge, JudgeCandidate, NextCandidate, Abandon
    <3> QED BY <2>1, <3>1
  <2>13. CASE SaveFinding
    <3>1. /\ main' \in {"judge", "failed", "raised", back}
          /\ UNCHANGED <<engine, pending, ran>>
      BY <2>13 DEF SaveFinding, WriteRepro, NextCandidate, Abandon
    <3> QED BY <2>1, <3>1
  <2>14. CASE Collect \/ JoinAfterKill \/ Join \/ Recover \/ Fail
              \/ ReadSummary \/ ReplayFile \/ Report \/ Return
    <3>1. main' \notin {"plan", "startup", "launch"} /\ UNCHANGED <<engine, pending, ran>>
      BY <2>14 DEF Collect, JoinAfterKill, Join, Recover, Fail, ReadSummary, ReplayFile,
                   Report, Return
    <3> QED BY <2>1, <3>1
  <2>15. ASSUME UNCHANGED <<main, engine, pending, ran>> PROVE JournalInv' BY <2>1, <2>15
  <2>16. CASE Register("main") \/ Register("solver")
    BY <2>15, <2>16 DEF Register, RegScan, RegNumber, RegAppend
  <2>17. CASE Solver /\ ~Register("solver")
    BY <2>15, <2>17 DEF Solver, SolverQuery, SolverCandidate, SolverNoCandidate, SolverEnds
  <2>18. CASE UNCHANGED vars BY <2>15, <2>18 DEF vars
  <2> QED BY <2>2, <2>3, <2>4, <2>5, <2>6, <2>7, <2>8, <2>9, <2>10, <2>11, <2>12, <2>13,
             <2>14, <2>16, <2>17, <2>18 DEF Next, Main, Solver, Terminated
<1>3. JournalInv => JournalNamesCrash BY DEF JournalInv
<1> QED BY <1>1, <1>2, <1>3, CampaignTypes, PTL DEF Spec

-----------------------------------------------------------------------------
(* Nothing is lost: what the last pass found in the list has been judged.  *)

(* Candidate i has a confirmation result of its own, or shares the id of   *)
(* one with a candidate that a solver thread past its join added.          *)
Judged(i) ==
  \E e \in results : e.id = candidates[i].id /\ e.risk = candidates[i].risk

Shared(i) == late /\ \E j \in DOMAIN candidates \ {i} : SameId(candidates[i], candidates[j])

Settled(i) ==
  \E e \in results :
    e.id = candidates[i].id /\ (e.risk = candidates[i].risk \/ Shared(i))

(* Every finding is a candidate that was judged. *)
Founded ==
  \A k \in DOMAIN confirmed : \E j \in DOMAIN candidates :
    candidates[j].id = confirmed[k].id /\ Judged(j)

(* What the running confirmation no longer has to visit is settled, and so *)
(* is everything the last pass found once the passes are over.             *)
EvidenceInv ==
  /\ Founded
  /\ main = "shorten" => \A i \in (1..passed) \ todo : Settled(i)
  /\ main = "judge" => \A i \in (1..passed) \ left : Settled(i)
  /\ main = "repro" => \A i \in (1..passed) \ left : Settled(i)
  /\ main \in {"final", "report", "returning", "done"} => \A i \in 1..passed : Settled(i)

Passing == {"shorten", "judge", "repro"}
Ending == {"final", "report", "returning", "done"}
Confirming(then) == main \in Passing /\ back \in then

(* From the summary on the engine has exited, so its files are fixed; the  *)
(* loop over them ends only when all are replayed.                         *)
EndInv ==
  /\ main \in Passing => back \in {"failed", "replay", "final", "report"}
  /\ main = "join" => engine.at \in {"exited", "dead", "cut"}
  /\ main \in {"summary", "replay", "replaying"} \cup Ending
       \/ Confirming({"replay", "final", "report"})
     => engine.at = "exited"
  /\ main \in Ending \/ Confirming({"final", "report"}) => replays = Len(files)
  /\ main \in Passing \cup Ending => late \/ passed = Len(candidates)
  /\ main \in {"returning", "done"} => report \in 1 + passed .. 1 + Len(candidates)

(* A candidate whose id a finding has is settled: the finding is its own,  *)
(* or two candidates share the id. *)
LEMMA FoundSettled ==
  ASSUME TypeOK, Numbered, Founded, NEW i \in DOMAIN candidates,
         NEW k \in DOMAIN confirmed, confirmed[k].id = candidates[i].id
  PROVE  Settled(i)
<1>1. PICK j \in DOMAIN candidates : candidates[j].id = confirmed[k].id /\ Judged(j)
  BY DEF Founded
<1>2. CASE j = i BY <1>1, <1>2 DEF Judged, Settled
<1>3. CASE j # i
  <2>1. late BY <1>1, <1>3 DEF Numbered
  <2>2. Shared(i) BY <1>1, <1>3, <2>1 DEF Shared, SameId
  <2> QED BY <1>1, <2>2 DEF Judged, Settled
<1> QED BY <1>2, <1>3

(* Steps that leave the candidates and the evidence alone and do not move  *)
(* the confirmation keep what is known of the evidence. *)
LEMMA QuietEvidence ==
  ASSUME EvidenceInv, UNCHANGED <<candidates, results, confirmed>>,
         \/ main' \notin Passing \cup Ending
         \/ UNCHANGED <<main, late, todo, left, passed>>
         \/ UNCHANGED <<late, passed>> /\ main \in Ending /\ main' \in Ending
  PROVE  EvidenceInv'
<1>1. Founded' BY DEF EvidenceInv, Founded, Judged
<1>2. CASE main' \notin Passing \cup Ending
  BY <1>1, <1>2 DEF EvidenceInv, Passing, Ending
<1>3. CASE UNCHANGED <<late, passed>>
  <2>1. \A i \in 1..passed : Settled(i) => Settled(i)' BY <1>3 DEF Settled, Shared, SameId
  <2> QED BY <1>1, <1>2, <1>3, <2>1 DEF EvidenceInv, Passing, Ending
<1> QED BY <1>2, <1>3

(* A registration keeps the evidence: it adds a candidate that is not yet  *)
(* among those of the pass. *)
LEMMA RegisterEvidence ==
  ASSUME TypeOK, EvidenceInv, NEW th \in Threads, Register(th)
  PROVE  EvidenceInv'
<1>1. CASE ~RegAppend(th)
  BY <1>1, QuietEvidence DEF Register, RegScan, RegNumber, candVars, confirmVars
<1>2. CASE RegAppend(th)
  <2>1. reg[th] \in {Idle} \cup Call /\ reg[th].step = "append"
    BY <1>2 DEF RegAppend, TypeOK
  <2>2. reg[th].risk \in Risks /\ reg[th].test \in Tests /\ reg[th].id \in Nat
    BY <2>1, CallFacts
  <2> DEFINE c == [id |-> reg[th].id, risk |-> reg[th].risk, test |-> reg[th].test]
  <2>3. c \in Candidate BY <2>2 DEF Candidate
  <2>4. candidates' = Append(candidates, c) BY <1>2 DEF RegAppend
  <2> HIDE DEF c
  <2>5. candidates \in Seq(Candidate) /\ Len(candidates) \in Nat
        /\ DOMAIN candidates = 1..Len(candidates) /\ passed \in 0..Len(candidates)
    BY DEF TypeOK
  <2>6. /\ DOMAIN candidates \subseteq DOMAIN candidates'
        /\ \A i \in DOMAIN candidates : candidates'[i] = candidates[i]
    BY <2>3, <2>4, <2>5, AppendFacts
  <2>7. UNCHANGED <<main, late, todo, left, passed, results, confirmed>>
    BY <1>2 DEF RegAppend, confirmVars
  <2>8. Founded' BY <2>6, <2>7 DEF EvidenceInv, Founded, Judged
  <2>9. 1..passed \subseteq DOMAIN candidates BY <2>5
  <2>10. \A i \in DOMAIN candidates : Shared(i) => Shared(i)'
    BY <2>6, <2>7 DEF Shared, SameId
  <2>11. \A i \in 1..passed : Settled(i) => Settled(i)'
    BY <2>6, <2>7, <2>9, <2>10 DEF Settled
  <2> QED BY <2>7, <2>8, <2>11 DEF EvidenceInv
<1> QED BY <1>1, <1>2

(* A confirmation starts with everything that is not confirmed. *)
LEMMA StartEvidence ==
  ASSUME IdsInv, EvidenceInv, NEW then \in {"failed", "replay", "final", "report"},
         StartConfirmation(then), UNCHANGED <<candidates, results, confirmed, late>>
  PROVE  EvidenceInv'
<1>1. Founded' BY DEF EvidenceInv, Founded, Judged
<1>2. passed' = Len(candidates) /\ DOMAIN candidates = 1..Len(candidates)
  BY DEF StartConfirmation, IdsInv, TypeOK
<1>3. \A i \in DOMAIN candidates \ Unconfirmed : Settled(i)
  BY FoundSettled DEF IdsInv, EvidenceInv, Unconfirmed, ConfirmedIds
<1>4. \A i \in DOMAIN candidates : Settled(i) => Settled(i)'
  BY DEF Settled, Shared, SameId
<1>5. CASE Unconfirmed = {}
  <2>1. main' = then BY <1>5 DEF StartConfirmation
  <2> QED BY <1>1, <1>2, <1>3, <1>4, <1>5, <2>1 DEF EvidenceInv
<1>6. CASE Unconfirmed # {}
  <2>1. main' = "shorten" /\ todo' = Unconfirmed BY <1>6 DEF StartConfirmation
  <2> QED BY <1>1, <1>2, <1>3, <1>4, <2>1 DEF EvidenceInv
<1> QED BY <1>5, <1>6

(* Shortening changes neither id nor risk, so evidence stays evidence. *)
LEMMA ShortenEvidence ==
  ASSUME TypeOK, EvidenceInv, Shorten
  PROVE  EvidenceInv'
<1> USE ShortenFacts
<1>1. Founded' BY DEF EvidenceInv, Founded, Judged
<1>2. 1..passed \subseteq DOMAIN candidates BY DEF TypeOK
<1>3. \A i \in DOMAIN candidates : Shared(i) => Shared(i)' BY DEF Shared, SameId
<1>4. \A i \in 1..passed : Settled(i) => Settled(i)' BY <1>2, <1>3 DEF Settled
<1> QED BY <1>1, <1>4 DEF EvidenceInv

(* What judging adds to the evidence. *)
LEMMA JudgeFacts ==
  ASSUME TypeOK, NEW i \in left, JudgeCandidate(i)
  PROVE  /\ results \subseteq results'
         /\ \E e \in results' : e.id = candidates[i].id /\ e.risk = candidates[i].risk
<1>1. PICK e \in Evidence(candidates[i]) : results' = results \cup {e} BY DEF JudgeCandidate
<1>2. candidates[i] \in Candidate BY DEF TypeOK
<1>3. e.id = candidates[i].id /\ e.risk = candidates[i].risk BY <1>1, <1>2, EvidenceFacts
<1> QED BY <1>1, <1>3

(* Judging adds the evidence of the candidate it takes off the list. *)
LEMMA JudgeEvidence ==
  ASSUME TypeOK, EvidenceInv, EndInv, Judge
  PROVE  EvidenceInv'
<1>1. PICK i \in left : JudgeCandidate(i) BY DEF Judge
<1>2. /\ candidates[i] \in Candidate /\ confirmed \in Seq(Candidate) /\ i \in DOMAIN candidates
  BY <1>1 DEF TypeOK
<1>3. main = "judge" /\ UNCHANGED <<candidates, late, passed>> /\ back \notin Passing
  BY DEF Judge, EndInv, Passing
<1>4. results \subseteq results'
      /\ \E e \in results' : e.id = candidates[i].id /\ e.risk = candidates[i].risk
  BY <1>1, JudgeFacts
<1>5. Judged(i)' /\ Settled(i)' BY <1>3, <1>4 DEF Judged, Settled
<1>6. \A j \in DOMAIN candidates : Judged(j) => Judged(j)' BY <1>3, <1>4 DEF Judged
<1>7. \A j : Settled(j) => Settled(j)' BY <1>3, <1>4 DEF Settled, Shared, SameId
<1>8. Founded'
  <2>1. \A k \in DOMAIN confirmed' :
          \/ confirmed'[k] = candidates[i]
          \/ k \in DOMAIN confirmed /\ confirmed'[k] = confirmed[k]
    <3>1. confirmed' = confirmed \/ confirmed' = Append(confirmed, candidates[i])
      BY <1>1 DEF JudgeCandidate
    <3>2. CASE confirmed' = confirmed BY <3>2
    <3>3. CASE confirmed' = Append(confirmed, candidates[i])
      <4>1. /\ DOMAIN confirmed = 1..Len(confirmed)
            /\ DOMAIN confirmed' = 1..(Len(confirmed) + 1) /\ Len(confirmed) \in Nat
            /\ confirmed'[Len(confirmed) + 1] = candidates[i]
            /\ \A k \in 1..Len(confirmed) : confirmed'[k] = confirmed[k]
        BY <1>2, <3>3, AppendFacts
      <4> QED BY <4>1
    <3> QED BY <3>1, <3>2, <3>3
  <2>2. \A k \in DOMAIN confirmed : \E j \in DOMAIN candidates :
          candidates[j].id = confirmed[k].id /\ Judged(j)'
    BY <1>6 DEF EvidenceInv, Founded
  <2> SUFFICES ASSUME NEW k \in DOMAIN confirmed'
               PROVE  \E j \in DOMAIN candidates :
                        candidates[j].id = confirmed'[k].id /\ Judged(j)'
    BY <1>3 DEF Founded
  <2>3. CASE confirmed'[k] = candidates[i] BY <1>2, <1>5, <2>3
  <2>4. CASE k \in DOMAIN confirmed /\ confirmed'[k] = confirmed[k] BY <2>2, <2>4
  <2> QED BY <2>1, <2>3, <2>4
<1>9. \A j \in (1..passed) \ (left \ {i}) : Settled(j)' BY <1>3, <1>5, <1>7 DEF EvidenceInv
<1>10. CASE NextCandidate(i)
  <2>1. left' = left \ {i} /\ (main' = "judge" \/ (left = {i} /\ main' = back))
    BY <1>10 DEF NextCandidate
  <2>2. CASE main' = "judge" BY <1>3, <1>8, <1>9, <2>1, <2>2 DEF EvidenceInv
  <2>3. CASE left = {i} /\ main' = back
    <3>1. \A j \in 1..passed : Settled(j)' BY <1>9, <2>3
    <3> QED BY <1>3, <1>8, <2>3, <3>1 DEF EvidenceInv, Passing
  <2> QED BY <2>1, <2>2, <2>3
<1>11. CASE main' = "repro" /\ UNCHANGED left
  BY <1>3, <1>8, <1>9, <1>11 DEF EvidenceInv
<1>12. CASE Abandon BY <1>8, <1>12 DEF EvidenceInv, Abandon
<1> QED BY <1>1, <1>10, <1>11, <1>12 DEF JudgeCandidate

(* The finding whose directory is written is settled. *)
LEMMA SaveEvidence ==
  ASSUME IdsInv, EvidenceInv, EndInv, SaveFinding
  PROVE  EvidenceInv'
<1>1. PICK i \in left : Visited(i) /\ WriteRepro(i) BY DEF SaveFinding
<1>2. /\ main = "repro" /\ UNCHANGED <<candidates, results, confirmed, late, passed>>
      /\ back \notin Passing /\ i \in DOMAIN candidates
  BY <1>1 DEF SaveFinding, EndInv, Passing, IdsInv, TypeOK
<1>3. Founded' BY <1>2 DEF EvidenceInv, Founded, Judged
<1>4. \A j : Settled(j) => Settled(j)' BY <1>2 DEF Settled, Shared, SameId
<1>5. Settled(i)
  <2>1. Len(confirmed) \in DOMAIN confirmed /\ confirmed[Len(confirmed)] = candidates[i]
    BY <1>1, <1>2 DEF IdsInv, Saving
  <2> QED BY <1>2, <2>1, FoundSettled DEF IdsInv, EvidenceInv
<1>6. \A j \in (1..passed) \ (left \ {i}) : Settled(j)' BY <1>2, <1>4, <1>5 DEF EvidenceInv
<1>7. CASE NextCandidate(i)
  <2>1. left' = left \ {i} /\ (main' = "judge" \/ (left = {i} /\ main' = back))
    BY <1>7 DEF NextCandidate
  <2>2. CASE main' = "judge" BY <1>2, <1>3, <1>6, <2>1, <2>2 DEF EvidenceInv
  <2>3. CASE left = {i} /\ main' = back
    <3>1. \A j \in 1..passed : Settled(j)' BY <1>6, <2>3
    <3> QED BY <1>2, <1>3, <2>3, <3>1 DEF EvidenceInv, Passing
  <2> QED BY <2>1, <2>2, <2>3
<1>8. CASE Abandon BY <1>3, <1>8 DEF EvidenceInv, Abandon
<1> QED BY <1>1, <1>7, <1>8 DEF WriteRepro

(* Every step keeps the evidence. *)
LEMMA NextEvidence ==
  ASSUME IdsInv, EvidenceInv, EndInv, [Next]_vars
  PROVE  EvidenceInv'
<1> USE DEF candVars, confirmVars
<1>1. ASSUME UNCHANGED candVars, main' \notin Passing \cup Ending PROVE EvidenceInv'
  BY <1>1, QuietEvidence
<1>2. ASSUME UNCHANGED <<main, late, candVars, confirmVars>> PROVE EvidenceInv'
  BY <1>2, QuietEvidence
<1>3. CASE \/ StartupCandidate \/ PlanDone \/ StartupDone \/ Launch \/ LaunchFails
           \/ KillEngine \/ Collect \/ JoinAfterKill \/ Join \/ Recover
           \/ Fail \/ ReadSummary \/ ReplayFile
  <2>1. UNCHANGED candVars /\ main' \notin Passing \cup Ending
    BY <1>3 DEF StartupCandidate, PlanDone, StartupDone, Launch, LaunchFails, KillEngine,
       Collect, JoinAfterKill, Join, Recover, Fail, ReadSummary, ReplayFile, Passing, Ending
  <2> QED BY <1>1, <2>1
<1>4. CASE Recovered BY <1>4, StartEvidence DEF Recovered
<1>5. CASE Replayed
  <2>1. CASE StartConfirmation("replay") BY <1>5, <2>1, StartEvidence DEF Replayed
  <2>2. CASE main' = "replay" BY <1>1, <1>5, <2>2 DEF Replayed, Passing, Ending
  <2> QED BY <1>5, <2>1, <2>2 DEF Replayed
<1>6. CASE AfterReplays BY <1>6, StartEvidence DEF AfterReplays
<1>7. CASE Final BY <1>7, StartEvidence DEF Final
<1>8. CASE Report \/ Return BY <1>8, QuietEvidence DEF Report, Return, Ending
<1>9. CASE Shorten BY <1>9, ShortenEvidence DEF IdsInv
<1>10. CASE Judge BY <1>10, JudgeEvidence DEF IdsInv
<1>11. CASE SaveFinding BY <1>11, SaveEvidence
<1>12. CASE Register("main") \/ Register("solver")
  BY <1>12, RegisterEvidence DEF Threads, IdsInv
<1>13. CASE Engine BY <1>2, <1>13, EngineFrame
<1>14. CASE Solver /\ ~Register("solver")
  BY <1>2, <1>14 DEF Solver, SolverQuery, SolverCandidate, SolverNoCandidate, SolverEnds
<1>15. CASE UNCHANGED vars BY <1>2, <1>15 DEF vars
<1> QED BY <1>3, <1>4, <1>5, <1>6, <1>7, <1>8, <1>9, <1>10, <1>11, <1>12, <1>13, <1>14, <1>15
       DEF Next, Main, Solver, Terminated

(* A registration leaves the end of the campaign as it is: only a solver   *)
(* thread that outlived its join can still append there. *)
LEMMA RegisterEnd ==
  ASSUME IdsInv, EndInv, NEW th \in Threads, Register(th)
  PROVE  EndInv'
<1>1. UNCHANGED <<main, late, engine, files, replays, back, passed, report>> /\ reg[th] # Idle
  BY DEF Register, RegScan, RegNumber, RegAppend, candVars, confirmVars, Idle
<1>2. Len(candidates') >= Len(candidates) /\ Len(candidates') \in Nat /\ Len(candidates) \in Nat
  <2>1. candidates \in Seq(Candidate) BY DEF IdsInv, TypeOK
  <2>2. CASE candidates' = candidates BY <2>1, <2>2
  <2>3. CASE RegAppend(th)
    <3>1. \E c : candidates' = Append(candidates, c) BY <2>3 DEF RegAppend
    <3> QED BY <2>1, <3>1
  <2> QED BY <2>2, <2>3 DEF Register, RegScan, RegNumber, candVars
<1>3. main \in Passing \cup Ending => late
  BY <1>1 DEF IdsInv, Exclusive, Threads, Passing, Ending
<1>4. report \in Nat /\ passed \in 0..Len(candidates) BY DEF IdsInv, TypeOK
<1>5. main \in {"returning", "done"} => report \in 1 + passed .. 1 + Len(candidates')
  BY <1>2, <1>4 DEF EndInv
<1> QED BY <1>1, <1>3, <1>5 DEF EndInv, Confirming

(* Every step keeps what is known of the end of the campaign. *)
LEMMA NextEnd ==
  ASSUME IdsInv, EndInv, [Next]_vars
  PROVE  EndInv'
<1>0. /\ main \in MainPoints /\ back \in {"failed", "replay", "final", "report", "done"}
      /\ passed \in 0..Len(candidates) /\ Len(candidates) \in Nat
  BY DEF IdsInv, TypeOK
<1> USE <1>0 DEF EndInv, Confirming, candVars, confirmVars, Passing, Ending
<1>1. CASE StartupCandidate BY <1>1 DEF StartupCandidate
<1>2. CASE PlanDone BY <1>2 DEF PlanDone
<1>3. CASE StartupDone BY <1>3 DEF StartupDone
<1>4. CASE Launch BY <1>4 DEF Launch
<1>5. CASE LaunchFails BY <1>5 DEF LaunchFails
<1>6. CASE KillEngine BY <1>6 DEF KillEngine
<1>7. CASE Collect BY <1>7 DEF Collect, Gone
<1>8. CASE JoinAfterKill BY <1>8 DEF JoinAfterKill
<1>9. CASE Join BY <1>9 DEF Join, Gone
<1>10. CASE Recover BY <1>10 DEF Recover
<1>11. CASE Recovered BY <1>11 DEF Recovered, StartConfirmation
<1>12. CASE Fail BY <1>12 DEF Fail
<1>13. CASE ReadSummary BY <1>13 DEF ReadSummary
<1>14. CASE ReplayFile BY <1>14 DEF ReplayFile
<1>15. CASE Replayed BY <1>15 DEF Replayed, StartConfirmation
<1>16. CASE AfterReplays BY <1>16 DEF AfterReplays, StartConfirmation
<1>17. CASE Final BY <1>17 DEF Final, StartConfirmation
<1>18. CASE Report BY <1>18 DEF Report, WriteReport
<1>19. CASE Return BY <1>19 DEF Return
<1>20. CASE Shorten BY <1>20, ShortenFacts DEF Shorten, IdsInv
<1>21. CASE Judge
  <2>1. /\ main = "judge" /\ main' \in {"judge", "repro", "failed", "raised", back}
        /\ UNCHANGED <<late, engine, files, replays, candidates, back, passed, report>>
    BY <1>21 DEF Judge, JudgeCandidate, NextCandidate, Abandon
  <2> QED BY <2>1
<1>22. CASE SaveFinding
  <2>1. /\ main = "repro" /\ main' \in {"judge", "failed", "raised", back}
        /\ UNCHANGED <<late, engine, files, replays, candidates, back, passed, report>>
    BY <1>22 DEF SaveFinding, WriteRepro, NextCandidate, Abandon
  <2> QED BY <2>1
<1>23. CASE Register("main") \/ Register("solver") BY <1>23, RegisterEnd DEF Threads
<1>24. CASE Engine
  <2>1. engine.at \notin {"exited", "dead", "cut"} BY <1>24
    DEF Engine, OpenJournal, WriteJournal, PreflightStops, PreflightClean, Executed,
        EngineDies, Running, EngineExits
  <2>2. UNCHANGED <<main, late, back, passed, candidates, report>> BY <1>24, EngineFrame
  <2> QED BY <2>1, <2>2
<1>25. CASE Solver /\ ~Register("solver")
  BY <1>25 DEF Solver, SolverQuery, SolverCandidate, SolverNoCandidate, SolverEnds
<1>26. CASE UNCHANGED vars BY <1>26 DEF vars
<1> QED BY <1>1, <1>2, <1>3, <1>4, <1>5, <1>6, <1>7, <1>8, <1>9, <1>10, <1>11, <1>12, <1>13,
           <1>14, <1>15, <1>16, <1>17, <1>18, <1>19, <1>20, <1>21, <1>22, <1>23, <1>24,
           <1>25, <1>26
       DEF Next, Main, Solver, Terminated

(* A campaign that ends normally has replayed every file of the engine and *)
(* judged every candidate its last pass found; only a solver thread that   *)
(* outlived its join can add one after that pass.                          *)
THEOREM NothingIsLost == Spec => []NothingLost
<1>1. Init => EvidenceInv /\ EndInv
  BY DEF Init, EvidenceInv, Founded, EndInv, Confirming, Passing, Ending
<1>2. IdsInv /\ EvidenceInv /\ EndInv /\ [Next]_vars => (EvidenceInv /\ EndInv)'
  BY NextEvidence, NextEnd
<1>3. EvidenceInv /\ EndInv => NothingLost
  BY DEF EvidenceInv, EndInv, NothingLost, Settled, Shared, Passing, Ending
<1> QED BY <1>1, <1>2, <1>3, IdsInvariant, PTL DEF Spec
=============================================================================
