-------------------------- MODULE HybridLoop_proofs --------------------------
(***************************************************************************)
(* Proofs about HybridLoop, for any number of tasks, any budgets and any   *)
(* interleaving of the engine and the solver.                              *)
(***************************************************************************)
EXTENDS HybridLoop, FiniteSetTheorems, SequenceTheorems, TLAPS

-----------------------------------------------------------------------------
(* Type correctness of the engine's half.                                  *)

(* The task at a turn is a task. *)
LEMMA TaskAtType ==
  ASSUME cursor \in Nat, NEW k \in Turns
  PROVE  /\ TaskAt(k) \in Tasks
         /\ (cursor + k + 1) % NTasks \in Nat
<1>1. NTasks \in Nat BY FilesAssumption
<1>2. k \in Nat /\ NTasks > 0 BY <1>1 DEF Turns
<1>3. \A n \in Nat : n % NTasks \in 0..(NTasks - 1) BY <1>1, <1>2
<1> QED BY <1>1, <1>2, <1>3 DEF TaskAt, Tasks

(* Retaining a prefix keeps the types of the store and of the queue. *)
LEMMA RememberType ==
  ASSUME prefixes \subseteq Prefix, nextPrefix \in Nat, queue \in Seq(QueueRecord),
         torn \in BOOLEAN, torn => queue # <<>>,
         NEW source \in Sources, NEW t \in Tasks \cup {NoTask}, NEW d \in 0..MaxDistance,
         Remember(source, t, d)
  PROVE  /\ prefixes' \subseteq Prefix /\ nextPrefix' \in Nat
         /\ queue' \in Seq(QueueRecord)
         /\ torn' \in BOOLEAN /\ (torn' => queue' # <<>>)
<1>1. CASE ~CanRemember(source) BY <1>1 DEF Remember, prefixVars
<1>2. CASE CanRemember(source)
  <2>1. [id |-> nextPrefix, task |-> t, source |-> source] \in Prefix BY DEF Prefix
  <2>2. Store(source, t) BY <1>2 DEF Remember
  <2>3. prefixes' \subseteq Prefix /\ nextPrefix' \in Nat BY <2>1, <2>2 DEF Store
  <2>4. CASE Queued(source, t, d) /\ Enqueue(source, t)
    <3>1. [prefix |-> nextPrefix, task |-> t, reach |-> source = "relevant_reach"] \in QueueRecord
      BY <2>4 DEF Queued, QueueRecord
    <3>2. queue' \in Seq(QueueRecord) /\ queue' # <<>> BY <2>4, <3>1 DEF Enqueue
    <3>3. torn' = TRUE BY <2>4 DEF Enqueue
    <3> QED BY <2>3, <3>2, <3>3
  <2>5. CASE UNCHANGED <<queue, torn>> BY <2>3, <2>5
  <2> QED BY <1>2, <2>4, <2>5 DEF Remember
<1> QED BY <1>1, <1>2

(* Every step of the engine keeps its own types and those of the files. *)
LEMMA StageTypes ==
  ASSUME FilesTypeOK, StageTypeOK, StageStep \/ TimeUp \/ StageDies
  PROVE  FilesTypeOK' /\ StageTypeOK'
<1> USE FilesAssumption, StageAssumption
<1>0. /\ NoTask \in Tasks \cup {NoTask} /\ NoInput \in Input /\ NoResult \in Result
  BY DEF NoInput, Input, NoResult, Result, NoQuery
<1>1. CASE SelectTask
  <2>1. PICK k \in Turns : /\ cursor' = (cursor + k + 1) % NTasks
                           /\ active' = TaskAt(k) /\ scheduled' = TaskAt(k)
    BY <1>1 DEF SelectTask
  <2>2. cursor' \in Nat /\ active' \in Tasks /\ scheduled' \in Tasks
    BY <2>1, TaskAtType DEF StageTypeOK
  <2> QED BY <1>1, <2>2 DEF SelectTask, FilesTypeOK, StageTypeOK, fileVars, seedVars, prefixVars
<1>2. CASE SelectNone
  BY <1>0, <1>2 DEF SelectNone, FilesTypeOK, StageTypeOK, fileVars, seedVars, prefixVars
<1>3. CASE TimeUp
  BY <1>3 DEF TimeUp, FilesTypeOK, StageTypeOK, fileVars, seedVars, prefixVars, scheduleVars
<1>4. CASE StageDies
  BY <1>4 DEF StageDies, FilesTypeOK, StageTypeOK, fileVars, seedVars, prefixVars, scheduleVars
<1>5. CASE IngestSeed
  <2>1. nextSeed \in Nat \ {0} BY DEF StageTypeOK
  <2>2. nextSeed' \in Nat \ {0} BY <1>5, <2>1 DEF IngestSeed
  <2>3. rejected' \subseteq Nat BY <1>5, <2>1 DEF IngestSeed, StageTypeOK
  <2>4. at' \in {"ingest", "metadata"} BY <1>5 DEF IngestSeed
  <2>5. FilesTypeOK' BY <1>5 DEF IngestSeed, FilesTypeOK, fileVars
  <2>6. StageTypeOK'
    BY <1>5, <2>2, <2>3, <2>4 DEF IngestSeed, StageTypeOK, prefixVars, scheduleVars
  <2> QED BY <2>5, <2>6
<1>6. CASE ReadMetadata
  <2>1. PICK m \in MetadataOf(nextSeed - 1) : waiting' = PushBack(m)
    BY <1>6 DEF ReadMetadata
  <2>2. m \in Input
    <3>1. CASE m \in meta
      <4>1. m \in SeedFile BY <3>1 DEF FilesTypeOK
      <4> QED BY <4>1 DEF SeedFile, Input
    <3>2. CASE m = [id |-> nextSeed - 1, query |-> NoQuery, task |-> NoTask]
      BY <3>2 DEF StageTypeOK, Input, NoQuery
    <3> QED BY <3>1, <3>2 DEF MetadataOf
  <2>3. waiting' \in Seq(Input) BY <2>1, <2>2 DEF PushBack, StageTypeOK
  <2> QED BY <1>6, <2>3 DEF ReadMetadata, FilesTypeOK, StageTypeOK, fileVars, seedVars, prefixVars, scheduleVars
<1>7. CASE NextInput
  <2>1. CASE SolverIsNext
    <3>1. waiting \in Seq(Input) /\ waiting # <<>> BY <2>1 DEF SolverIsNext, StageTypeOK
    <3>2. Head(waiting) \in Input /\ Tail(waiting) \in Seq(Input) BY <3>1
    <3>3. /\ current' = Head(waiting) /\ waiting' = Tail(waiting)
          /\ active' = ActiveFor(Head(waiting))
          /\ ran' = Append(ran, Head(waiting).id)
      BY <1>7, <2>1 DEF NextInput
    <3>4. Head(waiting).id \in Nat /\ Head(waiting).task \in Tasks \cup {NoTask}
      BY <3>2 DEF Input
    <3>5. active' \in Tasks \cup {NoTask} BY <3>3, <3>4 DEF ActiveFor, StageTypeOK
    <3>6. ran' \in Seq(Nat) BY <3>3, <3>4 DEF StageTypeOK
    <3> QED BY <1>7, <3>2, <3>3, <3>5, <3>6
          DEF NextInput, FilesTypeOK, StageTypeOK, fileVars, prefixVars
  <2>2. CASE ~SolverIsNext
    BY <1>0, <1>7, <2>2 DEF NextInput, FilesTypeOK, StageTypeOK, fileVars, prefixVars
  <2> QED BY <2>1, <2>2
<1>8. CASE RunStops
  BY <1>0, <1>8 DEF RunStops, Count, FilesTypeOK, StageTypeOK, fileVars, seedVars, prefixVars, scheduleVars
<1>9. CASE RunEnds
  <2>1. PICK hits \in SUBSET Tasks, reach \in SUBSET Reachable, d \in 0..MaxDistance, new \in BOOLEAN :
          /\ reached' = reached \cup hits
          /\ result' = [reach |-> IF IsSolverSeed THEN {} ELSE (reach \ reached') \ reaches,
                        distance |-> d,
                        improved |-> TaskOfRun # NoTask /\ d < best[TaskOfRun],
                        new |-> new,
                        goals |-> FirstHits(hits) \cap Exact]
    BY <1>9 DEF RunEnds
  <2>2. reach \subseteq Tasks /\ FirstHits(hits) \cap Exact \subseteq Tasks BY DEF FirstHits
  <2>3. (IF IsSolverSeed THEN {} ELSE (reach \ reached') \ reaches) \in SUBSET Tasks BY <2>2
  <2>4. (TaskOfRun # NoTask /\ d < best[TaskOfRun]) \in BOOLEAN OBVIOUS
  <2>5. FirstHits(hits) \cap Exact \in SUBSET Tasks BY <2>2
  <2>6. result' \in Result BY <2>1, <2>3, <2>4, <2>5 DEF Result
  <2>7. reached' \subseteq Tasks BY <2>1 DEF StageTypeOK
  <2>8. attempts' \in [Tasks -> Nat] /\ executions' \in Nat
    BY <1>9 DEF RunEnds, Count, StageTypeOK
  <2> QED BY <1>9, <2>6, <2>7, <2>8
        DEF RunEnds, FilesTypeOK, StageTypeOK, fileVars, seedVars, prefixVars, scheduleVars
<1>10. CASE FinishLine
  BY <1>10 DEF FinishLine, FilesTypeOK, StageTypeOK, stageVars
<1>11. CASE RememberReach
  <2>1. PICK t \in result.reach : /\ reaches' = reaches \cup {t}
                                  /\ Remember("relevant_reach", t, MaxDistance)
                                  /\ result' = [result EXCEPT !.reach = @ \ {t}]
    BY <1>11 DEF RememberReach
  <2>2. result \in Result BY DEF StageTypeOK
  <2>3. t \in Tasks /\ result' \in Result BY <2>1, <2>2 DEF Result
  <2>4. MaxDistance \in 0..MaxDistance /\ "relevant_reach" \in Sources BY DEF Sources
  <2>5. /\ prefixes' \subseteq Prefix /\ nextPrefix' \in Nat
        /\ queue' \in Seq(QueueRecord)
        /\ torn' \in BOOLEAN /\ (torn' => queue' # <<>>)
    BY <2>1, <2>3, <2>4, RememberType DEF FilesTypeOK, StageTypeOK
  <2>6. reaches' \subseteq Tasks BY <2>1, <2>3 DEF StageTypeOK
  <2>7. FilesTypeOK' BY <1>11, <2>5 DEF RememberReach, FilesTypeOK
  <2>8. StageTypeOK'
    BY <1>11, <2>3, <2>5, <2>6 DEF RememberReach, StageTypeOK, seedVars, scheduleVars
  <2> QED BY <2>7, <2>8
<1>12. CASE RememberDistance
  <2>1. result \in Result BY DEF StageTypeOK
  <2>2. result.distance \in 0..MaxDistance BY <2>1 DEF Result
  <2>3. active \in Tasks \cup {NoTask} /\ "fuzz" \in Sources BY DEF StageTypeOK, Sources
  <2>4. \/ Remember("fuzz", active, result.distance)
        \/ UNCHANGED <<prefixVars, queue, torn>>
    BY <1>12 DEF RememberDistance
  <2>5. /\ prefixes' \subseteq Prefix /\ nextPrefix' \in Nat
        /\ queue' \in Seq(QueueRecord)
        /\ torn' \in BOOLEAN /\ (torn' => queue' # <<>>)
    <3>1. CASE UNCHANGED <<prefixVars, queue, torn>>
      BY <3>1 DEF FilesTypeOK, StageTypeOK, prefixVars
    <3>2. CASE Remember("fuzz", active, result.distance)
      BY <2>2, <2>3, <3>2, RememberType DEF FilesTypeOK, StageTypeOK
    <3> QED BY <2>4, <3>1, <3>2
  <2>6. best' \in [Tasks -> 0..MaxDistance]
    BY <1>12, <2>2 DEF RememberDistance, StageTypeOK
  <2>7. FilesTypeOK' BY <1>12, <2>5 DEF RememberDistance, FilesTypeOK
  <2>8. StageTypeOK'
    BY <1>12, <2>5, <2>6 DEF RememberDistance, StageTypeOK, seedVars, scheduleVars
  <2> QED BY <2>7, <2>8
<1>13. CASE Retain
  <2>1. result \in Result BY DEF StageTypeOK
  <2>2. result.distance \in 0..MaxDistance BY <2>1 DEF Result
  <2>3. active \in Tasks \cup {NoTask} /\ {"solver", "state_novelty", "random"} \subseteq Sources
    BY DEF StageTypeOK, Sources
  <2>4. \/ \E source \in Sources : Remember(source, active, result.distance)
        \/ UNCHANGED <<prefixVars, queue, torn>>
    BY <1>13, <2>3 DEF Retain
  <2>5. /\ prefixes' \subseteq Prefix /\ nextPrefix' \in Nat
        /\ queue' \in Seq(QueueRecord)
        /\ torn' \in BOOLEAN /\ (torn' => queue' # <<>>)
    <3>1. CASE UNCHANGED <<prefixVars, queue, torn>>
      BY <3>1 DEF FilesTypeOK, StageTypeOK, prefixVars
    <3>2. ASSUME NEW source \in Sources, Remember(source, active, result.distance)
          PROVE  /\ prefixes' \subseteq Prefix /\ nextPrefix' \in Nat
                 /\ queue' \in Seq(QueueRecord)
                 /\ torn' \in BOOLEAN /\ (torn' => queue' # <<>>)
      BY <2>2, <2>3, <3>2, RememberType DEF FilesTypeOK, StageTypeOK
    <3> QED BY <2>4, <3>1, <3>2
  <2>7. FilesTypeOK' BY <1>13, <2>5 DEF Retain, FilesTypeOK
  <2>8. StageTypeOK' BY <1>13, <2>5 DEF Retain, StageTypeOK, seedVars, scheduleVars
  <2> QED BY <2>7, <2>8
<1>14. CASE WriteGoal
  <2>1. PICK t \in result.goals : /\ found' = Append(found, t)
                                  /\ goals' = goals \cup {t}
                                  /\ result' = [result EXCEPT !.goals = @ \ {t}]
    BY <1>14 DEF WriteGoal
  <2>2. result \in Result BY DEF StageTypeOK
  <2>3. t \in Tasks /\ result' \in Result BY <2>1, <2>2 DEF Result
  <2>4. found' \in Seq(Tasks) BY <2>1, <2>3 DEF StageTypeOK
  <2>5. goals' \subseteq Tasks BY <2>1, <2>3 DEF FilesTypeOK
  <2>7. FilesTypeOK' BY <1>14, <2>5 DEF WriteGoal, FilesTypeOK
  <2>8. StageTypeOK' BY <1>14, <2>3, <2>4 DEF WriteGoal, StageTypeOK, seedVars, scheduleVars, prefixVars
  <2> QED BY <2>7, <2>8
<1>15. CASE EndIteration
  BY <1>0, <1>15 DEF EndIteration, FilesTypeOK, StageTypeOK, fileVars, seedVars, prefixVars, scheduleVars
<1> QED BY <1>1, <1>2, <1>3, <1>4, <1>5, <1>6, <1>7, <1>8, <1>9, <1>10, <1>11, <1>12,
           <1>13, <1>14, <1>15 DEF StageStep

-----------------------------------------------------------------------------
(* Type correctness of the solver's half.                                  *)

(* A claim keeps the types of the two budgets. *)
LEMMA ClaimType ==
  ASSUME SolverTypeOK, NEW t \in Tasks, Claim(t)
  PROVE  /\ used' \in 0..MaxQueries
         /\ claimed' \in [Tasks -> Nat]
         /\ QueryFor(t) \in Query
         /\ QueryFor(t).id # NoQuery /\ QueryFor(t).task # NoTask
<1>1. used \in Nat /\ used < MaxQueries /\ MaxQueries \in Nat /\ MaxExtra \in Nat
  BY SolverAssumption DEF SolverTypeOK, Claim, MayClaim
<1>2. used' \in 0..MaxQueries /\ claimed' \in [Tasks -> Nat]
  BY <1>1 DEF SolverTypeOK, Claim
<1>3. used + 1 \in Nat /\ used + 1 # 0 /\ 0 \in 0..(MaxExtra + 1) BY <1>1
<1>4. t # 0 BY FilesAssumption DEF Tasks
<1> QED BY <1>2, <1>3, <1>4 DEF QueryFor, Query, NoQuery, NoTask

(* A record of the queue has a key. *)
LEMMA KeyType ==
  ASSUME NEW r \in QueueRecord
  PROVE  Key(r) \in Keys /\ r.task \in Tasks
BY DEF QueueRecord, Key, Keys

(* A record that is taken up is marked and leaves the batch. *)
LEMMA VisitType ==
  ASSUME FilesTypeOK, SolverTypeOK, NEW r \in batch, Visit(r)
  PROVE  /\ r.task \in Tasks /\ Key(r) \in Keys
         /\ batch' \subseteq QueueRecord
         /\ seen' \subseteq Keys /\ unread' \subseteq Keys
<1>1. r \in QueueRecord BY DEF SolverTypeOK
<1>2. Key(r) \in Keys /\ r.task \in Tasks BY <1>1, KeyType
<1> QED BY <1>2 DEF Visit, Takes, SeenWith, SolverTypeOK

(* A decision also records the key and the goals that are known. *)
LEMMA DecideType ==
  ASSUME FilesTypeOK, SolverTypeOK, NEW r \in batch, Decides(r)
  PROVE  /\ r.task \in Tasks
         /\ batch' \subseteq QueueRecord
         /\ seen' \subseteq Keys /\ unread' \subseteq Keys
         /\ decided' \subseteq Keys /\ known' \subseteq Tasks
<1>1. Visit(r) BY DEF Decides
<1>2. /\ r.task \in Tasks /\ Key(r) \in Keys /\ batch' \subseteq QueueRecord
      /\ seen' \subseteq Keys /\ unread' \subseteq Keys
  BY <1>1, VisitType
<1> QED BY <1>2 DEF Decides, KnownNow, SolverTypeOK, FilesTypeOK

(* A testcase is offered: one less is left. *)
LEMMA OneLessType ==
  ASSUME query \in Query, query.left > 0, OneLess
  PROVE  query' \in Query /\ query'.id = query.id /\ query'.task = query.task
BY SolverAssumption DEF OneLess, Query

(* Every step of the solver keeps its own types and those of the files. *)
LEMMA SolverTypes ==
  ASSUME FilesTypeOK, SolverTypeOK, SolverStep
  PROVE  FilesTypeOK' /\ SolverTypeOK'
<1> USE FilesAssumption, SolverAssumption
<1>0. NoRecord \in Query BY DEF NoRecord, Query, NoQuery
<1>1. CASE StartupQuery
  <2>1. PICK t \in unasked : /\ Claim(t) /\ unasked' = unasked \ {t} /\ turn' = t
                             /\ query' = QueryFor(t)
    BY <1>1 DEF StartupQuery
  <2>2. t \in Tasks BY DEF SolverTypeOK
  <2>3. FilesTypeOK' BY <1>1 DEF StartupQuery, FilesTypeOK, fileVars
  <2>4. /\ used' \in 0..MaxQueries /\ claimed' \in [Tasks -> Nat] /\ query' \in Query
        /\ query'.id # NoQuery /\ query'.task # NoTask
    BY <2>1, <2>2, ClaimType
  <2>5. unasked' \subseteq Tasks /\ turn' \in Tasks \cup {NoTask} BY <2>1, <2>2 DEF SolverTypeOK
  <2>6. SolverTypeOK' BY <1>1, <2>4, <2>5 DEF StartupQuery, SolverTypeOK, recordVars
  <2> QED BY <2>3, <2>6
<1>2. CASE StartupAnchor
  <2>1. turn \in Tasks /\ Claim(turn) BY <1>2 DEF StartupAnchor, SolverTypeOK
  <2>2. query' = QueryFor(turn) BY <1>2 DEF StartupAnchor
  <2>3. FilesTypeOK' BY <1>2 DEF StartupAnchor, FilesTypeOK, fileVars
  <2>4. /\ used' \in 0..MaxQueries /\ claimed' \in [Tasks -> Nat] /\ query' \in Query
        /\ query'.id # NoQuery /\ query'.task # NoTask
    BY <2>1, <2>2, ClaimType
  <2>6. SolverTypeOK' BY <1>2, <2>4 DEF StartupAnchor, SolverTypeOK, recordVars
  <2> QED BY <2>3, <2>6
<1>3. CASE Poll
  <2>1. CompleteLines \subseteq QueueRecord BY DEF CompleteLines, FilesTypeOK
  <2>2. batch' \subseteq QueueRecord BY <1>3, <2>1 DEF Poll
  <2>3. FilesTypeOK' BY <1>3 DEF Poll, FilesTypeOK, fileVars
  <2>4. SolverTypeOK' BY <1>3, <2>2 DEF Poll, SolverTypeOK, budgetVars, startVars
  <2> QED BY <2>3, <2>4
<1>4. CASE EndBatch
  BY <1>4 DEF EndBatch, FilesTypeOK, SolverTypeOK, fileVars, budgetVars, startVars, recordVars
<1>5. CASE VisitSkips
  <2>1. PICK r \in batch : Decides(r) BY <1>5 DEF VisitSkips
  <2>2. /\ batch' \subseteq QueueRecord
        /\ seen' \subseteq Keys /\ unread' \subseteq Keys
        /\ decided' \subseteq Keys /\ known' \subseteq Tasks
    BY <2>1, DecideType
  <2>3. FilesTypeOK' BY <1>5 DEF VisitSkips, FilesTypeOK, fileVars
  <2>4. SolverTypeOK' BY <1>5, <2>2 DEF VisitSkips, SolverTypeOK, budgetVars, startVars
  <2> QED BY <2>3, <2>4
<1>6. CASE VisitClaims
  <2>1. PICK r \in batch : /\ Decides(r) /\ Claim(r.task)
                           /\ asked' = Append(asked, Key(r))
                           /\ queries' = [queries EXCEPT ![r.task] = @ + 1]
                           /\ query' = QueryFor(r.task)
    BY <1>6 DEF VisitClaims
  <2>2. /\ r.task \in Tasks /\ batch' \subseteq QueueRecord
        /\ seen' \subseteq Keys /\ unread' \subseteq Keys
        /\ decided' \subseteq Keys /\ known' \subseteq Tasks
    BY <2>1, DecideType
  <2>3. FilesTypeOK' BY <1>6 DEF VisitClaims, FilesTypeOK, fileVars
  <2>4. /\ used' \in 0..MaxQueries /\ claimed' \in [Tasks -> Nat] /\ query' \in Query
        /\ query'.id # NoQuery /\ query'.task # NoTask
    BY <2>1, <2>2, ClaimType
  <2>5. r \in QueueRecord BY DEF SolverTypeOK
  <2>6. asked' \in Seq(Keys) BY <2>1, <2>5, KeyType DEF SolverTypeOK
  <2>7. queries' \in [Tasks -> Nat] BY <2>1, <2>2 DEF SolverTypeOK
  <2>8. SolverTypeOK' BY <1>6, <2>2, <2>4, <2>6, <2>7 DEF VisitClaims, SolverTypeOK, startVars
  <2> QED BY <2>3, <2>8
<1>7. CASE VisitExhausts
  <2>1. PICK r \in batch : Decides(r) BY <1>7 DEF VisitExhausts
  <2>2. /\ batch' \subseteq QueueRecord
        /\ seen' \subseteq Keys /\ unread' \subseteq Keys
        /\ decided' \subseteq Keys /\ known' \subseteq Tasks
    BY <2>1, DecideType
  <2>3. FilesTypeOK' BY <1>7 DEF VisitExhausts, FilesTypeOK, fileVars
  <2>4. SolverTypeOK' BY <1>7, <2>2 DEF VisitExhausts, SolverTypeOK, budgetVars, startVars
  <2> QED BY <2>3, <2>4
<1>8. CASE SolverStops
  BY <1>8 DEF SolverStops, WhyStopped, FilesTypeOK, SolverTypeOK, fileVars, budgetVars, startVars, recordVars
<1>9. CASE QueryFails
  BY <1>0, <1>9
    DEF QueryFails, Back, FilesTypeOK, SolverTypeOK, fileVars, budgetVars, startVars, recordVars
<1>10. CASE QueryAnswers
  <2>1. PICK hit \in BOOLEAN, extra \in 0..MaxExtra :
          query' = [query EXCEPT !.hit = hit, !.left = IF hit THEN extra ELSE extra + 1]
    BY <1>10 DEF QueryAnswers
  <2>2. query \in Query /\ query.id # NoQuery /\ query.task # NoTask
    BY <1>10 DEF QueryAnswers, SolverTypeOK
  <2>3. (IF hit THEN extra ELSE extra + 1) \in 0..(MaxExtra + 1) OBVIOUS
  <2>4. query' \in Query /\ query'.id = query.id /\ query'.task = query.task
    BY <2>1, <2>2, <2>3 DEF Query
  <2>5. FilesTypeOK' BY <1>10 DEF QueryAnswers, FilesTypeOK, fileVars
  <2>6. SolverTypeOK'
    BY <1>10, <2>2, <2>4 DEF QueryAnswers, SolverTypeOK, budgetVars, startVars, recordVars
  <2> QED BY <2>5, <2>6
<1>11. CASE OfferRejected
  <2>1. query \in Query /\ query.left > 0 /\ OneLess /\ query.id # NoQuery /\ query.task # NoTask
    BY <1>11 DEF OfferRejected, SolverTypeOK
  <2>2. query' \in Query /\ query'.id = query.id /\ query'.task = query.task
    BY <2>1, OneLessType
  <2>3. FilesTypeOK' BY <1>11 DEF OfferRejected, FilesTypeOK, fileVars
  <2>4. SolverTypeOK'
    BY <1>11, <2>1, <2>2 DEF OfferRejected, SolverTypeOK, budgetVars, startVars, recordVars
  <2> QED BY <2>3, <2>4
<1>12. CASE OfferMetadata
  <2>1. query \in Query /\ query.id # NoQuery /\ query.task # NoTask
    BY <1>12 DEF OfferMetadata, SolverTypeOK
  <2>2. NewFile \in SeedFile BY <2>1 DEF NewFile, SeedFile, Query, NoQuery, NoTask, SolverTypeOK
  <2>3. FilesTypeOK' BY <1>12, <2>2 DEF OfferMetadata, FilesTypeOK
  <2>4. SolverTypeOK'
    BY <1>12 DEF OfferMetadata, SolverTypeOK, budgetVars, startVars, recordVars
  <2> QED BY <2>3, <2>4
<1>13. CASE OfferSeed
  <2>1. query \in Query /\ query.left > 0 /\ OneLess /\ query.id # NoQuery /\ query.task # NoTask
    BY <1>13 DEF OfferSeed, SolverTypeOK
  <2>2. query' \in Query /\ query'.id = query.id /\ query'.task = query.task
    BY <2>1, OneLessType
  <2>3. NewFile \in SeedFile BY <2>1 DEF NewFile, SeedFile, Query, NoQuery, NoTask, SolverTypeOK
  <2>4. FilesTypeOK' BY <1>13, <2>3 DEF OfferSeed, FilesTypeOK
  <2>5. nextId' \in Nat \ {0} BY <1>13 DEF OfferSeed, SolverTypeOK
  <2>6. SolverTypeOK'
    BY <1>13, <2>1, <2>2, <2>5 DEF OfferSeed, SolverTypeOK, budgetVars, startVars, recordVars
  <2> QED BY <2>4, <2>6
<1>14. CASE OfferFails
  <2>1. query \in Query /\ query.left > 0 /\ OneLess /\ query.id # NoQuery /\ query.task # NoTask
    BY <1>14 DEF OfferFails, SolverTypeOK
  <2>2. query' \in Query /\ query'.id = query.id /\ query'.task = query.task
    BY <2>1, OneLessType
  <2>4. FilesTypeOK' BY <1>14 DEF OfferFails, FilesTypeOK
  <2>5. nextId' \in Nat \ {0} BY <1>14 DEF OfferFails, NumberAfterFailure, SolverTypeOK
  <2>6. SolverTypeOK'
    BY <1>14, <2>1, <2>2, <2>5 DEF OfferFails, SolverTypeOK, budgetVars, startVars, recordVars
  <2> QED BY <2>4, <2>6
<1>15. CASE EndQuery
  <2>1. query \in Query /\ query.task # NoTask BY <1>15 DEF EndQuery, SolverTypeOK
  <2>2. query.task \in Tasks BY <2>1 DEF Query
  <2>3. goals' \subseteq Tasks BY <1>15, <2>2 DEF EndQuery, FilesTypeOK
  <2>4. FilesTypeOK' BY <1>15, <2>3 DEF EndQuery, FilesTypeOK
  <2>5. SolverTypeOK'
    BY <1>0, <1>15 DEF EndQuery, Back, SolverTypeOK, budgetVars, recordVars
  <2> QED BY <2>4, <2>5
<1>16. CASE VisitFails
  <2>1. PICK r \in batch : batch' = batch \ {r} /\ unread' = unread \cup {Key(r)}
    BY <1>16 DEF VisitFails, Takes
  <2>2. Key(r) \in Keys BY KeyType DEF SolverTypeOK
  <2>3. batch' \subseteq QueueRecord /\ unread' \subseteq Keys BY <2>1, <2>2 DEF SolverTypeOK
  <2>4. FilesTypeOK' BY <1>16 DEF VisitFails, FilesTypeOK, fileVars
  <2>5. SolverTypeOK' BY <1>16, <2>3 DEF VisitFails, SolverTypeOK, budgetVars, startVars
  <2> QED BY <2>4, <2>5
<1>17. CASE VisitPasses
  <2>1. PICK r \in batch : Visit(r) /\ decided' = decided \cup {Key(r)}
    BY <1>17 DEF VisitPasses
  <2>2. /\ r.task \in Tasks /\ Key(r) \in Keys /\ batch' \subseteq QueueRecord
        /\ seen' \subseteq Keys /\ unread' \subseteq Keys
    BY <2>1, VisitType
  <2>3. decided' \subseteq Keys BY <2>1, <2>2 DEF SolverTypeOK
  <2>4. FilesTypeOK' BY <1>17 DEF VisitPasses, FilesTypeOK, fileVars
  <2>5. SolverTypeOK' BY <1>17, <2>2, <2>3 DEF VisitPasses, SolverTypeOK, budgetVars, startVars
  <2> QED BY <2>4, <2>5
<1>18. CASE VisitStops
  <2>1. PICK r \in batch : batch' = batch \ {r} /\ seen' = SeenWith(r) BY <1>18 DEF VisitStops
  <2>2. Key(r) \in Keys BY KeyType DEF SolverTypeOK
  <2>3. batch' \subseteq QueueRecord /\ seen' \subseteq Keys BY <2>1, <2>2 DEF SeenWith, SolverTypeOK
  <2>4. FilesTypeOK' BY <1>18 DEF VisitStops, FilesTypeOK, fileVars
  <2>5. SolverTypeOK'
    BY <1>18, <2>3 DEF VisitStops, WhyStopped, SolverTypeOK, budgetVars, startVars
  <2> QED BY <2>4, <2>5
<1>19. CASE ThreadFails
  BY <1>19 DEF ThreadFails, FilesTypeOK, SolverTypeOK, fileVars, budgetVars, startVars, recordVars
<1> QED BY <1>1, <1>2, <1>3, <1>4, <1>5, <1>6, <1>7, <1>8, <1>9, <1>10, <1>11, <1>12,
           <1>13, <1>14, <1>15, <1>16, <1>17, <1>18, <1>19 DEF SolverStep

-----------------------------------------------------------------------------
(* The files, the engine and the solver together.                          *)

(* The initial files, engine and solver are well typed. *)
LEMMA InitTypes ==
  ASSUME Init
  PROVE  TypeOK
<1> USE FilesAssumption, StageAssumption, SolverAssumption
<1>1. FilesTypeOK
  <2>1. {} \in SUBSET SeedFile /\ {} \in SUBSET Tasks /\ <<>> \in Seq(QueueRecord) OBVIOUS
  <2> QED BY <2>1 DEF Init, FilesInit, FilesTypeOK
<1>2. StageTypeOK
  <2>1. NoInput \in Input /\ NoResult \in Result
    BY DEF NoInput, Input, NoResult, Result, NoQuery
  <2>2. prefixes \subseteq Prefix
    <3>1. PICK owner \in [1..Planned -> Tasks] :
            prefixes = {[id |-> 0, task |-> NoTask, source |-> "seed"]}
              \cup {[id |-> -p, task |-> owner[p], source |-> "planning"] : p \in 1..Planned}
      BY DEF Init, StageInit
    <3>2. [id |-> 0, task |-> NoTask, source |-> "seed"] \in Prefix BY DEF Prefix, Sources
    <3>3. ASSUME NEW p \in 1..Planned
          PROVE  [id |-> -p, task |-> owner[p], source |-> "planning"] \in Prefix
      BY DEF Prefix, Sources
    <3> QED BY <3>1, <3>2, <3>3
  <2>3. <<>> \in Seq(Input) /\ <<>> \in Seq(Tasks) /\ <<>> \in Seq(Nat) OBVIOUS
  <2>4. MaxDistance \in 0..MaxDistance OBVIOUS
  <2> QED BY <2>1, <2>2, <2>3, <2>4 DEF Init, StageInit, StageTypeOK
<1>3. SolverTypeOK
  <2>1. NoRecord \in Query BY DEF NoRecord, Query, NoQuery
  <2>2. asked \in Seq(Keys)
    <3>1. <<>> \in Seq(Keys) OBVIOUS
    <3> QED BY <3>1 DEF Init, SolverInit
  <2>3. /\ batch \subseteq QueueRecord /\ seen \subseteq Keys /\ decided \subseteq Keys
        /\ known \subseteq Tasks /\ unasked \subseteq Tasks
    BY DEF Init, SolverInit
  <2>4. live \in BOOLEAN /\ exhausted \in BOOLEAN BY DEF Init, SolverInit
  <2>5. /\ used \in 0..MaxQueries /\ claimed \in [Tasks -> Nat] /\ queries \in [Tasks -> Nat]
        /\ turn \in Tasks \cup {NoTask} /\ nextId \in Nat \ {0}
    BY DEF Init, SolverInit
  <2> QED BY <2>1, <2>2, <2>3, <2>4, <2>5 DEF Init, SolverInit, SolverTypeOK
<1> QED BY <1>1, <1>2, <1>3 DEF TypeOK

(* So are they after every step. *)
LEMMA NextTypes ==
  ASSUME TypeOK, [Next]_vars
  PROVE  TypeOK'
<1> USE DEF TypeOK
<1>1. CASE Launch
  <2>1. FilesTypeOK' BY <1>1 DEF Launch, StartLive, FilesTypeOK, fileVars
  <2>2. StageTypeOK' BY <1>1 DEF Launch, StageTypeOK, scheduleVars, seedVars, prefixVars
  <2>3. SolverTypeOK' BY <1>1 DEF Launch, StartLive, SolverTypeOK, budgetVars, recordVars
  <2> QED BY <2>1, <2>2, <2>3
<1>2. CASE Engine \/ EngineLeaves
  <2>1. FilesTypeOK' /\ StageTypeOK' BY <1>2, StageTypes DEF Engine, EngineLeaves
  <2>2. SolverTypeOK' BY <1>2 DEF Engine, EngineLeaves, solverVars, SolverTypeOK
  <2> QED BY <2>1, <2>2
<1>3. CASE Solver
  <2>1. FilesTypeOK' /\ SolverTypeOK' BY <1>3, SolverTypes DEF Solver
  <2>2. StageTypeOK' BY <1>3 DEF Solver, stageVars, StageTypeOK
  <2> QED BY <2>1, <2>2
<1>4. CASE Collect
  <2>1. FilesTypeOK' BY <1>4 DEF Collect, FilesTypeOK
  <2>2. StageTypeOK' BY <1>4 DEF Collect, stageVars, StageTypeOK
  <2>3. SolverTypeOK' BY <1>4 DEF Collect, solverVars, SolverTypeOK
  <2> QED BY <2>1, <2>2, <2>3
<1>5. CASE UNCHANGED vars
  <2>1. FilesTypeOK' BY <1>5 DEF vars, fileVars, FilesTypeOK
  <2>2. StageTypeOK' BY <1>5 DEF vars, stageVars, StageTypeOK
  <2>3. SolverTypeOK' BY <1>5 DEF vars, solverVars, SolverTypeOK
  <2> QED BY <2>1, <2>2, <2>3
<1> QED BY <1>1, <1>2, <1>3, <1>4, <1>5 DEF Next, Terminated

(* The state of the engine, of the solver and of the files they share is   *)
(* well typed for any number of tasks and any budgets; in particular a     *)
(* testcase is only published for a query that was claimed for a task, and *)
(* the campaign never uses more than max_evaluations queries.              *)
THEOREM HybridTypes == Spec => []TypeOK
<1>1. Init => TypeOK BY InitTypes
<1>2. TypeOK /\ [Next]_vars => TypeOK' BY NextTypes
<1> QED BY <1>1, <1>2, PTL DEF Spec

-----------------------------------------------------------------------------
(***************************************************************************)
(* The way of a testcase from the solver into the engine.  The inductive   *)
(* invariant says of the directory what both sides rely on: a visible seed *)
(* has its metadata, one number has one metadata file, and the numbers of  *)
(* the seeds are those below the next one.                                 *)
(***************************************************************************)
SeedInv ==
  /\ \A s \in seeds : s \in meta
  /\ \A m, n \in meta : m.id = n.id => m = n
  /\ on = "publish" => NewFile \in meta
  /\ SeedNumbers = 1..(nextId - 1)
  /\ at = "metadata" => nextSeed - 1 \in SeedNumbers
  /\ SeedsKeepTheirOrigin

(* A step that leaves the directory, the pending seeds and the reader's    *)
(* position alone keeps the invariant. *)
LEMMA SeedFrame ==
  ASSUME SeedInv, UNCHANGED <<seeds, meta, nextId, waiting>>,
         current' \in {current, NoInput},
         on' = "publish" => on = "publish" /\ query' = query,
         at' = "metadata" => at = "metadata" /\ nextSeed' = nextSeed
  PROVE  SeedInv'
<1>1. (on = "publish" => NewFile \in meta)' BY DEF SeedInv, NewFile
<1>2. (SeedNumbers = 1..(nextId - 1))' BY DEF SeedInv, SeedNumbers
<1>3. (at = "metadata" => nextSeed - 1 \in SeedNumbers)' BY DEF SeedInv, SeedNumbers
<1>4. SeedsKeepTheirOrigin' BY DEF SeedInv, SeedsKeepTheirOrigin, Origin, NoInput
<1>5. (\A s \in seeds : s \in meta)' /\ (\A m, n \in meta : m.id = n.id => m = n)' BY DEF SeedInv
<1> QED BY <1>1, <1>2, <1>3, <1>4, <1>5 DEF SeedInv

(* The engine finds the next seed, or rejects it. *)
LEMMA IngestKeepsSeeds ==
  ASSUME TypeOK, SeedInv, IngestSeed, UNCHANGED solverVars
  PROVE  SeedInv'
<1>1. nextSeed \in Nat /\ nextSeed \in SeedNumbers
  BY DEF IngestSeed, SeedNumbers, TypeOK, StageTypeOK
<1>2. UNCHANGED <<seeds, meta, nextId, waiting, current, on, query>>
  BY DEF IngestSeed, solverVars, fileVars
<1>3. nextSeed' - 1 = nextSeed BY <1>1 DEF IngestSeed
<1>4. (at = "metadata" => nextSeed - 1 \in SeedNumbers)' BY <1>1, <1>2, <1>3 DEF SeedNumbers
<1>5. (on = "publish" => NewFile \in meta)' BY <1>2 DEF SeedInv, NewFile
<1>6. (SeedNumbers = 1..(nextId - 1))' BY <1>2 DEF SeedInv, SeedNumbers
<1>7. SeedsKeepTheirOrigin' BY <1>2 DEF SeedInv, SeedsKeepTheirOrigin, Origin
<1>8. (\A s \in seeds : s \in meta)' /\ (\A m, n \in meta : m.id = n.id => m = n)'
  BY <1>2 DEF SeedInv
<1> QED BY <1>4, <1>5, <1>6, <1>7, <1>8 DEF SeedInv

(* What the engine queues is the seed file itself. *)
LEMMA MetadataKeepsSeeds ==
  ASSUME TypeOK, SeedInv, ReadMetadata, UNCHANGED solverVars
  PROVE  SeedInv'
<1>1. PICK m \in MetadataOf(nextSeed - 1) : waiting' = PushBack(m) BY DEF ReadMetadata
<1>2. PICK s \in seeds : s.id = nextSeed - 1 BY DEF ReadMetadata, SeedInv, SeedNumbers
<1>3. s \in meta BY <1>2 DEF SeedInv
<1>4. m \in meta /\ m.id = s.id BY <1>2, <1>3 DEF MetadataOf
<1>5. m = s BY <1>3, <1>4 DEF SeedInv
<1>6. UNCHANGED <<seeds, meta, nextId, current, on, query>> /\ at' = "ingest"
  BY DEF ReadMetadata, solverVars, fileVars
<1>7. waiting \in Seq(Input) BY DEF TypeOK, StageTypeOK
<1>8. m \in Input
  <2>1. m \in SeedFile BY <1>4 DEF TypeOK, FilesTypeOK
  <2> QED BY <2>1 DEF SeedFile, Input
<1>9. SeedsKeepTheirOrigin'
  <2>1. Origin(current)' BY <1>6 DEF SeedInv, SeedsKeepTheirOrigin, Origin
  <2>2. ASSUME NEW i \in DOMAIN waiting' PROVE Origin(waiting[i])'
    <3>1. waiting' = Append(waiting, m) BY <1>1 DEF PushBack
    <3>2. i \in 1..(Len(waiting) + 1) BY <1>7, <1>8, <3>1
    <3>3. CASE i = Len(waiting) + 1
      <4>1. waiting'[i] = s BY <1>5, <1>7, <1>8, <3>1, <3>3
      <4> QED BY <1>6, <4>1 DEF Origin
    <3>4. CASE i # Len(waiting) + 1
      <4>1. i \in DOMAIN waiting /\ waiting'[i] = waiting[i] BY <1>7, <1>8, <3>1, <3>2, <3>4
      <4>2. Origin(waiting[i]) BY <4>1 DEF SeedInv, SeedsKeepTheirOrigin
      <4> QED BY <1>6, <4>1, <4>2 DEF Origin
    <3> QED BY <3>3, <3>4
  <2> QED BY <2>1, <2>2 DEF SeedsKeepTheirOrigin
<1>10. (on = "publish" => NewFile \in meta)' BY <1>6 DEF SeedInv, NewFile
<1>11. (SeedNumbers = 1..(nextId - 1))' BY <1>6 DEF SeedInv, SeedNumbers
<1>12. (\A x \in seeds : x \in meta)' /\ (\A x, n \in meta : x.id = n.id => x = n)'
  BY <1>6 DEF SeedInv
<1> QED BY <1>6, <1>9, <1>10, <1>11, <1>12 DEF SeedInv

(* The next input is the head of what waits, or no solver seed. *)
LEMMA InputKeepsSeeds ==
  ASSUME TypeOK, SeedInv, NextInput, UNCHANGED solverVars
  PROVE  SeedInv'
<1>1. UNCHANGED <<seeds, meta, nextId, on, query>> /\ at' = "run"
  BY DEF NextInput, solverVars, fileVars
<1>2. waiting \in Seq(Input) BY DEF TypeOK, StageTypeOK
<1>3. SeedsKeepTheirOrigin'
  <2>1. CASE SolverIsNext
    <3>1. waiting # <<>> /\ current' = Head(waiting) /\ waiting' = Tail(waiting)
      BY <2>1 DEF SolverIsNext, NextInput
    <3>2. 1 \in DOMAIN waiting /\ Head(waiting) = waiting[1] BY <1>2, <3>1
    <3>3. Origin(Head(waiting)) BY <3>2 DEF SeedInv, SeedsKeepTheirOrigin
    <3>4. Origin(current)' BY <1>1, <3>1, <3>3 DEF Origin
    <3>5. ASSUME NEW i \in DOMAIN waiting' PROVE Origin(waiting[i])'
      <4>1. i + 1 \in DOMAIN waiting /\ waiting'[i] = waiting[i + 1] BY <1>2, <3>1
      <4>2. Origin(waiting[i + 1]) BY <4>1 DEF SeedInv, SeedsKeepTheirOrigin
      <4> QED BY <1>1, <4>1, <4>2 DEF Origin
    <3> QED BY <3>4, <3>5 DEF SeedsKeepTheirOrigin
  <2>2. CASE ~SolverIsNext
    <3>1. current' = NoInput /\ waiting' = waiting BY <2>2 DEF NextInput
    <3> QED BY <1>1, <3>1 DEF SeedInv, SeedsKeepTheirOrigin, Origin, NoInput
  <2> QED BY <2>1, <2>2
<1>4. (on = "publish" => NewFile \in meta)' BY <1>1 DEF SeedInv, NewFile
<1>5. (SeedNumbers = 1..(nextId - 1))' BY <1>1 DEF SeedInv, SeedNumbers
<1>6. (\A x \in seeds : x \in meta)' /\ (\A x, n \in meta : x.id = n.id => x = n)'
  BY <1>1 DEF SeedInv
<1> QED BY <1>1, <1>3, <1>4, <1>5, <1>6 DEF SeedInv

(* Publication, and a publication that fails. *)
LEMMA OfferKeepsSeeds ==
  ASSUME TypeOK, SeedInv, OfferMetadata \/ OfferSeed \/ OfferFails, UNCHANGED stageVars
  PROVE  SeedInv'
<1>0. /\ nextId \in Nat \ {0} /\ seeds \subseteq SeedFile
      /\ NewFile.id = nextId
  BY DEF TypeOK, SolverTypeOK, FilesTypeOK, NewFile
<1>1. \A s \in seeds : s.id \in Nat /\ s.id < nextId BY <1>0 DEF SeedInv, SeedNumbers, SeedFile
<1>2. UNCHANGED <<waiting, current, at, nextSeed>> BY DEF stageVars
<1>3. CASE OfferMetadata
  <2>1. /\ meta' = {m \in meta : m.id # nextId} \cup {NewFile}
        /\ UNCHANGED <<seeds, nextId, query>>
    BY <1>3 DEF OfferMetadata
  <2>2. NewFile' = NewFile BY <2>1 DEF NewFile
  <2>3. (\A s \in seeds : s \in meta)' BY <1>0, <1>1, <2>1 DEF SeedInv
  <2>4. (\A m, n \in meta : m.id = n.id => m = n)' BY <1>0, <2>1 DEF SeedInv
  <2>5. (on = "publish" => NewFile \in meta)' BY <2>1, <2>2
  <2>6. SeedNumbers' = SeedNumbers BY <2>1 DEF SeedNumbers
  <2>7. SeedsKeepTheirOrigin' BY <1>2, <2>1 DEF SeedInv, SeedsKeepTheirOrigin, Origin
  <2> QED BY <1>2, <2>1, <2>3, <2>4, <2>5, <2>6, <2>7 DEF SeedInv
<1>4. CASE OfferSeed
  <2>1. seeds' = seeds \cup {NewFile} /\ meta' = meta /\ nextId' = nextId + 1 /\ on' = "offer"
    BY <1>4 DEF OfferSeed
  <2>2. NewFile \in meta BY <1>4 DEF OfferSeed, SeedInv
  <2>3. (\A s \in seeds : s \in meta)' BY <2>1, <2>2 DEF SeedInv
  <2>4. SeedNumbers' = SeedNumbers \cup {nextId} BY <1>0, <2>1 DEF SeedNumbers
  <2>5. SeedNumbers' = 1..(nextId' - 1) BY <1>0, <2>1, <2>4 DEF SeedInv
  <2>6. SeedsKeepTheirOrigin' BY <1>2, <2>1 DEF SeedInv, SeedsKeepTheirOrigin, Origin
  <2> QED BY <1>2, <2>1, <2>3, <2>4, <2>5, <2>6 DEF SeedInv
<1>5. CASE OfferFails
  <2>1. meta' = {m \in meta : m.id # nextId} /\ UNCHANGED <<seeds, nextId>> /\ on' = "offer"
    BY <1>5 DEF OfferFails, NumberAfterFailure
  <2>2. (\A s \in seeds : s \in meta)' BY <1>1, <2>1 DEF SeedInv
  <2>3. (\A m, n \in meta : m.id = n.id => m = n)' BY <2>1 DEF SeedInv
  <2>4. SeedNumbers' = SeedNumbers BY <2>1 DEF SeedNumbers
  <2>5. SeedsKeepTheirOrigin' BY <1>2, <2>1 DEF SeedInv, SeedsKeepTheirOrigin, Origin
  <2> QED BY <1>2, <2>1, <2>2, <2>3, <2>4, <2>5 DEF SeedInv
<1> QED BY <1>3, <1>4, <1>5

(* Every step of either side keeps the directory in order. *)
LEMMA SeedNext ==
  ASSUME TypeOK, SeedInv, [Next]_vars
  PROVE  SeedInv'
<1>1. CASE Launch
  BY <1>1, SeedFrame DEF Launch, StartLive, seedVars, fileVars
<1>2. CASE Engine
  <2>1. CASE IngestSeed BY <1>2, <2>1, IngestKeepsSeeds DEF Engine
  <2>2. CASE ReadMetadata BY <1>2, <2>2, MetadataKeepsSeeds DEF Engine
  <2>3. CASE NextInput BY <1>2, <2>3, InputKeepsSeeds DEF Engine
  <2>4. CASE SelectTask \/ SelectNone
    BY <1>2, <2>4, SeedFrame DEF Engine, SelectTask, SelectNone, solverVars, seedVars, fileVars
  <2>5. CASE RunStops \/ RunEnds
    BY <1>2, <2>5, SeedFrame DEF Engine, RunStops, RunEnds, solverVars, seedVars, fileVars
  <2>6. CASE FinishLine BY <1>2, <2>6, SeedFrame DEF Engine, FinishLine, solverVars, stageVars
  <2>7. CASE RememberReach \/ RememberDistance \/ Retain
    BY <1>2, <2>7, SeedFrame
      DEF Engine, RememberReach, RememberDistance, Retain, solverVars, seedVars
  <2>8. CASE WriteGoal \/ EndIteration
    BY <1>2, <2>8, SeedFrame DEF Engine, WriteGoal, EndIteration, solverVars, seedVars, fileVars
  <2> QED BY <1>2, <2>1, <2>2, <2>3, <2>4, <2>5, <2>6, <2>7, <2>8 DEF Engine, StageStep
<1>3. CASE EngineLeaves
  BY <1>3, SeedFrame DEF EngineLeaves, TimeUp, StageDies, solverVars, seedVars, fileVars
<1>4. CASE Solver
  <2>1. CASE OfferMetadata \/ OfferSeed \/ OfferFails BY <1>4, <2>1, OfferKeepsSeeds DEF Solver
  <2>2. CASE StartupQuery \/ StartupAnchor \/ Poll \/ EndBatch \/ SolverStops \/ ThreadFails
    BY <1>4, <2>2, SeedFrame
      DEF Solver, StartupQuery, StartupAnchor, Poll, EndBatch, SolverStops, ThreadFails, stageVars,
          fileVars
  <2>3. CASE VisitFails \/ VisitPasses \/ VisitSkips \/ VisitClaims \/ VisitExhausts \/ VisitStops
    <3>2. on = "visit"
      BY <2>3 DEF VisitFails, VisitPasses, VisitSkips, VisitClaims, VisitExhausts, VisitStops, Decides, Visit, Takes
    <3> QED BY <1>4, <2>3, <3>2, SeedFrame
          DEF Solver, VisitFails, VisitPasses, VisitSkips, VisitClaims, VisitExhausts, VisitStops,
              stageVars, fileVars
  <2>4. CASE QueryFails \/ QueryAnswers \/ OfferRejected \/ EndQuery
    BY <1>4, <2>4, SeedFrame
      DEF Solver, QueryFails, QueryAnswers, OfferRejected, EndQuery, Back, stageVars, fileVars
  <2> QED BY <1>4, <2>1, <2>2, <2>3, <2>4 DEF Solver, SolverStep
<1>5. CASE Collect BY <1>5, SeedFrame DEF Collect, stageVars, solverVars
<1>6. CASE UNCHANGED vars BY <1>6, SeedFrame DEF vars, stageVars, solverVars, fileVars
<1> QED BY <1>1, <1>2, <1>3, <1>4, <1>5, <1>6 DEF Next, Terminated

(* An empty directory is in order. *)
LEMMA SeedInit ==
  ASSUME Init
  PROVE  SeedInv
<1>1. /\ seeds = {} /\ meta = {} /\ on = "startup" /\ at = "off" /\ nextId = 1
      /\ waiting = <<>> /\ current = NoInput
  BY DEF Init, FilesInit, StageInit, SolverInit
<1>2. SeedNumbers = 1..(nextId - 1) BY <1>1 DEF SeedNumbers
<1>3. SeedsKeepTheirOrigin BY <1>1 DEF SeedsKeepTheirOrigin, Origin, NoInput
<1> QED BY <1>1, <1>2, <1>3 DEF SeedInv

(* The directory of seeds is always in the order that SeedInv describes.   *)
THEOREM SeedDirectory == Spec => []SeedInv
<1>1. Init => SeedInv BY SeedInit
<1>2. TypeOK /\ SeedInv /\ [Next]_vars => SeedInv' BY SeedNext
<1> QED BY <1>1, <1>2, HybridTypes, PTL DEF Spec

(* Whatever the interleaving of the two renames of _offer_solver_seed with *)
(* the reads of ingest_solver_seeds, and whatever write fails, the engine  *)
(* runs a solver seed with the task and the query it was found for.        *)
THEOREM SeedsHaveTheirOrigin == Spec => []SeedsKeepTheirOrigin
<1>1. SeedInv => SeedsKeepTheirOrigin BY DEF SeedInv
<1> QED BY <1>1, SeedDirectory, PTL

(* The published numbers never have a gap at which ingest_solver_seeds     *)
(* would wait for ever.                                                    *)
THEOREM SeedNumbersAreDense == Spec => []NoSeedIsStranded
<1>1. ASSUME TypeOK, SeedInv PROVE NoSeedIsStranded
  <2>1. nextId \in Nat \ {0} BY <1>1 DEF TypeOK, SolverTypeOK
  <2>2. SeedNumbers = 1..(nextId - 1) BY <1>1 DEF SeedInv
  <2>3. Cardinality(1..(nextId - 1)) = nextId - 1
    <3>1. 1 \in Int /\ nextId - 1 \in Int BY <2>1
    <3>2. Cardinality(1..(nextId - 1)) = IF 1 > nextId - 1 THEN 0 ELSE (nextId - 1) - 1 + 1
      BY <3>1, FS_Interval
    <3> QED BY <2>1, <3>2
  <2> QED BY <2>2, <2>3 DEF NoSeedIsStranded
<1> QED BY <1>1, HybridTypes, SeedDirectory, PTL

-----------------------------------------------------------------------------
(***************************************************************************)
(* The way of a prefix from the engine to the solver.                      *)
(***************************************************************************)
AskInv ==
  /\ \A i \in DOMAIN queue : queue[i].prefix < nextPrefix
  /\ \A i, j \in DOMAIN queue : queue[i].prefix = queue[j].prefix => i = j
  /\ batch \subseteq Elements(queue)
  /\ \A r \in batch : Key(r) \notin seen
  /\ Elements(asked) \subseteq seen
  /\ AskedOnce

(* The queue stays, or gets a record for the number just given out. *)
QueueGrows ==
  \/ queue' = queue /\ nextPrefix' >= nextPrefix
  \/ \E t \in Tasks, b \in BOOLEAN :
       /\ queue' = Append(queue, [prefix |-> nextPrefix, task |-> t, reach |-> b])
       /\ nextPrefix' = nextPrefix + 1

(* remember gives out a new number with every record. *)
LEMMA RememberGrows ==
  ASSUME TypeOK, NEW source \in Sources, NEW t \in Tasks \cup {NoTask}, NEW d \in 0..MaxDistance,
         Remember(source, t, d)
  PROVE  QueueGrows
<1>0. nextPrefix \in Nat BY DEF TypeOK, StageTypeOK
<1>1. CASE ~CanRemember(source) BY <1>0, <1>1 DEF Remember, QueueGrows, prefixVars
<1>2. CASE CanRemember(source)
  <2>1. nextPrefix' = nextPrefix + 1 BY <1>2 DEF Remember, Store
  <2>2. CASE Queued(source, t, d) /\ Enqueue(source, t)
    <3>1. t \in Tasks /\ (source = "relevant_reach") \in BOOLEAN BY <2>2 DEF Queued
    <3>2. queue' = Append(queue, [prefix |-> nextPrefix, task |-> t,
                                  reach |-> source = "relevant_reach"])
      BY <2>2 DEF Enqueue
    <3> QED BY <2>1, <3>1, <3>2 DEF QueueGrows
  <2>3. CASE queue' = queue BY <1>0, <2>1, <2>3 DEF QueueGrows
  <2> QED BY <1>2, <2>2, <2>3 DEF Remember
<1> QED BY <1>1, <1>2

(* A growing queue keeps the invariant: its numbers stay distinct. *)
LEMMA GrowthKeepsAsk ==
  ASSUME TypeOK, AskInv, QueueGrows, nextPrefix' \in Nat, UNCHANGED <<batch, seen, asked>>
  PROVE  AskInv'
<1>0. nextPrefix \in Nat /\ queue \in Seq(QueueRecord)
  BY DEF TypeOK, StageTypeOK, FilesTypeOK
<1>1. \A i \in DOMAIN queue : queue[i].prefix \in Nat
  <2>1. \A i \in DOMAIN queue : queue[i] \in QueueRecord BY <1>0
  <2> QED BY <2>1 DEF QueueRecord
<1>2. (\A r \in batch : Key(r) \notin seen)' /\ (Elements(asked) \subseteq seen)' /\ AskedOnce'
  BY DEF AskInv, Key, Elements, AskedOnce, NoRepeats
<1>3. CASE queue' = queue /\ nextPrefix' >= nextPrefix
  <2>1. (batch \subseteq Elements(queue))' BY <1>3 DEF AskInv, Elements
  <2>2. (\A i \in DOMAIN queue : queue[i].prefix < nextPrefix)'
    BY <1>0, <1>1, <1>3 DEF AskInv
  <2>3. (\A i, j \in DOMAIN queue : queue[i].prefix = queue[j].prefix => i = j)'
    BY <1>3 DEF AskInv
  <2> QED BY <1>2, <2>1, <2>2, <2>3 DEF AskInv
<1>4. ASSUME NEW t \in Tasks, NEW b \in BOOLEAN,
             queue' = Append(queue, [prefix |-> nextPrefix, task |-> t, reach |-> b]),
             nextPrefix' = nextPrefix + 1
      PROVE  AskInv'
  <2> DEFINE rec == [prefix |-> nextPrefix, task |-> t, reach |-> b]
  <2>0. rec \in QueueRecord /\ rec.prefix = nextPrefix BY <1>0 DEF QueueRecord
  <2>q. queue' = Append(queue, rec) BY <1>4
  <2> HIDE DEF rec
  <2>1. /\ DOMAIN queue' = 1..(Len(queue) + 1) /\ DOMAIN queue = 1..Len(queue)
        /\ Len(queue) \in Nat
        /\ queue'[Len(queue) + 1] = rec
        /\ \A i \in DOMAIN queue : queue'[i] = queue[i]
    BY <1>0, <2>0, <2>q
  <2>2. (batch \subseteq Elements(queue))' BY <2>1 DEF AskInv, Elements
  <2>3. (\A i \in DOMAIN queue : queue[i].prefix < nextPrefix)'
    BY <1>0, <1>1, <1>4, <2>0, <2>1 DEF AskInv
  <2>4. (\A i, j \in DOMAIN queue : queue[i].prefix = queue[j].prefix => i = j)'
    <3>1. ASSUME NEW i \in DOMAIN queue', NEW j \in DOMAIN queue',
                 queue'[i].prefix = queue'[j].prefix
          PROVE  i = j
      <4>1. CASE i \in DOMAIN queue /\ j \in DOMAIN queue BY <2>1, <3>1, <4>1 DEF AskInv
      <4>2. CASE i = Len(queue) + 1 /\ j = Len(queue) + 1 BY <4>2
      <4>3. CASE i \in DOMAIN queue /\ j = Len(queue) + 1
        <5>1. queue[i].prefix = nextPrefix BY <2>0, <2>1, <3>1, <4>3
        <5>2. queue[i].prefix < nextPrefix BY <4>3 DEF AskInv
        <5> QED BY <1>0, <5>1, <5>2
      <4>4. CASE i = Len(queue) + 1 /\ j \in DOMAIN queue
        <5>1. queue[j].prefix = nextPrefix BY <2>0, <2>1, <3>1, <4>4
        <5>2. queue[j].prefix < nextPrefix BY <4>4 DEF AskInv
        <5> QED BY <1>0, <5>1, <5>2
      <4> QED BY <2>1, <4>1, <4>2, <4>3, <4>4
    <3> QED BY <3>1
  <2> QED BY <1>2, <2>2, <2>3, <2>4 DEF AskInv
<1> QED BY <1>3, <1>4 DEF QueueGrows

(* Two records of the batch with the same key are the same record. *)
LEMMA BatchKeys ==
  ASSUME TypeOK, AskInv, NEW r \in batch, NEW q \in batch, Key(r) = Key(q)
  PROVE  r = q
<1>1. PICK i \in DOMAIN queue : r = queue[i] BY DEF AskInv, Elements
<1>2. PICK j \in DOMAIN queue : q = queue[j] BY DEF AskInv, Elements
<1>3. r.prefix = q.prefix BY DEF Key
<1> QED BY <1>1, <1>2, <1>3 DEF AskInv

(* A visit marks its record and keeps the others unmarked. *)
LEMMA VisitKeepsAsk ==
  ASSUME TypeOK, AskInv, NEW r \in batch, batch' = batch \ {r}, seen' = SeenWith(r),
         UNCHANGED <<queue, nextPrefix>>,
         asked' \in {asked, Append(asked, Key(r))}
  PROVE  AskInv'
<1>1. batch' = batch \ {r} /\ seen' = seen \cup {Key(r)} BY DEF SeenWith
<1>2. Key(r) \notin seen BY DEF AskInv
<1>3. (\A q \in batch : Key(q) \notin seen)'
  <2>1. ASSUME NEW q \in batch \ {r} PROVE Key(q) \notin seen \cup {Key(r)}
    BY <2>1, BatchKeys DEF AskInv
  <2> QED BY <1>1, <2>1 DEF Key
<1>4. (batch \subseteq Elements(queue))' BY <1>1 DEF AskInv, Elements
<1>5. (Elements(asked) \subseteq seen)' /\ AskedOnce'
  <2>1. CASE asked' = asked BY <1>1, <2>1 DEF AskInv, AskedOnce, NoRepeats, Elements
  <2>2. CASE asked' = Append(asked, Key(r))
    <3> DEFINE k == Key(r)
    <3>1. k \in Keys BY KeyType DEF TypeOK, SolverTypeOK
    <3>2. asked \in Seq(Keys) BY DEF TypeOK, SolverTypeOK
    <3>3. asked' = Append(asked, k) /\ seen' = seen \cup {k} /\ k \notin seen BY <1>1, <1>2, <2>2
    <3> HIDE DEF k
    <3>4. /\ DOMAIN asked' = 1..(Len(asked) + 1) /\ DOMAIN asked = 1..Len(asked)
          /\ Len(asked) \in Nat
          /\ asked'[Len(asked) + 1] = k
          /\ \A i \in DOMAIN asked : asked'[i] = asked[i]
      BY <3>1, <3>2, <3>3
    <3>5. \A i \in DOMAIN asked : asked[i] \in seen BY DEF AskInv, Elements
    <3>6. \A i \in DOMAIN asked : asked[i] # k BY <3>3, <3>5
    <3>7. (Elements(asked) \subseteq seen)'
      <4>1. ASSUME NEW i \in DOMAIN asked' PROVE asked'[i] \in seen'
        <5>1. CASE i \in DOMAIN asked BY <3>3, <3>4, <3>5, <5>1
        <5>2. CASE i = Len(asked) + 1 BY <3>3, <3>4, <5>2
        <5> QED BY <3>4, <5>1, <5>2
      <4> QED BY <4>1 DEF Elements
    <3>8. AskedOnce' BY <3>4, <3>6 DEF AskInv, AskedOnce, NoRepeats
    <3> QED BY <3>7, <3>8
  <2> QED BY <2>1, <2>2
<1>6. /\ (\A i \in DOMAIN queue : queue[i].prefix < nextPrefix)'
      /\ (\A i, j \in DOMAIN queue : queue[i].prefix = queue[j].prefix => i = j)'
  BY DEF AskInv
<1> QED BY <1>3, <1>4, <1>5, <1>6 DEF AskInv

(* The engine only lets the queue grow. *)
LEMMA EngineKeepsAsk ==
  ASSUME TypeOK, TypeOK', AskInv, Engine \/ EngineLeaves
  PROVE  AskInv'
<1>0. /\ UNCHANGED <<batch, seen, asked>> /\ nextPrefix' \in Nat /\ nextPrefix \in Nat
  BY DEF Engine, EngineLeaves, solverVars, TypeOK, StageTypeOK
<1>r. /\ result.distance \in 0..MaxDistance /\ active \in Tasks \cup {NoTask}
      /\ result.reach \subseteq Tasks
  <2>1. result \in Result /\ active \in Tasks \cup {NoTask} BY DEF TypeOK, StageTypeOK
  <2> QED BY <2>1 DEF Result
<1>m. MaxDistance \in 0..MaxDistance BY StageAssumption
<1>s. {"relevant_reach", "fuzz", "solver", "state_novelty", "random"} \subseteq Sources
  BY DEF Sources
<1>1. QueueGrows
  <2>1. CASE RememberReach
    <3>1. PICK t \in result.reach : Remember("relevant_reach", t, MaxDistance)
      BY <2>1 DEF RememberReach
    <3>2. t \in Tasks \cup {NoTask} BY <1>r
    <3> QED BY <1>m, <1>s, <3>1, <3>2, RememberGrows
  <2>2. CASE RememberDistance
    <3>1. \/ Remember("fuzz", active, result.distance) \/ UNCHANGED <<prefixVars, queue, torn>>
      BY <2>2 DEF RememberDistance
    <3>2. CASE Remember("fuzz", active, result.distance) BY <1>r, <1>s, <3>2, RememberGrows
    <3>3. CASE UNCHANGED <<prefixVars, queue, torn>> BY <1>0, <3>3 DEF QueueGrows, prefixVars
    <3> QED BY <3>1, <3>2, <3>3
  <2>3. CASE Retain
    <3>1. \/ \E source \in Sources : Remember(source, active, result.distance)
          \/ UNCHANGED <<prefixVars, queue, torn>>
      BY <1>s, <2>3 DEF Retain
    <3>2. ASSUME NEW source \in Sources, Remember(source, active, result.distance)
          PROVE  QueueGrows
      BY <1>r, <3>2, RememberGrows
    <3>3. CASE UNCHANGED <<prefixVars, queue, torn>> BY <1>0, <3>3 DEF QueueGrows, prefixVars
    <3> QED BY <3>1, <3>2, <3>3
  <2>4. CASE SelectTask \/ SelectNone \/ TimeUp \/ StageDies \/ IngestSeed
    BY <1>0, <2>4 DEF QueueGrows, SelectTask, SelectNone, TimeUp, StageDies, IngestSeed,
                      prefixVars, fileVars
  <2>5. CASE ReadMetadata \/ NextInput \/ RunStops \/ RunEnds
    BY <1>0, <2>5 DEF QueueGrows, ReadMetadata, NextInput, RunStops, RunEnds, prefixVars, fileVars
  <2>6. CASE FinishLine \/ WriteGoal \/ EndIteration
    BY <1>0, <2>6 DEF QueueGrows, FinishLine, WriteGoal, EndIteration, stageVars, prefixVars,
                      fileVars
  <2> QED BY <2>1, <2>2, <2>3, <2>4, <2>5, <2>6 DEF Engine, EngineLeaves, StageStep
<1> QED BY <1>0, <1>1, GrowthKeepsAsk

(* The solver reads the queue and remembers what it took up. *)
LEMMA SolverKeepsAsk ==
  ASSUME TypeOK, AskInv, Solver
  PROVE  AskInv'
<1>0. nextPrefix' = nextPrefix /\ nextPrefix \in Nat
  BY DEF Solver, stageVars, TypeOK, StageTypeOK
<1>f. ASSUME UNCHANGED <<queue, batch, seen, asked>> PROVE AskInv'
  BY <1>0, <1>f, GrowthKeepsAsk DEF QueueGrows
<1>1. CASE Poll
  <2>1. /\ batch' = {r \in CompleteLines : Key(r) \notin seen}
        /\ UNCHANGED <<queue, seen, asked>>
    BY <1>1 DEF Poll, fileVars
  <2>2. (batch \subseteq Elements(queue))' BY <2>1 DEF CompleteLines, Elements
  <2>3. (\A r \in batch : Key(r) \notin seen)' BY <2>1 DEF Key
  <2> QED BY <1>0, <2>1, <2>2, <2>3 DEF AskInv, Elements, AskedOnce, NoRepeats
<1>2. CASE VisitPasses \/ VisitSkips \/ VisitExhausts \/ VisitStops
  <2>1. \E r \in batch : batch' = batch \ {r} /\ seen' = SeenWith(r)
    BY <1>2 DEF VisitPasses, VisitSkips, VisitExhausts, VisitStops, Decides, Visit, Takes
  <2>2. UNCHANGED <<queue, asked>>
    BY <1>2 DEF VisitPasses, VisitSkips, VisitExhausts, VisitStops, fileVars
  <2> QED BY <1>0, <2>1, <2>2, VisitKeepsAsk
<1>3. CASE VisitClaims
  <2>1. PICK r \in batch : /\ batch' = batch \ {r} /\ seen' = SeenWith(r)
                           /\ asked' = Append(asked, Key(r))
    BY <1>3 DEF VisitClaims, Decides, Visit, Takes
  <2>2. queue' = queue BY <1>3 DEF VisitClaims, fileVars
  <2> QED BY <1>0, <2>1, <2>2, VisitKeepsAsk
<1>4. CASE StartupQuery \/ StartupAnchor \/ EndBatch \/ SolverStops \/ ThreadFails
  BY <1>f, <1>4
    DEF StartupQuery, StartupAnchor, EndBatch, SolverStops, ThreadFails, recordVars, fileVars
<1>7. CASE VisitFails
  <2>1. batch' \subseteq batch /\ UNCHANGED <<queue, seen, asked>>
    BY <1>7 DEF VisitFails, Takes, fileVars
  <2>2. (batch \subseteq Elements(queue))' BY <2>1 DEF AskInv, Elements
  <2>3. (\A r \in batch : Key(r) \notin seen)' BY <2>1 DEF AskInv, Key
  <2> QED BY <1>0, <2>1, <2>2, <2>3 DEF AskInv, Elements, AskedOnce, NoRepeats
<1>5. CASE QueryFails \/ QueryAnswers \/ OfferRejected \/ EndQuery
  BY <1>f, <1>5 DEF QueryFails, QueryAnswers, OfferRejected, EndQuery, recordVars, fileVars
<1>6. CASE OfferMetadata \/ OfferSeed \/ OfferFails
  BY <1>f, <1>6 DEF OfferMetadata, OfferSeed, OfferFails, recordVars
<1> QED BY <1>1, <1>2, <1>3, <1>4, <1>5, <1>6, <1>7 DEF Solver, SolverStep

(* The thread asks about a prefix and a task at most once, although every  *)
(* poll reads the whole queue file again and sorts it anew: prefix numbers *)
(* are never given out twice, and what was taken up is remembered.         *)
THEOREM PrefixesAreAskedOnce == Spec => []AskedOnce
<1>1. ASSUME Init PROVE AskInv
  BY <1>1 DEF Init, FilesInit, SolverInit, AskInv, AskedOnce, NoRepeats, Elements
<1>2. ASSUME TypeOK, TypeOK', AskInv, [Next]_vars PROVE AskInv'
  <2>0. nextPrefix \in Nat BY <1>2 DEF TypeOK, StageTypeOK
  <2>f. ASSUME UNCHANGED <<queue, batch, seen, asked, nextPrefix>> PROVE AskInv'
    BY <1>2, <2>0, <2>f, GrowthKeepsAsk DEF QueueGrows
  <2>1. CASE Launch BY <2>1, <2>f DEF Launch, StartLive, recordVars, prefixVars, fileVars
  <2>2. CASE Engine \/ EngineLeaves BY <1>2, <2>2, EngineKeepsAsk
  <2>3. CASE Solver BY <1>2, <2>3, SolverKeepsAsk
  <2>4. CASE Collect BY <2>4, <2>f DEF Collect, stageVars, solverVars
  <2>5. CASE UNCHANGED vars BY <2>5, <2>f DEF vars, stageVars, solverVars, fileVars
  <2> QED BY <1>2, <2>1, <2>2, <2>3, <2>4, <2>5 DEF Next, Terminated
<1>3. AskInv => AskedOnce BY DEF AskInv
<1> QED BY <1>1, <1>2, <1>3, HybridTypes, PTL DEF Spec

-----------------------------------------------------------------------------
(***************************************************************************)
(* Budgets and credit.                                                     *)
(***************************************************************************)

(* A claim is within the limit of its task. *)
LEMMA ClaimKeepsBudgets ==
  ASSUME TypeOK, BudgetsHold, NEW t \in Tasks, Claim(t),
         queries' \in {queries, [queries EXCEPT ![t] = @ + 1]}
  PROVE  BudgetsHold'
<1>1. /\ used \in Nat /\ MaxQueries \in Nat /\ QueryLimit \in [Tasks -> Nat]
      /\ claimed \in [Tasks -> Nat] /\ queries \in [Tasks -> Nat]
  BY SolverAssumption DEF TypeOK, SolverTypeOK
<1>2. /\ used < MaxQueries /\ claimed[t] < QueryLimit[t] /\ used' = used + 1
      /\ claimed' = [claimed EXCEPT ![t] = @ + 1]
  BY DEF Claim, MayClaim
<1>3. used' <= MaxQueries BY <1>1, <1>2
<1>4. ASSUME NEW u \in Tasks
      PROVE  queries'[u] <= claimed'[u] /\ claimed'[u] <= QueryLimit[u]
  <2>1. queries[u] <= claimed[u] /\ claimed[u] <= QueryLimit[u] BY DEF BudgetsHold
  <2>2. CASE u = t BY <1>1, <1>2, <2>1, <2>2
  <2>3. CASE u # t BY <1>1, <1>2, <2>1, <2>3
  <2> QED BY <2>2, <2>3
<1> QED BY <1>3, <1>4 DEF BudgetsHold

(* The queries of the startup phase and of the thread together respect the *)
(* budget of the campaign and that of every task, although the thread also *)
(* keeps a count of its own (_claim_solver_budget).                        *)
THEOREM QueryBudgetsHold == Spec => []BudgetsHold
<1>1. ASSUME Init PROVE BudgetsHold
  BY <1>1, SolverAssumption DEF Init, SolverInit, BudgetsHold
<1>2. ASSUME TypeOK, BudgetsHold, [Next]_vars PROVE BudgetsHold'
  <2>f. ASSUME UNCHANGED <<used, claimed, queries>> PROVE BudgetsHold'
    BY <1>2, <2>f DEF BudgetsHold
  <2>1. CASE Launch BY <2>1, <2>f DEF Launch, StartLive, budgetVars, recordVars
  <2>2. CASE Engine \/ EngineLeaves \/ Collect
    BY <2>2, <2>f DEF Engine, EngineLeaves, Collect, solverVars
  <2>3. CASE StartupQuery
    <3>1. PICK t \in unasked : Claim(t) BY <2>3 DEF StartupQuery
    <3>2. t \in Tasks BY <1>2 DEF TypeOK, SolverTypeOK
    <3>3. queries' = queries BY <2>3 DEF StartupQuery, recordVars
    <3> QED BY <1>2, <3>1, <3>2, <3>3, ClaimKeepsBudgets
  <2>4. CASE StartupAnchor
    <3>1. turn \in Tasks /\ Claim(turn) BY <1>2, <2>4 DEF StartupAnchor, TypeOK, SolverTypeOK
    <3>2. queries' = queries BY <2>4 DEF StartupAnchor, recordVars
    <3> QED BY <1>2, <3>1, <3>2, ClaimKeepsBudgets
  <2>5. CASE VisitClaims
    <3>1. PICK r \in batch : Claim(r.task) /\ queries' = [queries EXCEPT ![r.task] = @ + 1]
      BY <2>5 DEF VisitClaims
    <3>2. r \in QueueRecord BY <1>2 DEF TypeOK, SolverTypeOK
    <3>3. r.task \in Tasks BY <3>2, KeyType
    <3> QED BY <1>2, <3>1, <3>3, ClaimKeepsBudgets
  <2>6. CASE Poll \/ EndBatch \/ VisitFails \/ VisitPasses \/ VisitSkips \/ VisitExhausts
    BY <2>6, <2>f
      DEF Poll, EndBatch, VisitFails, VisitPasses, VisitSkips, VisitExhausts, budgetVars, recordVars
  <2>10. CASE VisitStops \/ SolverStops \/ ThreadFails
    BY <2>10, <2>f DEF VisitStops, SolverStops, ThreadFails, budgetVars, recordVars
  <2>7. CASE QueryFails \/ QueryAnswers \/ OfferRejected \/ EndQuery
    BY <2>7, <2>f DEF QueryFails, QueryAnswers, OfferRejected, EndQuery, budgetVars, recordVars
  <2>8. CASE OfferMetadata \/ OfferSeed \/ OfferFails
    BY <2>8, <2>f DEF OfferMetadata, OfferSeed, OfferFails, budgetVars, recordVars
  <2>9. CASE UNCHANGED vars BY <2>9, <2>f DEF vars, solverVars
  <2> QED BY <1>2, <2>1, <2>2, <2>3, <2>4, <2>5, <2>6, <2>7, <2>8, <2>9, <2>10
        DEF Next, Solver, SolverStep, Terminated
<1> QED BY <1>1, <1>2, HybridTypes, PTL DEF Spec

(* Startup and thread together ask a bounded number of queries, and none   *)
(* twice (_claim_solver_budget, _run_live_prefix_solver).                  *)
THEOREM SolvingStaysBounded == Spec => []SolvingIsBounded
<1>1. AskedOnce /\ BudgetsHold => SolvingIsBounded BY DEF SolvingIsBounded
<1> QED BY <1>1, PrefixesAreAskedOnce, QueryBudgetsHold, PTL

(* Between select_task and next_input the active task is the scheduled     *)
(* one; that makes the credit right whether or not a solver seed with a    *)
(* task of its own is taken.                                               *)
CreditInv ==
  /\ at \in {"ingest", "metadata"} => active = scheduled
  /\ CreditGoesToTheTask

(* Prefixes and queue records are credited to the task whose attempts and  *)
(* distance the run counts for, though a solver seed can replace the task  *)
(* that select_task chose (next_input, on_result, remember).               *)
THEOREM CreditIsRight == Spec => []CreditGoesToTheTask
<1>1. ASSUME Init PROVE CreditInv
  BY <1>1 DEF Init, StageInit, CreditInv, CreditGoesToTheTask
<1>2. ASSUME CreditInv, [Next]_vars PROVE CreditInv'
  <2> USE <1>2 DEF CreditInv, CreditGoesToTheTask, TaskOfRun, scheduleVars
  <2>1. CASE Launch BY <2>1 DEF Launch
  <2>2. CASE SelectTask \/ SelectNone BY <2>2 DEF SelectTask, SelectNone
  <2>3. CASE TimeUp \/ StageDies BY <2>3 DEF TimeUp, StageDies
  <2>4. CASE IngestSeed \/ ReadMetadata BY <2>4 DEF IngestSeed, ReadMetadata
  <2>5. CASE NextInput
    <3>1. CASE SolverIsNext BY <2>5, <3>1 DEF NextInput, ActiveFor
    <3>2. CASE ~SolverIsNext BY <2>5, <3>2 DEF NextInput, NoInput
    <3> QED BY <3>1, <3>2
  <2>6. CASE RunStops \/ RunEnds BY <2>6 DEF RunStops, RunEnds
  <2>7. CASE FinishLine BY <2>7 DEF FinishLine, stageVars
  <2>8. CASE RememberReach \/ RememberDistance \/ Retain
    BY <2>8 DEF RememberReach, RememberDistance, Retain
  <2>9. CASE WriteGoal \/ EndIteration BY <2>9 DEF WriteGoal, EndIteration
  <2>10. CASE Solver \/ Collect BY <2>10 DEF Solver, Collect, stageVars
  <2>11. CASE UNCHANGED vars BY <2>11 DEF vars, stageVars
  <2> QED BY <2>1, <2>2, <2>3, <2>4, <2>5, <2>6, <2>7, <2>8, <2>9, <2>10, <2>11
        DEF Next, Engine, EngineLeaves, StageStep, Terminated
<1>3. CreditInv => CreditGoesToTheTask BY DEF CreditInv
<1> QED BY <1>1, <1>2, <1>3, PTL DEF Spec

-----------------------------------------------------------------------------
(***************************************************************************)
(* Candidates and prefixes.                                                *)
(***************************************************************************)

(* What on_result has still to report was not reported before. *)
FoundInv ==
  /\ result.goals \subseteq reached \cap Exact
  /\ result.goals \cap Elements(found) = {}
  /\ OneCandidatePerGoal

(* A step that reports nothing and forgets no reached goal keeps it. *)
LEMMA FoundFrame ==
  ASSUME FoundInv, UNCHANGED <<found, reached>>, result'.goals \in {result.goals, {}}
  PROVE  FoundInv'
BY DEF FoundInv, OneCandidatePerGoal, NoRepeats, Elements

(* The reports of a goal are one by one. *)
LEMMA WriteKeepsFound ==
  ASSUME TypeOK, FoundInv, WriteGoal
  PROVE  FoundInv'
<1>1. PICK t \in result.goals : /\ found' = Append(found, t)
                                /\ result' = [result EXCEPT !.goals = @ \ {t}]
  BY DEF WriteGoal
<1>2. result \in Result /\ found \in Seq(Tasks) BY DEF TypeOK, StageTypeOK
<1>3. t \in Tasks /\ result'.goals = result.goals \ {t} BY <1>1, <1>2 DEF Result
<1>4. /\ DOMAIN found' = 1..(Len(found) + 1) /\ DOMAIN found = 1..Len(found)
      /\ Len(found) \in Nat /\ found'[Len(found) + 1] = t
      /\ \A i \in DOMAIN found : found'[i] = found[i]
  BY <1>1, <1>2, <1>3
<1>5. \A i \in DOMAIN found : found[i] # t BY <1>1 DEF FoundInv, Elements
<1>6. Elements(found') = Elements(found) \cup {t}
  <2>1. ASSUME NEW i \in DOMAIN found' PROVE found'[i] \in Elements(found) \cup {t}
    <3>1. CASE i \in DOMAIN found BY <1>4, <3>1 DEF Elements
    <3>2. CASE i = Len(found) + 1 BY <1>4, <3>2
    <3> QED BY <1>4, <3>1, <3>2
  <2>2. ASSUME NEW i \in DOMAIN found PROVE found[i] \in Elements(found')
    <3>1. i \in DOMAIN found' /\ found'[i] = found[i] BY <1>4
    <3> QED BY <3>1 DEF Elements
  <2>3. t \in Elements(found')
    <3>1. Len(found) + 1 \in DOMAIN found' BY <1>4
    <3> QED BY <1>4, <3>1 DEF Elements
  <2>4. Elements(found') \subseteq Elements(found) \cup {t} BY <2>1 DEF Elements
  <2>5. Elements(found) \subseteq Elements(found') BY <2>2 DEF Elements
  <2> QED BY <2>3, <2>4, <2>5
<1>7. NoRepeats(found') BY <1>4, <1>5 DEF FoundInv, OneCandidatePerGoal, NoRepeats
<1>8. reached' = reached BY DEF WriteGoal
<1>9. (result.goals \subseteq reached \cap Exact)' BY <1>3, <1>8 DEF FoundInv
<1>10. (result.goals \cap Elements(found) = {})'
  <2>1. result'.goals \cap Elements(found') = {} BY <1>3, <1>6 DEF FoundInv
  <2> QED BY <2>1 DEF Elements
<1>11. OneCandidatePerGoal'
  <2>1. Elements(found') \subseteq reached' \cap Exact
    BY <1>1, <1>6, <1>8 DEF FoundInv, OneCandidatePerGoal
  <2> QED BY <1>7, <2>1 DEF OneCandidatePerGoal, NoRepeats, Elements
<1> QED BY <1>9, <1>10, <1>11 DEF FoundInv

(* A run reports the exact goals that are hit for the first time. *)
LEMMA RunKeepsFound ==
  ASSUME TypeOK, FoundInv, RunEnds
  PROVE  FoundInv'
<1>1. PICK hits \in SUBSET Tasks : reached' = reached \cup hits
                                   /\ result'.goals = (hits \ reached) \cap Exact
  BY DEF RunEnds, FirstHits
<1>2. found' = found BY DEF RunEnds
<1>3. Elements(found) \subseteq reached \cap Exact BY DEF FoundInv, OneCandidatePerGoal
<1>4. Elements(found)' = Elements(found) BY <1>2 DEF Elements
<1>5. NoRepeats(found)' BY <1>2 DEF FoundInv, OneCandidatePerGoal, NoRepeats
<1> QED BY <1>1, <1>3, <1>4, <1>5 DEF FoundInv, OneCandidatePerGoal

(* A goal becomes a semantic_goal candidate once, however often and by     *)
(* whichever input it is hit, and only if it is modelled exactly           *)
(* (on_result).                                                            *)
THEOREM GoalsAreReportedOnce == Spec => []OneCandidatePerGoal
<1>1. ASSUME Init PROVE FoundInv
  BY <1>1 DEF Init, StageInit, NoResult, FoundInv, OneCandidatePerGoal, NoRepeats, Elements
<1>2. ASSUME TypeOK, FoundInv, [Next]_vars PROVE FoundInv'
  <2>t. result \in Result BY <1>2 DEF TypeOK, StageTypeOK
  <2>f. ASSUME UNCHANGED <<found, reached, result>> PROVE FoundInv'
    BY <1>2, <2>f, FoundFrame
  <2>1. CASE Launch BY <2>1, <2>f DEF Launch
  <2>2. CASE SelectTask \/ SelectNone \/ TimeUp \/ StageDies
    BY <2>2, <2>f DEF SelectTask, SelectNone, TimeUp, StageDies
  <2>3. CASE IngestSeed \/ ReadMetadata \/ NextInput \/ RunStops
    BY <2>3, <2>f DEF IngestSeed, ReadMetadata, NextInput, RunStops
  <2>4. CASE RunEnds BY <1>2, <2>4, RunKeepsFound
  <2>5. CASE FinishLine BY <2>5, <2>f DEF FinishLine, stageVars
  <2>6. CASE RememberReach
    <3>1. result'.goals = result.goals BY <2>t, <2>6 DEF RememberReach, Result
    <3> QED BY <1>2, <2>6, <3>1, FoundFrame DEF RememberReach
  <2>7. CASE RememberDistance \/ Retain BY <2>7, <2>f DEF RememberDistance, Retain
  <2>8. CASE WriteGoal BY <1>2, <2>8, WriteKeepsFound
  <2>9. CASE EndIteration
    BY <1>2, <2>9, FoundFrame DEF EndIteration, NoResult
  <2>10. CASE Solver \/ Collect BY <2>10, <2>f DEF Solver, Collect, stageVars
  <2>11. CASE UNCHANGED vars BY <2>11, <2>f DEF vars, stageVars
  <2> QED BY <1>2, <2>1, <2>2, <2>3, <2>4, <2>5, <2>6, <2>7, <2>8, <2>9, <2>10, <2>11
        DEF Next, Engine, EngineLeaves, StageStep, Terminated
<1>3. FoundInv => OneCandidatePerGoal BY DEF FoundInv
<1> QED BY <1>1, <1>2, <1>3, HybridTypes, PTL DEF Spec

(* The prefix of a counted hazard reach, or the reason that there is none. *)
Kept(t) ==
  \/ \E p \in prefixes : p.source = "relevant_reach" /\ p.task = t
  \/ Full /\ Evictable = {}

(* A full store without an evictable prefix takes nothing any more.        *)
LEMMA FullStays ==
  ASSUME NEW source, NEW t, NEW d, Remember(source, t, d), Full, Evictable = {}
  PROVE  (Full /\ Evictable = {})'
<1>1. ~CanRemember(source) BY DEF CanRemember
<1>2. prefixes' = prefixes BY <1>1 DEF Remember, prefixVars
<1> QED BY <1>2 DEF Full, Evictable

(* remember keeps the prefix of a reach: it is not evictable.              *)
LEMMA RememberKeeps ==
  ASSUME NEW source, NEW t, NEW d, Remember(source, t, d), NEW u, Kept(u)
  PROVE  Kept(u)'
<1>1. CASE Full /\ Evictable = {} BY <1>1, FullStays DEF Kept
<1>2. ASSUME NEW p \in prefixes, p.source = "relevant_reach", p.task = u
      PROVE  Kept(u)'
  <2>1. p \notin Victim BY <1>2 DEF Victim, Evictable
  <2>2. p \in prefixes' BY <2>1 DEF Remember, Store, prefixVars
  <2> QED BY <1>2, <2>2 DEF Kept
<1> QED BY <1>1, <1>2 DEF Kept

(* A reach that is remembered has its prefix, unless the store is stuck.   *)
LEMMA ReachIsKept ==
  ASSUME NEW t, NEW d, Remember("relevant_reach", t, d)
  PROVE  Kept(t)'
<1>1. CASE CanRemember("relevant_reach")
  <2>1. [id |-> nextPrefix, task |-> t, source |-> "relevant_reach"] \in prefixes'
    BY <1>1 DEF Remember, Store
  <2> QED BY <2>1 DEF Kept
<1>2. CASE ~CanRemember("relevant_reach")
  <2>1. Full /\ Evictable = {} BY <1>2 DEF CanRemember
  <2> QED BY <2>1, FullStays DEF Kept
<1> QED BY <1>1, <1>2

(* A hazard reach that is counted, and so never looked for again, keeps    *)
(* the prefix that led to it however long the run goes on: the store may   *)
(* lack it only when it was full of prefixes that are never given up.      *)
THEOREM HazardReachesAreKept == Spec => []ReachesAreKept
<1>1. Init => ReachesAreKept BY DEF Init, StageInit, ReachesAreKept
<1>2. ASSUME ReachesAreKept, [Next]_vars PROVE ReachesAreKept'
  <2>0. \A u \in reaches : Kept(u) BY <1>2 DEF ReachesAreKept, Kept
  <2> SUFFICES \A u \in reaches' : Kept(u)' BY DEF ReachesAreKept, Kept
  <2>f. ASSUME prefixes' = prefixes, reaches' = reaches PROVE \A u \in reaches' : Kept(u)'
    BY <2>0, <2>f DEF Kept, Full, Evictable
  <2>r. ASSUME NEW source, NEW t, NEW d, Remember(source, t, d), reaches' = reaches
        PROVE  \A u \in reaches' : Kept(u)'
    BY <2>0, <2>r, RememberKeeps
  <2>1. CASE Launch BY <2>1, <2>f DEF Launch, prefixVars
  <2>2. CASE SelectTask \/ SelectNone \/ TimeUp \/ StageDies
    BY <2>2, <2>f DEF SelectTask, SelectNone, TimeUp, StageDies, prefixVars
  <2>3. CASE IngestSeed \/ ReadMetadata \/ NextInput \/ RunStops \/ RunEnds
    BY <2>3, <2>f DEF IngestSeed, ReadMetadata, NextInput, RunStops, RunEnds, prefixVars
  <2>4. CASE FinishLine BY <2>4, <2>f DEF FinishLine, stageVars
  <2>5. CASE RememberReach
    <3>1. PICK t \in result.reach : /\ reaches' = reaches \cup {t}
                                    /\ Remember("relevant_reach", t, MaxDistance)
      BY <2>5 DEF RememberReach
    <3>2. Kept(t)' BY <3>1, ReachIsKept
    <3>3. \A u \in reaches : Kept(u)' BY <2>0, <3>1, RememberKeeps
    <3> QED BY <3>1, <3>2, <3>3
  <2>6. CASE RememberDistance
    <3>1. reaches' = reaches BY <2>6 DEF RememberDistance
    <3>2. Remember("fuzz", active, result.distance) \/ UNCHANGED <<prefixVars, queue, torn>>
      BY <2>6 DEF RememberDistance
    <3> QED BY <3>1, <3>2, <2>f, <2>r DEF prefixVars
  <2>7. CASE Retain
    <3>1. reaches' = reaches BY <2>7 DEF Retain
    <3>2. \/ Remember("solver", active, result.distance)
          \/ Remember("state_novelty", active, result.distance)
          \/ Remember("random", active, result.distance)
          \/ UNCHANGED <<prefixVars, queue, torn>>
      BY <2>7 DEF Retain
    <3> QED BY <3>1, <3>2, <2>f, <2>r DEF prefixVars
  <2>8. CASE WriteGoal \/ EndIteration BY <2>8, <2>f DEF WriteGoal, EndIteration, prefixVars
  <2>9. CASE Solver \/ Collect BY <2>9, <2>f DEF Solver, Collect, stageVars
  <2>10. CASE UNCHANGED vars BY <2>10, <2>f DEF vars, stageVars
  <2> QED BY <1>2, <2>1, <2>2, <2>3, <2>4, <2>5, <2>6, <2>7, <2>8, <2>9, <2>10
        DEF Next, Engine, EngineLeaves, StageStep, Terminated
<1> QED BY <1>1, <1>2, PTL DEF Spec
=============================================================================
