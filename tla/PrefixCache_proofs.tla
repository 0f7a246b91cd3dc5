------------------------- MODULE PrefixCache_proofs -------------------------
(***************************************************************************)
(* Proofs about PrefixCache: an id names one prefix for ever; with a       *)
(* complete checkpoint a resumed execution is a cold one; the accounting   *)
(* is exact; nothing that failed a validation or a run survives.           *)
(***************************************************************************)
EXTENDS PrefixCache, FiniteSetTheorems, WellFoundedInduction, TLAPS

-----------------------------------------------------------------------------
(* Paths of frames and their prefixes.                                     *)

(* A path is a sequence of frames no longer than MaxLen. *)
LEMMA PathType ==
  ASSUME NEW p \in Paths
  PROVE  p \in Seq(Frames) /\ Len(p) \in 0..MaxLen /\ DOMAIN p = 1..Len(p)
BY BoundsAssumption DEF Paths

(* A sequence of frames no longer than MaxLen is a path. *)
LEMMA PathIntro ==
  ASSUME NEW p \in Seq(Frames), Len(p) <= MaxLen
  PROVE  p \in Paths
<1>1. Len(p) \in 0..MaxLen /\ p \in [1..Len(p) -> Frames]
  BY BoundsAssumption
<1> QED BY <1>1 DEF Paths

(* The empty path. *)
LEMMA PathEmpty == <<>> \in Paths /\ Len(<<>>) = 0
<1>1. <<>> \in Seq(Frames) /\ Len(<<>>) = 0 OBVIOUS
<1>2. Len(<<>>) <= MaxLen BY <1>1, BoundsAssumption
<1> QED BY <1>1, <1>2, PathIntro

(* The prefix of a path. *)
LEMMA PathPrefix ==
  ASSUME NEW p \in Paths, NEW n \in 0..Len(p)
  PROVE  /\ SubSeq(p, 1, n) \in Paths
         /\ Len(SubSeq(p, 1, n)) = n
         /\ \A i \in 1..n : SubSeq(p, 1, n)[i] = p[i]
<1>1. p \in Seq(Frames) /\ Len(p) \in 0..MaxLen BY PathType
<1>2. SubSeq(p, 1, n) \in Seq(Frames) /\ Len(SubSeq(p, 1, n)) = n
  BY <1>1, BoundsAssumption
<1>3. \A i \in 1..n : SubSeq(p, 1, n)[i] = p[i] BY <1>1, BoundsAssumption
<1>4. Len(SubSeq(p, 1, n)) <= MaxLen BY <1>1, <1>2, BoundsAssumption
<1>5. SubSeq(p, 1, n) \in Paths BY <1>2, <1>4, PathIntro
<1> QED BY <1>2, <1>3, <1>5

(* A prefix grows by the next frame. *)
LEMMA PathStep ==
  ASSUME NEW p \in Paths, NEW n \in 0..(Len(p) - 1)
  PROVE  SubSeq(p, 1, n + 1) = Append(SubSeq(p, 1, n), p[n + 1]) /\ p[n + 1] \in Frames
<1>1. p \in Seq(Frames) /\ Len(p) \in 0..MaxLen BY PathType
<1>2. n \in 0..Len(p) /\ n + 1 \in 0..Len(p) /\ n + 1 \in 1..Len(p) BY <1>1, BoundsAssumption
<1>3. p[n + 1] \in Frames BY <1>1, <1>2
<1>4. SubSeq(p, 1, n) \in Seq(Frames) /\ Len(SubSeq(p, 1, n)) = n BY <1>1, <1>2
<1>5. SubSeq(p, 1, n + 1) \in Seq(Frames) /\ Len(SubSeq(p, 1, n + 1)) = n + 1 BY <1>1, <1>2
<1>6. Append(SubSeq(p, 1, n), p[n + 1]) \in Seq(Frames)
      /\ Len(Append(SubSeq(p, 1, n), p[n + 1])) = n + 1
  BY <1>3, <1>4
<1>7. \A i \in 1..(n + 1) : SubSeq(p, 1, n + 1)[i] = Append(SubSeq(p, 1, n), p[n + 1])[i]
  <2> TAKE i \in 1..(n + 1)
  <2>1. SubSeq(p, 1, n + 1)[i] = p[i] BY <1>1, <1>2
  <2>2. CASE i = n + 1 BY <2>1, <2>2, <1>3, <1>4
  <2>3. CASE i \in 1..n BY <2>1, <2>3, <1>1, <1>2, <1>3, <1>4
  <2> QED BY <2>2, <2>3
<1> QED BY <1>3, <1>5, <1>6, <1>7

(* The longest prefix is the path. *)
LEMMA PathWhole ==
  ASSUME NEW p \in Paths
  PROVE  SubSeq(p, 1, Len(p)) = p
<1>1. p \in Seq(Frames) /\ Len(p) \in 0..MaxLen BY PathType
<1>2. SubSeq(p, 1, Len(p)) \in Seq(Frames) /\ Len(SubSeq(p, 1, Len(p))) = Len(p) BY <1>1
<1>3. \A i \in 1..Len(p) : SubSeq(p, 1, Len(p))[i] = p[i] BY <1>1
<1> QED BY <1>1, <1>2, <1>3

-----------------------------------------------------------------------------
(* The inductive invariant.  Everything that carries an id agrees with the *)
(* path the id was born for; fresh ids are new because next_id only grows. *)

Known(i, r, p) == [id |-> i, root |-> r, path |-> p] \in born

BornInv ==
  /\ \A b \in born : b.id < nextId
  /\ \A a, b \in born : a.id = b.id => a = b

TreeInv ==
  /\ \A e \in roots : Known(e.id, e.root, <<>>)
  /\ \A n \in nodes : \E b \in born :
        /\ b.id = n.parent /\ Len(b.path) < MaxLen
        /\ Known(n.id, b.root, Append(b.path, n.frame))

IdsInv == \A i \in 1..Len(ids) : Known(ids[i], tc.root, Prefix(i))

SnapInv ==
  /\ \A s \in snapshots : \E b \in born : b.id = s.id /\ Len(b.path) = s.depth
  /\ \A s, t \in snapshots : s.id = t.id => s = t

ExportInv == \A e \in exports : Known(e.node, e.root, e.prefix)

(* Where the run stands: how many ids, observations and frames it has. *)
PhaseInv ==
  /\ Len(obs) = index
  /\ pc = "walk" => \E e \in roots : e.root = tc.root
  /\ pc \in {"walk", "open"} /\ provenance # "cold_prefix_fallback" => index = 0 /\ goalMap = {}
  /\ pc = "open" => provenance # "cold_prefix_fallback"
  /\ pc = "walk" /\ provenance = "cold_prefix_fallback" => index = start
  /\ pc \in {"open", "replay", "scan", "done"} => Len(ids) = Len(tc.frames)
  /\ pc = "replay" => index <= start
  /\ pc = "done" => index = Len(tc.frames)

IdInv == TypeOK /\ BornInv /\ TreeInv /\ IdsInv /\ SnapInv /\ ExportInv /\ PhaseInv

(* With a complete checkpoint: the live target, the snapshots, the exports *)
(* and the observed field values are those of cold runs.                   *)
ObsCold(os, r, p) ==
  \A i \in 1..Len(os) :
    /\ os[i].blob = Checkpoint(Cold(r, SubSeq(p, 1, i)))
    /\ ColdHits(r, SubSeq(p, 1, i)) \cap Goals \subseteq os[i].hits
    /\ \A g \in os[i].hits : \E j \in 1..i : g \in ColdHits(r, SubSeq(p, 1, j))

Running == \/ pc \in {"replay", "scan", "done"}
           \/ pc = "walk" /\ provenance = "cold_prefix_fallback"

LiveCold == Running => target = Cold(tc.root, Prefix(index))

SnapsCold == \A s \in snapshots, b \in born : s.id = b.id =>
               s.state = Checkpoint(Cold(b.root, b.path)) /\ ObsCold(s.obs, b.root, b.path)

ExportsCold == \A e \in exports : e.state = Checkpoint(Cold(e.root, e.prefix))

MapCold == pc = "replay" => \A g \in goalMap : \E j \in 1..index : g \in ColdHits(tc.root, Prefix(j))

ColdInv == LiveCold /\ ObsCold(obs, tc.root, tc.frames) /\ SnapsCold /\ ExportsCold /\ MapCold

-----------------------------------------------------------------------------
(* IdInv holds initially and every action keeps it.                        *)

(* The placeholder testcase between executions. *)
LEMMA NoCaseType == NoCase \in TestCases /\ Len(NoCase.frames) = 1
<1>1. /\ (CHOOSE r \in Roots : TRUE) \in Roots
      /\ (CHOOSE f \in Frames : TRUE) \in Frames
  BY BoundsAssumption
<1> DEFINE p == <<CHOOSE f \in Frames : TRUE>>
<1>2. p \in Seq(Frames) /\ Len(p) = 1 BY <1>1
<1>3. Len(p) <= MaxLen BY <1>2, BoundsAssumption
<1>4. p \in Paths BY <1>2, <1>3, PathIntro
<1>5. p # <<>> BY <1>2, PathEmpty
<1> QED BY <1>1, <1>2, <1>4, <1>5 DEF NoCase, TestCases

(* A testcase has between one and MaxLen frames. *)
LEMMA CaseType ==
  ASSUME NEW t \in TestCases
  PROVE  /\ t.root \in Roots /\ t.frames \in Paths
         /\ t.frames \in Seq(Frames) /\ Len(t.frames) \in 1..MaxLen
<1>1. t.root \in Roots /\ t.frames \in Paths /\ t.frames # <<>> BY DEF TestCases
<1>2. t.frames \in Seq(Frames) /\ Len(t.frames) \in 0..MaxLen BY <1>1, PathType
<1>3. Len(t.frames) # 0 BY <1>1, <1>2
<1> QED BY <1>1, <1>2, <1>3, BoundsAssumption

(* The initial state. *)
LEMMA InitId == ASSUME Init PROVE IdInv
<1> USE DEF Init
<1>1. TypeOK
  <2>1. target \in States BY NoCaseType, CaseType, PathEmpty, ColdRuns
  <2>2. tc \in TestCases /\ Len(tc.frames) = 1 BY NoCaseType
  <2>3. ids \in Seq(Nat) /\ Len(ids) = 0 /\ obs \in Seq(Observation) OBVIOUS
  <2> QED BY <2>1, <2>2, <2>3, BoundsAssumption DEF TypeOK, CacheType, RunType
<1>2. BornInv /\ TreeInv /\ IdsInv /\ SnapInv /\ ExportInv /\ PhaseInv
  BY DEF BornInv, TreeInv, IdsInv, SnapInv, ExportInv, PhaseInv
<1> QED BY <1>1, <1>2 DEF IdInv

(* The steps that drop the cache: what is left was there before. *)
LEMMA ReturnId == ASSUME IdInv, ReturnOk \/ ReturnCrash \/ Fault \/ PreflightStop PROVE IdInv'
<1> USE DEF ReturnOk, ReturnCrash, Fault, PreflightStop, CrashExit, InvalidateExports,
            ClearCache, DropLocals, runVars, cacheVars
<1>1. TypeOK'
  <2>1. tc' \in TestCases /\ Len(tc'.frames) \in 1..MaxLen /\ tc.frames[1] \in Frames
    BY NoCaseType, CaseType, BoundsAssumption DEF IdInv, TypeOK, CacheType, RunType
  <2>2. target' \in States BY <2>1, TargetTypes DEF IdInv, TypeOK, CacheType, RunType
  <2>3. CASE PreflightStop BY <2>3, <2>2, BoundsAssumption DEF IdInv, TypeOK, CacheType, RunType
  <2>4. CASE ~PreflightStop
    <3>1. DropLocals /\ pc' = "idle" /\ execs' = execs BY <2>4
    <3>2. snapshots' \subseteq snapshots /\ exports' \subseteq exports /\ usedBytes' \in {0, usedBytes}
      BY <2>4
    <3>3. UNCHANGED <<nextId, hits, born>> /\ roots' \subseteq roots /\ nodes' \subseteq nodes
      BY <2>4
    <3>4. lastExit' \in {"Ok", "Crash"} BY <2>4
    <3>5. ids' \in Seq(Nat) /\ Len(ids') = 0 /\ obs' \in Seq(Observation) BY <3>1
    <3> HIDE DEF ReturnOk, ReturnCrash, Fault, PreflightStop, CrashExit, ClearCache
    <3>6. /\ roots' \in SUBSET [id : Nat, root : Roots]
          /\ nodes' \in SUBSET [id : Nat, parent : Nat, frame : Frames]
          /\ snapshots' \in SUBSET Snapshot /\ \A s \in snapshots' : Len(s.obs) = s.depth
          /\ exports' \in SUBSET [node : Nat, root : Roots, prefix : Paths, state : Blobs]
          /\ nextId' \in Nat \ {0} /\ usedBytes' \in Nat /\ hits' \in Nat
          /\ born' \in SUBSET [id : Nat, root : Roots, path : Paths]
      BY <3>2, <3>3 DEF IdInv, TypeOK, CacheType, RunType
    <3>7. /\ Len(ids') <= Len(tc'.frames) /\ start' \in 0..(Len(tc'.frames) - 1)
          /\ index' \in 0..Len(tc'.frames)
      BY <2>1, <3>1, <3>5, BoundsAssumption
    <3>8. goalMap' \subseteq Ids /\ resumed' \in Blobs \cup {NoBlob} /\ executed' \in Nat
          /\ provenance' = "cold" /\ execs' \in 0..MaxExecs
      BY <3>1 DEF IdInv, TypeOK, CacheType, RunType
    <3> QED BY <2>1, <2>2, <3>1, <3>4, <3>5, <3>6, <3>7, <3>8 DEF TypeOK, CacheType, RunType
  <2> QED BY <2>3, <2>4
<1>2. BornInv' /\ TreeInv' /\ SnapInv' /\ ExportInv'
  BY DEF IdInv, BornInv, TreeInv, SnapInv, ExportInv, Known
<1>3. IdsInv' /\ PhaseInv' BY DEF IdInv, IdsInv, PhaseInv, Known, Prefix
<1> QED BY <1>1, <1>2, <1>3 DEF IdInv

(* What stays in the cache while ids are only added keeps its identity. *)
LEMMA KeptId ==
  ASSUME IdInv, born \subseteq born', nodes' \subseteq nodes,
         snapshots' \subseteq snapshots, exports' \subseteq exports
  PROVE  /\ \A n \in nodes' : \E b \in born' :
              /\ b.id = n.parent /\ Len(b.path) < MaxLen
              /\ [id |-> n.id, root |-> b.root, path |-> Append(b.path, n.frame)] \in born'
         /\ SnapInv' /\ ExportInv'
BY DEF IdInv, TreeInv, SnapInv, ExportInv, Known

(* The same for snapshots and exports alone. *)
LEMMA KeptIdWithNodes ==
  ASSUME IdInv, born \subseteq born', snapshots' \subseteq snapshots, exports' \subseteq exports
  PROVE  SnapInv' /\ ExportInv'
BY DEF IdInv, SnapInv, ExportInv, Known

(* The root lookup. *)
LEMMA FindRootId ==
  ASSUME IdInv, NEW rs \in SUBSET roots, NEW r \in Roots, FindRoot(rs, r)
  PROVE  /\ nextId' \in Nat \ {0} /\ born \subseteq born' /\ BornInv'
         /\ born' \in SUBSET [id : Nat, root : Roots, path : Paths]
         /\ roots' \in SUBSET [id : Nat, root : Roots]
         /\ \A e \in roots' : [id |-> e.id, root |-> e.root, path |-> <<>>] \in born'
         /\ \E e \in roots' : e.root = r
<1> USE DEF IdInv, TypeOK, CacheType, TreeInv, Known, BornInv
<1>1. CASE \E e \in rs : e.root = r BY <1>1 DEF FindRoot
<1>2. CASE ~\E e \in rs : e.root = r
  <2> DEFINE new == [id |-> nextId, root |-> r, path |-> <<>>]
  <2>1. /\ roots' = rs \cup {[id |-> nextId, root |-> r]} /\ nextId' = nextId + 1
        /\ born' = born \cup {new}
    BY <1>2 DEF FindRoot
  <2>2. new \in [id : Nat, root : Roots, path : Paths] BY PathEmpty
  <2>3. BornInv' BY <2>1, <2>2
  <2>4. nextId' \in Nat \ {0} /\ roots' \in SUBSET [id : Nat, root : Roots] BY <2>1
  <2>5. born' \in SUBSET [id : Nat, root : Roots, path : Paths] BY <2>1, <2>2
  <2>6. ASSUME NEW e \in roots' PROVE [id |-> e.id, root |-> e.root, path |-> <<>>] \in born'
    <3>1. CASE e \in rs BY <2>1, <3>1
    <3>2. CASE e = [id |-> nextId, root |-> r]
      <4>1. e.id = nextId /\ e.root = r BY <3>2
      <4> QED BY <2>1, <4>1
    <3> QED BY <2>1, <3>1, <3>2
  <2>7. \E e \in roots' : e.root = r
    <3>1. [id |-> nextId, root |-> r] \in roots' BY <2>1
    <3> QED BY <3>1
  <2> QED BY <2>1, <2>3, <2>4, <2>5, <2>6, <2>7
<1> QED BY <1>1, <1>2

(* A testcase begins. *)
LEMMA BeginId == ASSUME IdInv, NEW t \in TestCases, Begin(t) PROVE IdInv'
<1> DEFINE rs == IF Cardinality(nodes) > MaxEntries * NodesPerEntry THEN {} ELSE roots
<1>1. FindRoot(rs, t.root) /\ rs \in SUBSET roots /\ t.root \in Roots
      /\ Len(t.frames) \in 1..MaxLen
  BY CaseType DEF Begin
<1>2. /\ nodes' \subseteq nodes /\ snapshots' \subseteq snapshots /\ exports' = exports
      /\ usedBytes' \in {0, usedBytes} /\ hits' = hits
  BY DEF Begin
<1>3. /\ nextId' \in Nat \ {0} /\ born \subseteq born' /\ BornInv'
      /\ born' \in SUBSET [id : Nat, root : Roots, path : Paths]
      /\ roots' \in SUBSET [id : Nat, root : Roots]
      /\ \A e \in roots' : [id |-> e.id, root |-> e.root, path |-> <<>>] \in born'
      /\ \E e \in roots' : e.root = t.root
  BY <1>1, FindRootId
<1>4. CacheType' BY <1>2, <1>3 DEF IdInv, TypeOK, CacheType
<1>5. TreeInv' /\ SnapInv' /\ ExportInv' BY <1>2, <1>3, KeptId DEF TreeInv, Known
<1>6. /\ tc' = t /\ ids' = <<>> /\ start' = 0 /\ index' = 0 /\ obs' = <<>> /\ goalMap' = {}
      /\ resumed' = NoBlob /\ provenance' = "cold" /\ executed' = 0
      /\ pc' = "walk" /\ execs' = execs + 1 /\ execs < MaxExecs
      /\ UNCHANGED <<target, lastExit>>
  BY DEF Begin
<1>7. ids' \in Seq(Nat) /\ Len(ids') = 0 /\ obs' \in Seq(Observation) /\ Len(obs') = 0 BY <1>6
<1>8. RunType' BY <1>1, <1>6, <1>7, BoundsAssumption DEF IdInv, TypeOK, RunType
<1>9. IdsInv' BY <1>7 DEF IdsInv
<1>10. PhaseInv' BY <1>3, <1>6, <1>7 DEF PhaseInv
<1> QED BY <1>3, <1>4, <1>5, <1>8, <1>9, <1>10 DEF IdInv, TypeOK

(* The node prefix_ids stands at is that of the frames walked so far. *)
LEMMA ParentKnown ==
  ASSUME IdInv, pc = "walk"
  PROVE  Known(ParentId, tc.root, Prefix(Len(ids))) /\ ParentId \in Nat
<1>1. tc.frames \in Paths /\ tc.frames \in Seq(Frames) BY CaseType DEF IdInv, TypeOK, RunType
<1>2. CASE ids = <<>>
  <2>1. \E e \in roots : e.root = tc.root BY DEF IdInv, PhaseInv
  <2>2. PICK e \in roots : e.root = tc.root /\ ParentId = e.id BY <1>2, <2>1 DEF ParentId
  <2>3. Known(ParentId, tc.root, <<>>) /\ ParentId \in Nat
    BY <2>2 DEF IdInv, TreeInv, TypeOK, CacheType
  <2>4. Prefix(Len(ids)) = <<>>
    <3>1. Len(ids) = 0 /\ 0 \in 0..Len(tc.frames) BY <1>1, <1>2
    <3>2. SubSeq(tc.frames, 1, 0) \in Seq(Frames) /\ Len(SubSeq(tc.frames, 1, 0)) = 0 BY <1>1
    <3> QED BY <3>1, <3>2 DEF Prefix
  <2> QED BY <2>3, <2>4
<1>3. CASE ids # <<>>
  <2>1. ids \in Seq(Nat) BY DEF IdInv, TypeOK, RunType
  <2>2. Len(ids) \in 1..Len(ids) /\ ids[Len(ids)] \in Nat BY <1>3, <2>1
  <2> QED BY <1>3, <2>2 DEF ParentId, IdInv, IdsInv
<1> QED BY <1>2, <1>3

(* One more frame of prefix_ids. *)
LEMMA WalkFrameId == ASSUME IdInv, WalkFrame PROVE IdInv'
<1> DEFINE k == Len(ids)
           f == tc.frames[k + 1]
           known == {n \in nodes : n.parent = ParentId /\ n.frame = f}
<1>1. /\ tc.frames \in Paths /\ tc.root \in Roots /\ k \in 0..(Len(tc.frames) - 1)
      /\ Len(tc.frames) \in 1..MaxLen /\ ids \in Seq(Nat)
  <2>1. tc \in TestCases /\ ids \in Seq(Nat) /\ Len(ids) < Len(tc.frames)
    BY DEF WalkFrame, IdInv, TypeOK, RunType
  <2>2. tc.frames \in Paths /\ tc.root \in Roots /\ Len(tc.frames) \in 1..MaxLen
    BY <2>1, CaseType
  <2> QED BY <2>1, <2>2, BoundsAssumption
<1>2. /\ Prefix(k + 1) = Append(Prefix(k), f) /\ f \in Frames
      /\ Prefix(k + 1) \in Paths /\ Prefix(k) \in Paths /\ Len(Prefix(k)) = k
  BY <1>1, PathStep, PathPrefix, BoundsAssumption DEF Prefix
<1>3. Known(ParentId, tc.root, Prefix(k)) /\ ParentId \in Nat BY ParentKnown DEF WalkFrame
<1>4. /\ UNCHANGED <<roots, snapshots, usedBytes, hits, exports, pc, tc, start, index, target,
                     goalMap, obs, resumed, provenance, executed, lastExit, execs>>
  BY DEF WalkFrame, cacheVars
<1>5. /\ born \subseteq born' /\ nextId' \in Nat \ {0}
      /\ born' \in SUBSET [id : Nat, root : Roots, path : Paths]
      /\ nodes' \in SUBSET [id : Nat, parent : Nat, frame : Frames]
      /\ BornInv' /\ TreeInv'
      /\ \E i \in Nat : ids' = Append(ids, i)
                        /\ [id |-> i, root |-> tc.root, path |-> Prefix(k + 1)] \in born'
  <2>1. CASE known # {}
    <3>1. PICK n \in known : ids' = Append(ids, n.id) /\ UNCHANGED cacheVars
      BY <2>1 DEF WalkFrame
    <3>2. PICK b \in born : /\ b.id = n.parent
                            /\ Known(n.id, b.root, Append(b.path, n.frame))
      BY <3>1 DEF IdInv, TreeInv
    <3>3. b = [id |-> ParentId, root |-> tc.root, path |-> Prefix(k)]
      BY <3>1, <3>2, <1>3 DEF IdInv, BornInv, Known
    <3>4. Known(n.id, tc.root, Prefix(k + 1)) BY <1>2, <3>1, <3>2, <3>3
    <3>5. n.id \in Nat BY <3>1 DEF IdInv, TypeOK, CacheType
    <3> QED BY <3>1, <3>4, <3>5 DEF IdInv, TypeOK, CacheType, BornInv, TreeInv, Known, cacheVars
  <2>2. CASE known = {}
    <3> DEFINE new == [id |-> nextId, root |-> tc.root, path |-> Prefix(k + 1)]
               node == [id |-> nextId, parent |-> ParentId, frame |-> f]
    <3>1. /\ ids' = Append(ids, nextId) /\ nodes' = nodes \cup {node} /\ roots' = roots
          /\ nextId' = nextId + 1 /\ born' = born \cup {new}
      BY <2>2 DEF WalkFrame, Prefix
    <3>2. /\ new \in [id : Nat, root : Roots, path : Paths]
          /\ node \in [id : Nat, parent : Nat, frame : Frames] /\ nextId \in Nat \ {0}
      BY <1>1, <1>2, <1>3 DEF IdInv, TypeOK, CacheType
    <3>3. BornInv' BY <3>1, <3>2 DEF IdInv, BornInv, TypeOK, CacheType
    <3>4. \A e \in roots' : [id |-> e.id, root |-> e.root, path |-> <<>>] \in born'
      BY <3>1 DEF IdInv, TreeInv, Known
    <3>5. ASSUME NEW n \in nodes'
          PROVE \E b \in born' :
                  /\ b.id = n.parent /\ Len(b.path) < MaxLen
                  /\ [id |-> n.id, root |-> b.root, path |-> Append(b.path, n.frame)] \in born'
      <4>1. CASE n \in nodes BY <3>1, <4>1 DEF IdInv, TreeInv, Known
      <4>2. CASE n = node
        <5> DEFINE b == [id |-> ParentId, root |-> tc.root, path |-> Prefix(k)]
        <5>1. b \in born' /\ b.id = n.parent /\ Len(b.path) < MaxLen
          BY <1>1, <1>2, <1>3, <3>1, <4>2, BoundsAssumption DEF Known
        <5>2. n.id = nextId /\ n.frame = f BY <4>2
        <5>3. [id |-> n.id, root |-> b.root, path |-> Append(b.path, n.frame)] = new
          BY <5>2, <1>2
        <5> QED BY <5>1, <5>3, <3>1
      <4> QED BY <3>1, <4>1, <4>2
    <3>6. TreeInv' BY <3>4, <3>5 DEF TreeInv, Known
    <3> QED BY <3>1, <3>2, <3>3, <3>6 DEF IdInv, TypeOK, CacheType
  <2> QED BY <2>1, <2>2
<1>6. CacheType' BY <1>4, <1>5 DEF IdInv, TypeOK, CacheType
<1>7. /\ ids' \in Seq(Nat) /\ Len(ids') = k + 1 /\ \A i \in 1..k : ids'[i] = ids[i]
      /\ [id |-> ids'[k + 1], root |-> tc.root, path |-> Prefix(k + 1)] \in born'
  BY <1>1, <1>5
<1>8. RunType' BY <1>1, <1>4, <1>7, BoundsAssumption DEF IdInv, TypeOK, RunType
<1>9. SnapInv' /\ ExportInv' BY <1>4, <1>5, KeptIdWithNodes DEF IdInv
<1>10. IdsInv'
  <2> SUFFICES ASSUME NEW i \in 1..Len(ids')
               PROVE [id |-> ids'[i], root |-> tc.root, path |-> Prefix(i)] \in born'
    BY <1>4 DEF IdsInv, Known, Prefix
  <2>1. CASE i = k + 1 BY <2>1, <1>7
  <2>2. CASE i \in 1..k BY <2>2, <1>5, <1>7 DEF IdInv, IdsInv, Known
  <2> QED BY <2>1, <2>2, <1>1, <1>7
<1>11. PhaseInv' BY <1>4, <1>7 DEF IdInv, PhaseInv, WalkFrame
<1> QED BY <1>5, <1>6, <1>8, <1>9, <1>10, <1>11 DEF IdInv, TypeOK

(* prefix_ids returns. *)
LEMMA EndWalkId == ASSUME IdInv, EndWalk PROVE IdInv'
<1>1. UNCHANGED <<cacheVars, exports, runVars, lastExit, execs>> /\ pc' \in {"scan", "open"}
  BY DEF EndWalk
<1>2. TypeOK' BY <1>1 DEF IdInv, TypeOK, CacheType, RunType, cacheVars, runVars
<1>3. BornInv' /\ TreeInv' /\ IdsInv' /\ SnapInv' /\ ExportInv'
  BY <1>1 DEF IdInv, BornInv, TreeInv, IdsInv, SnapInv, ExportInv, Known, Prefix, cacheVars, runVars
<1>4. PhaseInv' BY <1>1 DEF IdInv, PhaseInv, EndWalk, cacheVars, runVars
<1> QED BY <1>2, <1>3, <1>4 DEF IdInv

(* Observed hits are runtime ids. *)
LEMMA ObsHits ==
  ASSUME NEW os \in Seq(Observation)
  PROVE  UNION {os[i].hits : i \in DOMAIN os} \subseteq Ids
<1>1. ASSUME NEW i \in DOMAIN os PROVE os[i].hits \subseteq Ids
  <2>1. os[i] \in Observation OBVIOUS
  <2> QED BY <2>1, BoundsAssumption DEF Observation
<1> QED BY <1>1

(* Same snapshot up to its use count. *)
Alike(s, t) == s.id = t.id /\ s.depth = t.depth /\ s.state = t.state /\ s.obs = t.obs

(* Counting a use changes nothing else. *)
LEMMA BumpAlike ==
  ASSUME NEW s \in Snapshot
  PROVE  /\ [s EXCEPT !.saves = @ + 1] \in Snapshot
         /\ Alike([s EXCEPT !.saves = @ + 1], s)
BY DEF Snapshot, Alike

(* Replacing a snapshot by itself with one more use. *)
LEMMA BumpOne ==
  ASSUME TypeOK, SnapInv, NEW s \in snapshots,
         snapshots' = (snapshots \ {s}) \cup {[s EXCEPT !.saves = @ + 1]}
  PROVE  /\ snapshots' \in SUBSET Snapshot
         /\ \A x \in snapshots' : \E y \in snapshots : Alike(x, y)
         /\ \A x, y \in snapshots' : x.id = y.id => x = y
<1> DEFINE z == [s EXCEPT !.saves = @ + 1]
<1>1. z \in Snapshot /\ Alike(z, s) BY BumpAlike DEF TypeOK, CacheType
<1>2. snapshots' \in SUBSET Snapshot BY <1>1 DEF TypeOK, CacheType
<1>3. \A x \in snapshots' : x = z \/ (x \in snapshots /\ x # s) OBVIOUS
<1>4. \A x \in snapshots' : \E y \in snapshots : Alike(x, y) BY <1>1, <1>3 DEF Alike
<1>5. \A x \in snapshots : x # s => x.id # z.id BY <1>1 DEF SnapInv, Alike
<1>6. \A x, y \in snapshots' : x.id = y.id => x = y BY <1>3, <1>5 DEF SnapInv
<1> QED BY <1>2, <1>4, <1>6

(* The prefix lookup, with or without a restore. *)
LEMMA OpenId == ASSUME IdInv, Open PROVE IdInv'
<1>1. /\ UNCHANGED <<roots, nodes, nextId, usedBytes, born, exports, tc, ids, executed, lastExit, execs>>
      /\ pc = "open"
  BY DEF Open
<1>2. BornInv' /\ TreeInv' /\ ExportInv' /\ IdsInv'
  BY <1>1 DEF IdInv, BornInv, TreeInv, ExportInv, IdsInv, Known, Prefix
<1>3. /\ tc \in TestCases /\ tc.root \in Roots /\ tc.frames \in Paths
      /\ Len(tc.frames) \in 1..MaxLen /\ target \in States /\ Boot(target, tc.root) \in States
      /\ index = 0 /\ goalMap = {} /\ provenance # "cold_prefix_fallback" /\ Len(obs) = 0
  BY <1>1, CaseType, TargetTypes DEF IdInv, TypeOK, RunType, PhaseInv
<1>4. CASE CachedDepths = {}
  <2>1. /\ target' = Boot(target, tc.root) /\ pc' = "scan"
        /\ UNCHANGED <<snapshots, hits, start, index, obs, goalMap, resumed, provenance>>
    BY <1>4 DEF Open
  <2>2. CacheType' /\ SnapInv' BY <1>1, <2>1 DEF IdInv, TypeOK, CacheType, SnapInv
  <2>3. RunType' /\ PhaseInv' BY <1>1, <1>3, <2>1 DEF IdInv, TypeOK, RunType, PhaseInv
  <2> QED BY <1>2, <2>2, <2>3 DEF IdInv, TypeOK
<1>5. CASE CachedDepths # {}
  <2>1. PICK d \in CachedDepths, s \in snapshots :
          /\ s.id = ids[d]
          /\ snapshots' = (snapshots \ {s}) \cup {[s EXCEPT !.saves = @ + 1]}
          /\ hits' = hits + 1 /\ start' = d
          /\ LET back == Restore(Boot(target, tc.root), s.state)
             IN \/ /\ target' = back /\ obs' = s.obs /\ index' = d /\ provenance' = "snapshot"
                   /\ goalMap' = UNION {s.obs[i].hits : i \in DOMAIN s.obs}
                   /\ pc' = "scan" /\ UNCHANGED resumed
                \/ /\ resumed' = Checkpoint(back)
                   /\ target' = ReplayStart(back)
                   /\ pc' = "replay" /\ UNCHANGED <<obs, index, goalMap, provenance>>
    BY <1>5 DEF Open
  <2>2. d \in 1..(Len(tc.frames) - 1) /\ d \in 1..Len(ids) /\ Len(ids) = Len(tc.frames)
    BY <1>1, <1>3, BoundsAssumption DEF CachedDepths, IdInv, PhaseInv
  <2>3. s \in Snapshot /\ Len(s.obs) = s.depth BY DEF IdInv, TypeOK, CacheType
  <2>4. s.depth = d
    <3>1. Known(s.id, tc.root, Prefix(d)) BY <2>1, <2>2 DEF IdInv, IdsInv
    <3>2. PICK b \in born : b.id = s.id /\ Len(b.path) = s.depth BY DEF IdInv, SnapInv
    <3>3. b = [id |-> s.id, root |-> tc.root, path |-> Prefix(d)]
      BY <3>1, <3>2 DEF IdInv, BornInv, Known
    <3>4. d \in 0..Len(tc.frames) BY <2>2, <1>3, BoundsAssumption
    <3>5. Len(Prefix(d)) = d BY <3>4, <1>3, PathPrefix DEF Prefix
    <3> QED BY <3>2, <3>3, <3>5
  <2>5. /\ snapshots' \in SUBSET Snapshot
        /\ \A x \in snapshots' : \E y \in snapshots : Alike(x, y)
        /\ \A x, y \in snapshots' : x.id = y.id => x = y
    BY <2>1, BumpOne DEF IdInv
  <2>6. CacheType' /\ SnapInv'
    <3>1. \A x \in snapshots' : Len(x.obs) = x.depth
      BY <2>5 DEF IdInv, TypeOK, CacheType, Alike
    <3>2. CacheType' BY <1>1, <2>1, <2>5, <3>1 DEF IdInv, TypeOK, CacheType
    <3>3. \A x \in snapshots' : \E b \in born' : b.id = x.id /\ Len(b.path) = x.depth
      BY <1>1, <2>5 DEF IdInv, SnapInv, Alike
    <3> QED BY <3>2, <3>3, <2>5 DEF SnapInv
  <2>7. RunType'
    <3>1. Restore(Boot(target, tc.root), s.state) \in States
      BY <1>3, <2>3, TargetTypes DEF Snapshot
    <3>2. target' \in States /\ resumed' \in Blobs \cup {NoBlob}
      BY <2>1, <3>1, <1>3, TargetTypes DEF ReplayStart, IdInv, TypeOK, RunType
    <3>3. obs' \in Seq(Observation) BY <2>1, <2>3 DEF Snapshot, IdInv, TypeOK, RunType
    <3>4. UNION {s.obs[i].hits : i \in DOMAIN s.obs} \subseteq Ids
      BY <2>3, ObsHits DEF Snapshot
    <3>5. goalMap' \subseteq Ids BY <2>1, <3>4, <1>3
    <3>6. start' \in 0..(Len(tc'.frames) - 1) /\ index' \in 0..Len(tc'.frames)
      BY <1>1, <1>3, <2>1, <2>2, BoundsAssumption
    <3>7. provenance' \in {"cold", "snapshot", "cold_validation", "cold_prefix_fallback"}
          /\ pc' \in {"scan", "replay"}
      BY <2>1 DEF IdInv, TypeOK, RunType
    <3> QED BY <1>1, <1>3, <3>2, <3>3, <3>5, <3>6, <3>7 DEF IdInv, TypeOK, RunType
  <2>8. PhaseInv'
    <3>1. Len(obs') = index' BY <2>1, <2>3, <2>4, <1>3
    <3>2. pc' \in {"scan", "replay"} /\ (pc' = "replay" => index' <= start')
      BY <2>1, <2>2, <1>3
    <3> QED BY <1>1, <2>2, <3>1, <3>2 DEF PhaseInv
  <2> QED BY <1>2, <2>6, <2>7, <2>8 DEF IdInv, TypeOK
<1> QED BY <1>4, <1>5

(* One frame executed, wherever it runs: the target, the map and the new   *)
(* observation.                                                            *)
LEMMA FrameType ==
  ASSUME IdInv, index < Len(tc.frames), NEW map \in SUBSET Ids,
         target' = Step(target, tc.frames[index + 1]),
         goalMap' = map \cup Hits(target, tc.frames[index + 1]),
         obs' = Append(obs, Observe(goalMap', target'))
  PROVE  /\ target' \in States /\ goalMap' \subseteq Ids /\ Observe(goalMap', target') \in Observation
         /\ obs' \in Seq(Observation) /\ Len(obs') = index + 1
         /\ index + 1 \in 1..Len(tc.frames) /\ Len(tc.frames) \in 1..MaxLen
         /\ tc.frames \in Paths /\ index \in 0..(Len(tc.frames) - 1)
<1>1. /\ tc.frames \in Paths /\ tc.frames \in Seq(Frames) /\ Len(tc.frames) \in 1..MaxLen
      /\ index \in 0..Len(tc.frames) /\ target \in States
      /\ obs \in Seq(Observation) /\ Len(obs) = index
  BY CaseType DEF IdInv, TypeOK, RunType, PhaseInv
<1>2. index + 1 \in 1..Len(tc.frames) /\ index \in 0..(Len(tc.frames) - 1)
  BY <1>1, BoundsAssumption
<1>3. tc.frames[index + 1] \in Frames BY <1>1, <1>2
<1>4. target' \in States /\ goalMap' \subseteq Ids BY <1>1, <1>3, TargetTypes
<1>5. Observe(goalMap', target') \in Observation BY <1>4, TargetTypes DEF Observe, Observation
<1>6. obs' \in Seq(Observation) /\ Len(obs') = index + 1 BY <1>1, <1>5
<1> QED BY <1>1, <1>2, <1>4, <1>5, <1>6

(* A frame of the validation replay. *)
LEMMA ReplayFrameId == ASSUME IdInv, ReplayFrame PROVE IdInv'
<1>1. /\ UNCHANGED <<cacheVars, exports, pc, tc, ids, start, resumed, provenance, lastExit, execs>>
      /\ pc = "replay" /\ index < start /\ index' = index + 1 /\ executed' = executed + 1
  BY DEF ReplayFrame
<1>2. start \in 0..(Len(tc.frames) - 1) /\ index \in 0..Len(tc.frames) /\ goalMap \subseteq Ids
      /\ Len(tc.frames) \in 1..MaxLen
  BY CaseType DEF IdInv, TypeOK, RunType
<1>3. index < Len(tc.frames) BY <1>1, <1>2, BoundsAssumption
<1>4. /\ target' = Step(target, tc.frames[index + 1])
      /\ goalMap' = goalMap \cup Hits(target, tc.frames[index + 1])
      /\ obs' = Append(obs, Observe(goalMap', target'))
  BY DEF ReplayFrame
<1>5. /\ target' \in States /\ goalMap' \subseteq Ids /\ obs' \in Seq(Observation)
      /\ Len(obs') = index + 1 /\ index + 1 \in 1..Len(tc.frames)
  BY <1>2, <1>3, <1>4, FrameType
<1>6. CacheType' BY <1>1 DEF IdInv, TypeOK, CacheType, cacheVars
<1>7. RunType' BY <1>1, <1>2, <1>5, BoundsAssumption DEF IdInv, TypeOK, RunType
<1>8. BornInv' /\ TreeInv' /\ IdsInv' /\ SnapInv' /\ ExportInv'
  BY <1>1 DEF IdInv, BornInv, TreeInv, IdsInv, SnapInv, ExportInv, Known, Prefix, cacheVars
<1>9. PhaseInv' BY <1>1, <1>2, <1>5, BoundsAssumption DEF IdInv, PhaseInv, cacheVars
<1> QED BY <1>6, <1>7, <1>8, <1>9 DEF IdInv, TypeOK

(* The comparison after the replay. *)
LEMMA EndReplayId == ASSUME IdInv, EndReplay PROVE IdInv'
<1>1. /\ UNCHANGED <<tc, start, index, target, goalMap, obs, resumed, executed, lastExit, execs>>
      /\ pc = "replay" /\ index = start
  BY DEF EndReplay
<1>2. CASE Checkpoint(target) = resumed
  <2>1. provenance' = "cold_validation" /\ pc' = "scan" /\ UNCHANGED <<cacheVars, exports, ids>>
    BY <1>2 DEF EndReplay
  <2>2. CacheType' /\ RunType' BY <1>1, <2>1 DEF IdInv, TypeOK, CacheType, RunType, cacheVars
  <2>3. BornInv' /\ TreeInv' /\ IdsInv' /\ SnapInv' /\ ExportInv'
    BY <1>1, <2>1 DEF IdInv, BornInv, TreeInv, IdsInv, SnapInv, ExportInv, Known, Prefix, cacheVars
  <2>4. PhaseInv' BY <1>1, <2>1 DEF IdInv, PhaseInv, cacheVars
  <2> QED BY <2>2, <2>3, <2>4 DEF IdInv, TypeOK
<1>3. CASE Checkpoint(target) # resumed
  <2>1. /\ nodes' = {} /\ snapshots' = {} /\ usedBytes' = 0 /\ FindRoot({}, tc.root)
        /\ exports' = {} /\ ids' = <<>> /\ hits' = hits
        /\ provenance' = "cold_prefix_fallback" /\ pc' = "walk"
    BY <1>3 DEF EndReplay, InvalidateExports
  <2>2. tc.root \in Roots /\ Len(tc.frames) \in 1..MaxLen BY CaseType DEF IdInv, TypeOK, RunType
  <2>3. {} \in SUBSET roots OBVIOUS
  <2>4. /\ nextId' \in Nat \ {0} /\ born \subseteq born' /\ BornInv'
        /\ born' \in SUBSET [id : Nat, root : Roots, path : Paths]
        /\ roots' \in SUBSET [id : Nat, root : Roots]
        /\ \A e \in roots' : [id |-> e.id, root |-> e.root, path |-> <<>>] \in born'
        /\ \E e \in roots' : e.root = tc.root
    BY <2>1, <2>2, <2>3, FindRootId
  <2>5. CacheType' BY <2>1, <2>4 DEF IdInv, TypeOK, CacheType
  <2>6. ids' \in Seq(Nat) /\ Len(ids') = 0 BY <2>1
  <2>7. RunType' BY <1>1, <2>1, <2>2, <2>6, BoundsAssumption DEF IdInv, TypeOK, RunType
  <2>8. TreeInv' /\ IdsInv' /\ SnapInv' /\ ExportInv'
    BY <2>1, <2>4, <2>6 DEF TreeInv, IdsInv, SnapInv, ExportInv, Known
  <2>9. PhaseInv' BY <1>1, <2>1, <2>4 DEF IdInv, PhaseInv
  <2> QED BY <2>4, <2>5, <2>7, <2>8, <2>9 DEF IdInv, TypeOK
<1> QED BY <1>2, <1>3

(* restore_goal_map. *)
LEMMA FinishId == ASSUME IdInv, Finish PROVE IdInv'
<1>1. /\ UNCHANGED <<cacheVars, exports, tc, ids, start, index, target, obs, resumed,
                     provenance, executed, lastExit, execs>>
      /\ pc' = "done" /\ pc = "scan" /\ index = Len(tc.frames)
  BY DEF Finish
<1>2. goalMap' \subseteq Ids BY ObsHits DEF Finish, IdInv, TypeOK, RunType
<1>3. TypeOK' BY <1>1, <1>2 DEF IdInv, TypeOK, CacheType, RunType, cacheVars
<1>4. BornInv' /\ TreeInv' /\ IdsInv' /\ SnapInv' /\ ExportInv'
  BY <1>1 DEF IdInv, BornInv, TreeInv, IdsInv, SnapInv, ExportInv, Known, Prefix, cacheVars
<1>5. PhaseInv' BY <1>1 DEF IdInv, PhaseInv, cacheVars
<1> QED BY <1>3, <1>4, <1>5 DEF IdInv

(* What store leaves in the cache: old snapshots, perhaps counted once     *)
(* more, and at most one new one, under an id no other snapshot has.       *)
LEMMA StoreFacts ==
  ASSUME TypeOK, SnapInv, NEW id \in Nat, NEW depth \in 1..MaxLen,
         NEW os \in Seq(Observation), Len(os) = depth, NEW blob \in Blobs,
         Store(id, depth, os, blob)
  PROVE  /\ snapshots' \in SUBSET Snapshot /\ usedBytes' \in Nat
         /\ \A x \in snapshots' :
              \/ \E y \in snapshots : Alike(x, y)
              \/ x.id = id /\ x.depth = depth /\ x.state = blob /\ x.obs = os
         /\ \A x, y \in snapshots' : x.id = y.id => x = y
<1> DEFINE bytes == StateBytes + Len(os)
           same == {s \in snapshots : s.id = id}
<1>1. CASE same # {}
  <2>1. PICK s \in snapshots : s.id = id BY <1>1
  <2>2. same = {s} BY <2>1 DEF SnapInv
  <2>3. snapshots' = (snapshots \ {s}) \cup {[s EXCEPT !.saves = @ + 1]} /\ usedBytes' = usedBytes
    BY <1>1, <2>2 DEF Store
  <2> QED BY <2>3, BumpOne DEF TypeOK, CacheType
<1>2. CASE same = {} /\ bytes > MaxBytes
  <2>1. ~(bytes <= MaxBytes) BY <1>2, BoundsAssumption
  <2>2. snapshots' = snapshots /\ usedBytes' = usedBytes BY <1>2, <2>1 DEF Store
  <2> QED BY <2>2 DEF TypeOK, CacheType, SnapInv, Alike
<1>3. CASE same = {} /\ ~(bytes > MaxBytes)
  <2> DEFINE new == [id |-> id, depth |-> depth, state |-> blob, obs |-> os,
                     bytes |-> bytes, saves |-> 0]
  <2>1. PICK R \in SUBSET snapshots :
          /\ snapshots' = (snapshots \ R) \cup {new}
          /\ usedBytes' = Less(usedBytes, SumBytes(R)) + bytes
    BY <1>3 DEF Store, Victims
  <2>2. bytes \in Nat BY BoundsAssumption
  <2>3. new \in Snapshot BY <2>2 DEF Snapshot
  <2>4. Less(usedBytes, SumBytes(R)) \in Nat
    <3>1. usedBytes \in Nat BY DEF TypeOK, CacheType
    <3> QED BY <3>1 DEF Less
  <2>5. \A x \in snapshots' : x = new \/ (x \in snapshots /\ x.id # id) BY <1>3, <2>1
  <2>6. new.id = id /\ new.depth = depth /\ new.state = blob /\ new.obs = os OBVIOUS
  <2> HIDE DEF new
  <2>7. \A x \in snapshots' : (\E y \in snapshots : Alike(x, y))
          \/ (x.id = id /\ x.depth = depth /\ x.state = blob /\ x.obs = os)
    BY <2>5, <2>6 DEF Alike
  <2>8. \A x, y \in snapshots' : x.id = y.id => x = y BY <2>5, <2>6 DEF SnapInv
  <2>9. snapshots' \in SUBSET Snapshot BY <2>1, <2>3 DEF TypeOK, CacheType
  <2> QED BY <2>1, <2>2, <2>4, <2>7, <2>8, <2>9
<1> QED BY <1>1, <1>2, <1>3

(* Exported records describe a snapshot that is in the cache. *)
LEMMA ExportFacts ==
  ASSUME NEW id, NEW depth, Export(id, depth)
  PROVE  \A e \in exports' : e \in exports \/ \E s \in snapshots' :
           s.id = id /\ e = [node |-> id, root |-> tc.root,
                             prefix |-> SubSeq(tc.frames, 1, depth), state |-> s.state]
BY DEF Export

(* A frame of the suffix, with its store and export. *)
LEMMA ScanFrameId == ASSUME IdInv, ScanFrame PROVE IdInv'
<1> DEFINE d == index + 1
           due == Enabled /\ (d % CheckpointEvery = 0 \/ d = Len(tc.frames))
<1>1. /\ UNCHANGED <<roots, nodes, nextId, hits, born, pc, tc, ids, start, resumed,
                     provenance, lastExit, execs>>
      /\ pc = "scan" /\ index < Len(tc.frames) /\ index' = d /\ executed' = executed + 1
  BY DEF ScanFrame
<1>2. /\ target' = Step(target, tc.frames[index + 1])
      /\ goalMap' = {} \cup Hits(target, tc.frames[index + 1])
      /\ obs' = Append(obs, Observe(goalMap', target'))
  BY DEF ScanFrame
<1>3. /\ target' \in States /\ goalMap' \subseteq Ids /\ obs' \in Seq(Observation)
      /\ Len(obs') = d /\ d \in 1..Len(tc.frames) /\ Len(tc.frames) \in 1..MaxLen
      /\ tc.frames \in Paths
  <2>1. {} \in SUBSET Ids OBVIOUS
  <2> QED BY <1>1, <1>2, <2>1, FrameType
<1>4. d \in 1..MaxLen /\ d \in 0..Len(tc.frames) BY <1>3, BoundsAssumption
<1>5. Prefix(d) \in Paths /\ Len(Prefix(d)) = d BY <1>3, <1>4, PathPrefix DEF Prefix
<1>6. Known(ids[d], tc.root, Prefix(d)) /\ ids[d] \in Nat /\ tc.root \in Roots
  <2>1. d \in 1..Len(ids) /\ ids \in Seq(Nat)
    BY <1>1, <1>3 DEF IdInv, PhaseInv, TypeOK, RunType
  <2>2. Known(ids[d], tc.root, Prefix(d)) /\ ids[d] \in Nat BY <2>1 DEF IdInv, IdsInv
  <2> QED BY <2>2, CaseType DEF IdInv, TypeOK, RunType
<1>7. RunType' BY <1>1, <1>3, <1>4, BoundsAssumption DEF IdInv, TypeOK, RunType
<1>8. PhaseInv' BY <1>1, <1>3 DEF IdInv, PhaseInv
<1>9. BornInv' /\ TreeInv' /\ IdsInv'
  <2> USE <1>1 DEF IdInv, Known, Prefix
  <2>1. BornInv' BY DEF BornInv
  <2>2. TreeInv' BY DEF TreeInv
  <2>3. IdsInv' BY DEF IdsInv
  <2> QED BY <2>1, <2>2, <2>3
<1>10. CacheType' /\ SnapInv' /\ ExportInv'
  <2>1. CASE ~due
    <3>1. UNCHANGED <<snapshots, usedBytes, exports>> BY <2>1 DEF ScanFrame
    <3> QED BY <1>1, <3>1 DEF IdInv, TypeOK, CacheType, SnapInv, ExportInv, Known
  <2>2. CASE due
    <3>1. Store(ids[d], d, obs', Checkpoint(target')) /\ Export(ids[d], d)
      BY <2>2 DEF ScanFrame
    <3>2. Checkpoint(target') \in Blobs BY <1>3, TargetTypes
    <3>3. /\ snapshots' \in SUBSET Snapshot /\ usedBytes' \in Nat
          /\ \A x \in snapshots' :
               \/ \E y \in snapshots : Alike(x, y)
               \/ x.id = ids[d] /\ x.depth = d /\ x.state = Checkpoint(target') /\ x.obs = obs'
          /\ \A x, y \in snapshots' : x.id = y.id => x = y
      BY <1>3, <1>4, <1>6, <3>1, <3>2, StoreFacts DEF IdInv
    <3>4. \A x \in snapshots' : Len(x.obs) = x.depth
      BY <1>3, <3>3 DEF IdInv, TypeOK, CacheType, Alike
    <3>5. ASSUME NEW x \in snapshots'
          PROVE \E b \in born' : b.id = x.id /\ Len(b.path) = x.depth
      <4>1. CASE \E y \in snapshots : Alike(x, y) BY <1>1, <4>1 DEF IdInv, SnapInv, Alike
      <4>2. CASE x.id = ids[d] /\ x.depth = d
        <5> DEFINE b == [id |-> ids[d], root |-> tc.root, path |-> Prefix(d)]
        <5>1. b \in born' /\ b.id = x.id /\ Len(b.path) = x.depth
          BY <1>1, <1>5, <1>6, <4>2 DEF Known
        <5> QED BY <5>1
      <4> QED BY <3>3, <4>1, <4>2
    <3>6. ASSUME NEW e \in exports'
          PROVE /\ e \in [node : Nat, root : Roots, prefix : Paths, state : Blobs]
                /\ [id |-> e.node, root |-> e.root, path |-> e.prefix] \in born'
      <4>1. CASE e \in exports
        BY <1>1, <4>1 DEF IdInv, ExportInv, Known, TypeOK, CacheType
      <4>2. CASE e \notin exports
        <5>1. PICK s \in snapshots' :
                e = [node |-> ids[d], root |-> tc.root, prefix |-> Prefix(d), state |-> s.state]
          BY <3>1, <4>2, ExportFacts DEF Prefix
        <5>2. s.state \in Blobs BY <3>3 DEF Snapshot
        <5>3. e.node = ids[d] /\ e.root = tc.root /\ e.prefix = Prefix(d) BY <5>1
        <5> QED BY <1>1, <1>5, <1>6, <5>1, <5>2, <5>3 DEF Known
      <4> QED BY <4>1, <4>2
    <3>7. CacheType' BY <1>1, <3>3, <3>4, <3>6 DEF IdInv, TypeOK, CacheType
    <3>8. SnapInv' BY <3>3, <3>5 DEF SnapInv
    <3>9. ExportInv' BY <3>6 DEF ExportInv, Known
    <3> QED BY <3>7, <3>8, <3>9
  <2> QED BY <2>1, <2>2
<1> QED BY <1>7, <1>8, <1>9, <1>10 DEF IdInv, TypeOK

(* Every step keeps the invariant. *)
LEMMA NextId == ASSUME IdInv, [Next]_vars PROVE IdInv'
<1>1. CASE UNCHANGED vars
  <2> USE <1>1 DEF vars, cacheVars, runVars
  <2>1. TypeOK' BY DEF IdInv, TypeOK, CacheType, RunType
  <2>2. BornInv' /\ TreeInv' /\ SnapInv' /\ ExportInv'
    BY DEF IdInv, BornInv, TreeInv, SnapInv, ExportInv, Known
  <2>3. IdsInv' BY DEF IdInv, IdsInv, Known, Prefix
  <2>4. PhaseInv' BY DEF IdInv, PhaseInv
  <2> QED BY <2>1, <2>2, <2>3, <2>4 DEF IdInv
<1>2. CASE \E t \in TestCases : Begin(t) BY <1>2, BeginId
<1>3. CASE WalkFrame BY <1>3, WalkFrameId
<1>4. CASE EndWalk BY <1>4, EndWalkId
<1>5. CASE Open BY <1>5, OpenId
<1>6. CASE ReplayFrame BY <1>6, ReplayFrameId
<1>7. CASE EndReplay BY <1>7, EndReplayId
<1>8. CASE ScanFrame BY <1>8, ScanFrameId
<1>9. CASE Finish BY <1>9, FinishId
<1>10. CASE ReturnOk \/ ReturnCrash \/ Fault \/ PreflightStop BY <1>10, ReturnId
<1> QED BY <1>1, <1>2, <1>3, <1>4, <1>5, <1>6, <1>7, <1>8, <1>9, <1>10 DEF Next

(* The invariant holds in every reachable state. *)
THEOREM IdInvariant == Spec => []IdInv
<1>1. Init => IdInv BY InitId
<1>2. IdInv /\ [Next]_vars => IdInv' BY NextId
<1> QED BY <1>1, <1>2, PTL DEF Spec

(* Type correctness of the cache and of a running execution: in particular *)
(* a resumed execution always has a frame left to run.                     *)
THEOREM TypeCorrect == Spec => []TypeOK
<1>1. IdInv => TypeOK BY DEF IdInv
<1> QED BY <1>1, IdInvariant, PTL

(* A node id is the identity of one prefix for the life of the engine:     *)
(* across clears, evictions, crashes and failed validations, in memory and *)
(* on disk.                                                                *)
THEOREM PrefixIdentityHolds == Spec => []PrefixIdentity
<1>1. IdInv => PrefixIdentity
  BY DEF IdInv, BornInv, ExportInv, SnapInv, Known, PrefixIdentity
<1> QED BY <1>1, IdInvariant, PTL

-----------------------------------------------------------------------------
(* Resumed executions are cold executions.                                 *)

(* A prefix of a prefix. *)
LEMMA PrefixOfPrefix ==
  ASSUME NEW p \in Paths, NEW n \in 0..Len(p), NEW m \in 0..n
  PROVE  SubSeq(SubSeq(p, 1, n), 1, m) = SubSeq(p, 1, m)
<1> DEFINE q == SubSeq(p, 1, n)
<1>1. p \in Seq(Frames) /\ Len(p) \in Nat BY PathType, BoundsAssumption
<1>2. q \in Seq(Frames) /\ Len(q) = n /\ \A i \in 1..n : q[i] = p[i] BY PathPrefix, PathType
<1>3. m \in 0..Len(p) /\ m \in 0..Len(q) /\ n \in Nat BY <1>1, <1>2
<1> HIDE DEF q
<1>4. /\ SubSeq(q, 1, m) \in Seq(Frames) /\ Len(SubSeq(q, 1, m)) = m
      /\ \A i \in 1..m : SubSeq(q, 1, m)[i] = q[i]
  BY <1>2, <1>3
<1>5. /\ SubSeq(p, 1, m) \in Seq(Frames) /\ Len(SubSeq(p, 1, m)) = m
      /\ \A i \in 1..m : SubSeq(p, 1, m)[i] = p[i]
  BY <1>1, <1>3
<1>6. \A i \in 1..m : SubSeq(q, 1, m)[i] = SubSeq(p, 1, m)[i]
  BY <1>2, <1>3, <1>4, <1>5
<1>7. SubSeq(q, 1, m) = SubSeq(p, 1, m) BY <1>4, <1>5, <1>6
<1> QED BY <1>7 DEF q

(* The cold run of one more frame. *)
LEMMA ColdStep ==
  ASSUME NEW r \in Roots, NEW p \in Paths, NEW n \in 0..(Len(p) - 1)
  PROVE  /\ Cold(r, SubSeq(p, 1, n + 1)) = Step(Cold(r, SubSeq(p, 1, n)), p[n + 1])
         /\ ColdHits(r, SubSeq(p, 1, n + 1)) = Hits(Cold(r, SubSeq(p, 1, n)), p[n + 1])
<1>1. Len(p) \in 0..MaxLen /\ n \in 0..Len(p) /\ n + 1 \in 0..Len(p) /\ n \in 0..(n + 1)
      /\ n < MaxLen /\ n + 1 \in 1..(n + 1)
  BY PathType, BoundsAssumption
<1>2. /\ SubSeq(p, 1, n) \in Paths /\ Len(SubSeq(p, 1, n)) = n
      /\ SubSeq(p, 1, n + 1) = Append(SubSeq(p, 1, n), p[n + 1]) /\ p[n + 1] \in Frames
  BY <1>1, PathPrefix, PathStep
<1>3. Cold(r, SubSeq(p, 1, n + 1)) = Step(Cold(r, SubSeq(p, 1, n)), p[n + 1])
  BY <1>1, <1>2, ColdRuns
<1>4. /\ Len(SubSeq(p, 1, n + 1)) = n + 1 /\ SubSeq(p, 1, n + 1)[n + 1] = p[n + 1]
  BY <1>1, PathPrefix
<1>5. SubSeq(SubSeq(p, 1, n + 1), 1, n) = SubSeq(p, 1, n) BY <1>1, PrefixOfPrefix
<1>6. (n + 1) - 1 = n BY <1>1
<1> QED BY <1>3, <1>4, <1>5, <1>6 DEF ColdHits

(* One more observation. *)
LEMMA ObsExtend ==
  ASSUME NEW r, NEW p, NEW os \in Seq(Observation), NEW o \in Observation, ObsCold(os, r, p),
         NEW n \in Nat, Len(os) = n,
         o.blob = Checkpoint(Cold(r, SubSeq(p, 1, n + 1))),
         ColdHits(r, SubSeq(p, 1, n + 1)) \cap Goals \subseteq o.hits,
         \A g \in o.hits : \E j \in 1..(n + 1) : g \in ColdHits(r, SubSeq(p, 1, j))
  PROVE  ObsCold(Append(os, o), r, p)
<1> DEFINE new == Append(os, o)
<1>1. Len(new) = n + 1 /\ new[n + 1] = o /\ \A i \in 1..n : new[i] = os[i] OBVIOUS
<1> HIDE DEF new
<1>2. ASSUME NEW i \in 1..Len(new)
      PROVE  /\ new[i].blob = Checkpoint(Cold(r, SubSeq(p, 1, i)))
             /\ ColdHits(r, SubSeq(p, 1, i)) \cap Goals \subseteq new[i].hits
             /\ \A g \in new[i].hits : \E j \in 1..i : g \in ColdHits(r, SubSeq(p, 1, j))
  <2>1. CASE i = n + 1 BY <1>1, <2>1
  <2>2. CASE i \in 1..n BY <1>1, <2>2 DEF ObsCold
  <2> QED BY <1>1, <2>1, <2>2
<1>3. ObsCold(new, r, p) BY <1>2 DEF ObsCold
<1> QED BY <1>3 DEF new

(* Observations of a prefix are observations of the path. *)
LEMMA ObsRebase ==
  ASSUME NEW r, NEW p \in Paths, NEW n \in 0..Len(p), NEW os \in Seq(Observation), Len(os) = n
  PROVE  ObsCold(os, r, p) <=> ObsCold(os, r, SubSeq(p, 1, n))
<1>1. \A i \in 1..n : SubSeq(SubSeq(p, 1, n), 1, i) = SubSeq(p, 1, i)
  <2> TAKE i \in 1..n
  <2>1. i \in 0..n BY PathType
  <2> QED BY <2>1, PrefixOfPrefix
<1>2. \A i \in 1..n : \A j \in 1..i : j \in 1..n BY PathType
<1> QED BY <1>1, <1>2 DEF ObsCold

(* No observations. *)
LEMMA ObsNone == ASSUME NEW r, NEW p PROVE ObsCold(<<>>, r, p)
BY DEF ObsCold

(* Snapshots that stay, counted or not, stay cold while ids are added. *)
LEMMA KeptCold ==
  ASSUME IdInv, BornInv', SnapsCold, born \subseteq born',
         NEW s, NEW y \in snapshots, Alike(s, y), NEW b \in born', s.id = b.id
  PROVE  s.state = Checkpoint(Cold(b.root, b.path)) /\ ObsCold(s.obs, b.root, b.path)
<1>1. PICK c \in born : c.id = y.id BY DEF IdInv, SnapInv
<1>2. b = c BY <1>1 DEF Alike, BornInv
<1> QED BY <1>1, <1>2 DEF SnapsCold, Alike

(* The initial state. *)
LEMMA InitCold == ASSUME Init PROVE ColdInv
<1>1. ObsCold(obs, tc.root, tc.frames) BY ObsNone DEF Init
<1> QED BY <1>1 DEF Init, ColdInv, LiveCold, Running, SnapsCold, ExportsCold, MapCold

(* Steps that neither run the target nor touch snapshots but may add ids. *)
LEMMA QuietCold ==
  ASSUME IdInv, IdInv', ColdInv, born \subseteq born', snapshots' \subseteq snapshots,
         exports' \subseteq exports
  PROVE  SnapsCold' /\ ExportsCold'
<1>1. \A x \in snapshots' : \E y \in snapshots : Alike(x, y) BY DEF Alike
<1>2. BornInv' /\ SnapsCold BY DEF IdInv, ColdInv
<1>3. SnapsCold' BY <1>1, <1>2, KeptCold DEF SnapsCold
<1> QED BY <1>3 DEF ColdInv, ExportsCold

(* Between executions. *)
LEMMA ReturnCold ==
  ASSUME IdInv, IdInv', ColdInv, ReturnOk \/ ReturnCrash \/ Fault \/ PreflightStop
  PROVE  ColdInv'
<1>1. born' = born /\ snapshots' \subseteq snapshots /\ exports' \subseteq exports
  BY DEF ReturnOk, ReturnCrash, Fault, PreflightStop, CrashExit, InvalidateExports, ClearCache, cacheVars
<1>2. pc' = "idle"
  BY DEF ReturnOk, ReturnCrash, Fault, PreflightStop, CrashExit
<1>3. ObsCold(obs, tc.root, tc.frames)'
  <2>1. CASE DropLocals BY <2>1, ObsNone DEF DropLocals
  <2>2. CASE PreflightStop BY <2>2 DEF PreflightStop, runVars, ColdInv, ObsCold
  <2> QED BY <2>1, <2>2 DEF ReturnOk, ReturnCrash, Fault, CrashExit
<1>4. SnapsCold' /\ ExportsCold' BY <1>1, QuietCold
<1> QED BY <1>2, <1>3, <1>4 DEF ColdInv, LiveCold, Running, MapCold

(* prefix_ids and its ends. *)
LEMMA WalkCold ==
  ASSUME IdInv, IdInv', ColdInv, (\E t \in TestCases : Begin(t)) \/ WalkFrame \/ EndWalk
  PROVE  ColdInv'
<1>1. CASE \E t \in TestCases : Begin(t)
  <2>1. PICK t \in TestCases : Begin(t) BY <1>1
  <2>2. /\ snapshots' \subseteq snapshots /\ exports' = exports /\ born \subseteq born'
        /\ obs' = <<>> /\ pc' = "walk" /\ provenance' = "cold"
    BY <2>1 DEF Begin, FindRoot
  <2>3. SnapsCold' /\ ExportsCold' BY <2>2, QuietCold
  <2>4. ObsCold(obs, tc.root, tc.frames)' BY <2>2, ObsNone
  <2> QED BY <2>2, <2>3, <2>4 DEF ColdInv, LiveCold, Running, MapCold
<1>2. CASE WalkFrame \/ EndWalk
  <2>1. /\ UNCHANGED <<snapshots, exports, tc, index, target, goalMap, obs, provenance>>
        /\ born \subseteq born'
    BY <1>2 DEF WalkFrame, EndWalk, cacheVars, runVars
  <2>2. SnapsCold' /\ ExportsCold' BY <2>1, QuietCold
  <2>3. ObsCold(obs, tc.root, tc.frames)' BY <2>1 DEF ColdInv, ObsCold
  <2>4. pc = "walk" /\ (pc' = "walk" \/ pc' = "open" \/
                        (pc' = "scan" /\ provenance = "cold_prefix_fallback"))
    BY <1>2 DEF WalkFrame, EndWalk
  <2>5. LiveCold' /\ MapCold' BY <2>1, <2>4 DEF ColdInv, LiveCold, Running, MapCold, Prefix
  <2> QED BY <2>2, <2>3, <2>5 DEF ColdInv
<1> QED BY <1>1, <1>2

(* An empty prefix. *)
LEMMA PrefixZero == ASSUME NEW p \in Paths PROVE SubSeq(p, 1, 0) = <<>>
<1>1. p \in Seq(Frames) BY PathType
<1>2. SubSeq(p, 1, 0) \in Seq(Frames) /\ Len(SubSeq(p, 1, 0)) = 0 BY <1>1
<1> QED BY <1>2

(* The restore: with a complete checkpoint it gives the cold state of the  *)
(* longest cached prefix; the replay starts from the cold initial state.   *)
LEMMA OpenCold == ASSUME CheckpointComplete, IdInv, IdInv', ColdInv, Open PROVE ColdInv'
<1>1. /\ UNCHANGED <<born, exports, tc, ids>> /\ pc = "open" BY DEF Open
<1>2. /\ tc.root \in Roots /\ tc.frames \in Paths /\ Len(tc.frames) \in 1..MaxLen
      /\ target \in States /\ Boot(target, tc.root) \in States
      /\ index = 0 /\ goalMap = {} /\ provenance # "cold_prefix_fallback"
  BY <1>1, CaseType, TargetTypes DEF IdInv, TypeOK, RunType, PhaseInv
<1>3. ExportsCold' BY <1>1 DEF ColdInv, ExportsCold
<1>4. \A s \in States : Boot(s, tc.root) = Cold(tc.root, Prefix(0))
  BY <1>2, PrefixZero DEF CheckpointComplete, Prefix
<1>5. CASE CachedDepths = {}
  <2>1. /\ target' = Boot(target, tc.root) /\ pc' = "scan"
        /\ UNCHANGED <<snapshots, index, obs, goalMap, provenance>>
    BY <1>5 DEF Open
  <2>2. LiveCold' /\ MapCold' BY <1>1, <1>2, <1>4, <2>1 DEF LiveCold, MapCold, Prefix
  <2>3. ObsCold(obs, tc.root, tc.frames)' /\ SnapsCold'
    BY <1>1, <2>1 DEF ColdInv, ObsCold, SnapsCold
  <2> QED BY <1>3, <2>2, <2>3 DEF ColdInv
<1>6. CASE CachedDepths # {}
  <2>1. PICK d \in CachedDepths, s \in snapshots :
          /\ s.id = ids[d]
          /\ snapshots' = (snapshots \ {s}) \cup {[s EXCEPT !.saves = @ + 1]}
          /\ LET back == Restore(Boot(target, tc.root), s.state)
             IN \/ /\ target' = back /\ obs' = s.obs /\ index' = d /\ provenance' = "snapshot"
                   /\ pc' = "scan"
                \/ /\ target' = ReplayStart(back)
                   /\ pc' = "replay" /\ UNCHANGED <<obs, index, goalMap, provenance>>
    BY <1>6 DEF Open
  <2>2. d \in 1..(Len(tc.frames) - 1) /\ d \in 1..Len(ids) /\ d \in 0..Len(tc.frames)
    BY <1>1, <1>2, BoundsAssumption DEF CachedDepths, IdInv, PhaseInv
  <2>3. s \in Snapshot /\ Len(s.obs) = s.depth BY DEF IdInv, TypeOK, CacheType
  <2> DEFINE b == [id |-> ids[d], root |-> tc.root, path |-> Prefix(d)]
  <2>4. b \in born /\ b.id = s.id /\ b.root = tc.root /\ b.path = Prefix(d)
    BY <2>1, <2>2 DEF IdInv, IdsInv, Known
  <2> HIDE DEF b
  <2>5. s.state = Checkpoint(Cold(tc.root, Prefix(d))) /\ ObsCold(s.obs, tc.root, Prefix(d))
    BY <2>4 DEF ColdInv, SnapsCold
  <2>6. Prefix(d) \in Paths /\ Len(Prefix(d)) = d BY <1>2, <2>2, PathPrefix DEF Prefix
  <2>7. s.depth = d
    <3>1. PICK c \in born : c.id = s.id /\ Len(c.path) = s.depth BY DEF IdInv, SnapInv
    <3>2. c = b BY <2>4, <3>1 DEF IdInv, BornInv
    <3> QED BY <2>4, <2>6, <3>1, <3>2
  <2>8. ObsCold(s.obs, tc.root, tc.frames)
    BY <1>2, <2>2, <2>3, <2>5, <2>7, ObsRebase DEF Prefix, Snapshot
  <2>9. Cold(tc.root, Prefix(d)) \in States BY <1>2, <2>6, ColdRuns
  <2>10. Restore(Boot(target, tc.root), s.state) = Cold(tc.root, Prefix(d))
    BY <1>2, <2>5, <2>9 DEF CheckpointComplete
  <2>11. SnapsCold'
    <3>1. \A x \in snapshots' : \E y \in snapshots : Alike(x, y) BY <2>1, BumpOne DEF IdInv
    <3>2. BornInv' /\ SnapsCold BY DEF IdInv, ColdInv
    <3> QED BY <1>1, <3>1, <3>2, KeptCold DEF SnapsCold
  <2>12. ObsCold(obs, tc.root, tc.frames)' BY <1>1, <2>1, <2>8 DEF ColdInv, ObsCold
  <2>13. LiveCold'
    <3>1. CASE pc' = "scan" BY <1>1, <2>1, <2>10, <3>1 DEF LiveCold, Prefix
    <3>2. CASE pc' = "replay"
      <4>1. target' = Boot(Cold(tc.root, Prefix(d)), tc.root) /\ index' = index
        BY <2>1, <2>10, <3>2 DEF ReplayStart
      <4> QED BY <1>1, <1>2, <1>4, <2>9, <4>1 DEF LiveCold, Prefix
    <3> QED BY <2>1, <3>1, <3>2
  <2>14. MapCold' BY <1>2, <2>1 DEF MapCold
  <2> QED BY <1>3, <2>11, <2>12, <2>13, <2>14 DEF ColdInv
<1> QED BY <1>5, <1>6

(* One frame executed on a cold state: the state stays cold, and the new   *)
(* observation names what the frame hit and nothing no frame hit.          *)
LEMMA FrameCold ==
  ASSUME IdInv, ColdInv, Running, index < Len(tc.frames), NEW map \in SUBSET Ids,
         \A g \in map : \E j \in 1..index : g \in ColdHits(tc.root, Prefix(j)),
         target' = Step(target, tc.frames[index + 1]),
         goalMap' = map \cup Hits(target, tc.frames[index + 1]),
         obs' = Append(obs, Observe(goalMap', target'))
  PROVE  /\ target' = Cold(tc.root, Prefix(index + 1))
         /\ ObsCold(obs', tc.root, tc.frames)
         /\ \A g \in goalMap' : \E j \in 1..(index + 1) : g \in ColdHits(tc.root, Prefix(j))
<1> DEFINE o == Observe(goalMap', target')
<1>1. /\ o \in Observation /\ tc.frames \in Paths /\ index \in 0..(Len(tc.frames) - 1)
      /\ Len(tc.frames) \in 1..MaxLen
  BY FrameType
<1>2. tc.root \in Roots /\ obs \in Seq(Observation) /\ Len(obs) = index /\ index \in Nat
  BY <1>1, CaseType, BoundsAssumption DEF IdInv, TypeOK, RunType, PhaseInv
<1>3. target = Cold(tc.root, Prefix(index)) BY DEF ColdInv, LiveCold
<1>4. /\ target' = Cold(tc.root, Prefix(index + 1))
      /\ ColdHits(tc.root, Prefix(index + 1)) = Hits(target, tc.frames[index + 1])
  BY <1>1, <1>2, <1>3, ColdStep DEF Prefix
<1>5. ASSUME NEW g \in goalMap'
      PROVE \E j \in 1..(index + 1) : g \in ColdHits(tc.root, Prefix(j))
  <2>1. CASE g \in map
    <3>1. PICK j \in 1..index : g \in ColdHits(tc.root, Prefix(j)) BY <2>1
    <3>2. j \in 1..(index + 1) BY <1>2
    <3> QED BY <3>1, <3>2
  <2>2. CASE g \in Hits(target, tc.frames[index + 1])
    <3>1. index + 1 \in 1..(index + 1) BY <1>2
    <3> QED BY <2>2, <3>1, <1>4
  <2> QED BY <2>1, <2>2
<1>6. o.blob = Checkpoint(target') /\ o.hits = goalMap' \cap Goals BY DEF Observe
<1>7. ColdHits(tc.root, Prefix(index + 1)) \cap Goals \subseteq o.hits BY <1>4, <1>6
<1>8. \A g \in o.hits : \E j \in 1..(index + 1) : g \in ColdHits(tc.root, Prefix(j))
  BY <1>5, <1>6
<1> HIDE DEF o
<1>9. ObsCold(obs, tc.root, tc.frames) BY DEF ColdInv
<1>10. ObsCold(Append(obs, o), tc.root, tc.frames)
  BY <1>1, <1>2, <1>4, <1>6, <1>7, <1>8, <1>9, ObsExtend DEF Prefix
<1> QED BY <1>4, <1>5, <1>10 DEF o

(* A frame of the validation replay. *)
LEMMA ReplayFrameCold == ASSUME IdInv, IdInv', ColdInv, ReplayFrame PROVE ColdInv'
<1>1. /\ UNCHANGED <<snapshots, born, exports, pc, tc>> /\ pc = "replay" /\ index' = index + 1
      /\ index < start
  BY DEF ReplayFrame, cacheVars
<1>2. index < Len(tc.frames) /\ goalMap \in SUBSET Ids
  <2>1. start \in 0..(Len(tc.frames) - 1) /\ index \in 0..Len(tc.frames)
        /\ Len(tc.frames) \in 1..MaxLen /\ goalMap \in SUBSET Ids
    BY CaseType DEF IdInv, TypeOK, RunType
  <2> QED BY <1>1, <2>1, BoundsAssumption
<1>3. /\ target' = Step(target, tc.frames[index + 1])
      /\ goalMap' = goalMap \cup Hits(target, tc.frames[index + 1])
      /\ obs' = Append(obs, Observe(goalMap', target'))
  BY DEF ReplayFrame
<1>4. Running /\ \A g \in goalMap : \E j \in 1..index : g \in ColdHits(tc.root, Prefix(j))
  BY <1>1 DEF Running, ColdInv, MapCold
<1>5. /\ target' = Cold(tc.root, Prefix(index + 1))
      /\ ObsCold(obs', tc.root, tc.frames)
      /\ \A g \in goalMap' : \E j \in 1..(index + 1) : g \in ColdHits(tc.root, Prefix(j))
  BY <1>2, <1>3, <1>4, FrameCold
<1>6. SnapsCold' /\ ExportsCold' BY <1>1, QuietCold
<1>7. LiveCold' /\ MapCold' BY <1>1, <1>5 DEF LiveCold, MapCold, Prefix
<1> QED BY <1>1, <1>5, <1>6, <1>7 DEF ColdInv

(* The comparison, and the union of the map at the end. *)
LEMMA EndCold == ASSUME IdInv, IdInv', ColdInv, EndReplay \/ Finish PROVE ColdInv'
<1>1. UNCHANGED <<tc, index, target, obs>> /\ pc' # "replay" /\ Running
  BY DEF EndReplay, Finish, Running
<1>2. snapshots' \subseteq snapshots /\ exports' \subseteq exports /\ born \subseteq born'
  BY DEF EndReplay, Finish, FindRoot, InvalidateExports, cacheVars
<1>3. SnapsCold' /\ ExportsCold' BY <1>2, QuietCold
<1>4. ObsCold(obs, tc.root, tc.frames)' BY <1>1 DEF ColdInv, ObsCold
<1>5. LiveCold' /\ MapCold' BY <1>1 DEF ColdInv, LiveCold, MapCold, Prefix
<1> QED BY <1>3, <1>4, <1>5 DEF ColdInv

(* A frame of the suffix: what is stored and exported is cold. *)
LEMMA ScanFrameCold == ASSUME IdInv, IdInv', ColdInv, ScanFrame PROVE ColdInv'
<1> DEFINE d == index + 1
<1>1. /\ UNCHANGED <<born, pc, tc, ids>> /\ pc = "scan" /\ index' = d
      /\ index < Len(tc.frames)
  BY DEF ScanFrame
<1>2. /\ target' = Step(target, tc.frames[index + 1])
      /\ goalMap' = {} \cup Hits(target, tc.frames[index + 1])
      /\ obs' = Append(obs, Observe(goalMap', target'))
  BY DEF ScanFrame
<1>3. Running /\ {} \in SUBSET Ids BY <1>1 DEF Running
<1>4. /\ target' = Cold(tc.root, Prefix(index + 1)) /\ ObsCold(obs', tc.root, tc.frames)
  BY <1>1, <1>2, <1>3, FrameCold
<1>5. /\ target' \in States /\ obs' \in Seq(Observation) /\ Len(obs') = d
      /\ d \in 1..Len(tc.frames) /\ Len(tc.frames) \in 1..MaxLen /\ tc.frames \in Paths
  BY <1>1, <1>2, <1>3, FrameType
<1>6. LiveCold' /\ MapCold' BY <1>1, <1>4 DEF LiveCold, MapCold, Prefix
<1>7. SnapsCold' /\ ExportsCold'
  <2>1. CASE UNCHANGED <<snapshots, exports>> BY <1>1, <2>1, QuietCold
  <2>2. CASE Store(ids[d], d, obs', Checkpoint(target')) /\ Export(ids[d], d)
    <3>1. d \in 1..MaxLen /\ d \in 0..Len(tc.frames) /\ d \in 1..Len(ids) /\ ids \in Seq(Nat)
      BY <1>1, <1>5, BoundsAssumption DEF IdInv, PhaseInv, TypeOK, RunType
    <3>2. Known(ids[d], tc.root, Prefix(d)) /\ ids[d] \in Nat BY <3>1 DEF IdInv, IdsInv
    <3>3. Checkpoint(target') \in Blobs BY <1>5, TargetTypes
    <3>4. \A x \in snapshots' :
             \/ \E y \in snapshots : Alike(x, y)
             \/ x.id = ids[d] /\ x.depth = d /\ x.state = Checkpoint(target') /\ x.obs = obs'
      BY <1>5, <2>2, <3>1, <3>2, <3>3, StoreFacts DEF IdInv
    <3>5. SnapsCold'
      <4> SUFFICES ASSUME NEW x \in snapshots', NEW b \in born', x.id = b.id
                   PROVE /\ x.state = Checkpoint(Cold(b.root, b.path))
                         /\ ObsCold(x.obs, b.root, b.path)
        BY DEF SnapsCold
      <4>1. CASE \E y \in snapshots : Alike(x, y)
        <5>1. PICK y \in snapshots : Alike(x, y) BY <4>1
        <5>2. BornInv' /\ SnapsCold BY DEF IdInv, ColdInv
        <5> QED BY <1>1, <5>1, <5>2, KeptCold
      <4>2. CASE x.id = ids[d] /\ x.state = Checkpoint(target') /\ x.obs = obs'
        <5> DEFINE c == [id |-> ids[d], root |-> tc.root, path |-> Prefix(d)]
        <5>1. c \in born /\ c.id = ids[d] /\ c.root = tc.root /\ c.path = Prefix(d)
          BY <3>2 DEF Known
        <5> HIDE DEF c
        <5>2. b = c BY <1>1, <4>2, <5>1 DEF IdInv, BornInv
        <5>3. b.root = tc.root /\ b.path = Prefix(d) BY <5>1, <5>2
        <5>4. ObsCold(obs', tc.root, Prefix(d))
          BY <1>4, <1>5, <3>1, ObsRebase DEF Prefix
        <5> QED BY <1>4, <4>2, <5>3, <5>4
      <4> QED BY <3>4, <4>1, <4>2
    <3>6. ExportsCold'
      <4> SUFFICES ASSUME NEW e \in exports'
                   PROVE e.state = Checkpoint(Cold(e.root, e.prefix))
        BY DEF ExportsCold
      <4>1. CASE e \in exports BY <4>1 DEF ColdInv, ExportsCold
      <4>2. CASE e \notin exports
        <5>1. PICK s \in snapshots' : s.id = ids[d] /\
                e = [node |-> ids[d], root |-> tc.root, prefix |-> Prefix(d), state |-> s.state]
          BY <2>2, <4>2, ExportFacts DEF Prefix
        <5> DEFINE b == [id |-> ids[d], root |-> tc.root, path |-> Prefix(d)]
        <5>2. b \in born' /\ b.id = s.id /\ b.root = tc.root /\ b.path = Prefix(d)
          BY <1>1, <3>2, <5>1 DEF Known
        <5>3. s.state = Checkpoint(Cold(tc.root, Prefix(d))) BY <3>5, <5>2 DEF SnapsCold
        <5>4. e.state = s.state /\ e.root = tc.root /\ e.prefix = Prefix(d) BY <5>1
        <5> QED BY <5>3, <5>4
      <4> QED BY <4>1, <4>2
    <3> QED BY <3>5, <3>6
  <2> QED BY <2>1, <2>2 DEF ScanFrame
<1> QED BY <1>1, <1>4, <1>6, <1>7 DEF ColdInv

(* Every step keeps ColdInv. *)
LEMMA NextCold ==
  ASSUME CheckpointComplete, IdInv, IdInv', ColdInv, [Next]_vars PROVE ColdInv'
<1>1. CASE UNCHANGED vars
  BY <1>1 DEF vars, cacheVars, runVars, ColdInv, LiveCold, Running, ObsCold, SnapsCold,
     ExportsCold, MapCold, Prefix
<1>2. CASE (\E t \in TestCases : Begin(t)) \/ WalkFrame \/ EndWalk BY <1>2, WalkCold
<1>3. CASE Open BY <1>3, OpenCold
<1>4. CASE ReplayFrame BY <1>4, ReplayFrameCold
<1>5. CASE EndReplay \/ Finish BY <1>5, EndCold
<1>6. CASE ScanFrame BY <1>6, ScanFrameCold
<1>7. CASE ReturnOk \/ ReturnCrash \/ Fault \/ PreflightStop BY <1>7, ReturnCold
<1> QED BY <1>1, <1>2, <1>3, <1>4, <1>5, <1>6, <1>7 DEF Next

(* What the invariants say of a finished execution. *)
LEMMA ColdResult ==
  ASSUME IdInv, ColdInv PROVE SnapshotsAreCold /\ ResultIsCold /\ FirstHitExact
<1>1. SnapshotsAreCold BY DEF SnapshotsAreCold, ColdInv, SnapsCold, ExportsCold
<1>2. tc.frames \in Paths /\ obs \in Seq(Observation) /\ Len(obs) \in Nat
  BY CaseType DEF IdInv, TypeOK, RunType
<1>3. ResultIsCold
  <2> SUFFICES ASSUME pc = "done"
               PROVE /\ target = Cold(tc.root, tc.frames) /\ Len(obs) = Len(tc.frames)
                     /\ \A i \in DOMAIN obs : obs[i].blob = Checkpoint(Cold(tc.root, Prefix(i)))
    BY DEF ResultIsCold
  <2>1. index = Len(tc.frames) /\ Len(obs) = index BY DEF IdInv, PhaseInv
  <2>2. Prefix(index) = tc.frames BY <1>2, <2>1, PathWhole DEF Prefix
  <2>3. target = Cold(tc.root, tc.frames) BY <2>2 DEF ColdInv, LiveCold, Running
  <2>4. \A i \in DOMAIN obs : obs[i].blob = Checkpoint(Cold(tc.root, Prefix(i)))
    BY <1>2 DEF ColdInv, ObsCold, Prefix
  <2> QED BY <2>1, <2>3, <2>4
<1>4. FirstHitExact
  <2> DEFINE H(i) == obs[i].hits
             C(i) == ColdHits(tc.root, Prefix(i))
  <2>1. \A i \in 1..Len(obs) : C(i) \cap Goals \subseteq H(i)
    BY DEF ColdInv, ObsCold, Prefix
  <2>2. \A i \in 1..Len(obs) : \A g \in H(i) : \E j \in 1..i : g \in C(j)
    BY DEF ColdInv, ObsCold, Prefix
  <2> HIDE DEF H, C
  <2>3. ASSUME NEW g \in Goals, NEW i \in 1..Len(obs)
        PROVE (g \in H(i) /\ \A j \in 1..(i - 1) : g \notin H(j))
              <=> (g \in C(i) /\ \A j \in 1..(i - 1) : g \notin C(j))
    <3>1. \A j \in 1..i : j \in 1..Len(obs) /\ (j = i \/ j \in 1..(i - 1)) BY <1>2
    <3>2. \A j \in 1..(i - 1) : j \in 1..Len(obs) /\ \A k \in 1..j : k \in 1..(i - 1) BY <1>2
    <3>3. ASSUME g \in H(i), \A j \in 1..(i - 1) : g \notin H(j)
          PROVE  g \in C(i) /\ \A j \in 1..(i - 1) : g \notin C(j)
      <4>1. \A j \in 1..(i - 1) : g \notin C(j) BY <2>1, <3>2, <3>3
      <4>2. PICK j \in 1..i : g \in C(j) BY <2>2, <3>3
      <4>3. j = i BY <3>1, <4>1, <4>2
      <4> QED BY <4>1, <4>2, <4>3
    <3>4. ASSUME g \in C(i), \A j \in 1..(i - 1) : g \notin C(j)
          PROVE  g \in H(i) /\ \A j \in 1..(i - 1) : g \notin H(j)
      <4>1. g \in H(i) BY <2>1, <3>4
      <4>2. \A j \in 1..(i - 1) : g \notin H(j) BY <2>2, <3>2, <3>4
      <4> QED BY <4>1, <4>2
    <3> QED BY <3>3, <3>4
  <2>4. DOMAIN obs = 1..Len(obs) BY <1>2
  <2> QED BY <2>3, <2>4 DEF FirstHitExact, H, C
<1> QED BY <1>1, <1>3, <1>4

(* The promise of execute_with_cache: if the checkpoint regions hold all   *)
(* of the target's state, then for every target, cache size, checkpoint    *)
(* and validation period, what is cached is cold, an execution resumed     *)
(* from it ends as a cold one, and goals are dated to the frame that first *)
(* hits them.                                                              *)
THEOREM ResumeIsSound ==
  ASSUME CheckpointComplete
  PROVE  Spec => []ResumeIsCold
<1>1. Init => ColdInv BY InitCold
<1>2. IdInv /\ IdInv' /\ ColdInv /\ [Next]_vars => ColdInv' BY NextCold
<1>3. IdInv /\ ColdInv => ResumeIsCold BY ColdResult DEF ResumeIsCold
<1> QED BY <1>1, <1>2, <1>3, IdInvariant, PTL DEF Spec

-----------------------------------------------------------------------------
(* Accounting: the sum of the retained bytes, and the frames that were run.*)

(* The order of the natural numbers as a set of pairs: induction is drawn   *)
(* from its well-foundedness, for sets of numbers instead of predicates.   *)
Below == {ss \in Nat \X Nat : ss[1] < ss[2]}
(* It is well-founded. *)
LEMMA BelowWF == IsWellFoundedOn(Below, Nat)
  BY NatLessThanWellFounded, Zenon DEF OpToRel, Below

(* A set with 0 that is closed under successor has every number. *)
LEMMA SetInduction ==
  ASSUME NEW S, 0 \in S, \A n \in Nat : n \in S => n + 1 \in S
  PROVE  \A n \in Nat : n \in S
<1> DEFINE T == Nat \ S
<1>1. SUFFICES ASSUME T # {} PROVE FALSE OBVIOUS
<1>2. \E x \in T : \A y \in T : ~ (<<y, x>> \in Below)
  <2> HIDE DEF T
  <2>1. T \subseteq Nat BY DEF T
  <2> QED BY <1>1, BelowWF, <2>1, WFMin, Zenon
<1>3. PICK x \in T : \A y \in T : ~ (<<y, x>> \in Below) BY <1>2
<1>4. \A y \in T : ~(y < x) BY <1>3 DEF Below
<1>5. x # 0 /\ x - 1 \in Nat /\ x - 1 \notin T BY <1>4
<1> QED BY <1>5

(* The sum of the bytes of a set, as MapThenSumSet computes it. *)
Pick(s) == CHOOSE x \in s : TRUE
Plus(it, s) == IF s = {} THEN 0 ELSE Pick(s).bytes + it[s \ {Pick(s)}]
IsSum(it, S) == it \in [SUBSET S -> Nat] /\ \A s \in SUBSET S : it[s] = Plus(it, s)

(* A set without one of its elements. *)
LEMMA Smaller ==
  ASSUME NEW s, IsFiniteSet(s), NEW x \in s
  PROVE  /\ IsFiniteSet(s \ {x}) /\ Cardinality(s) \in Nat \ {0}
         /\ Cardinality(s \ {x}) = Cardinality(s) - 1
<1>1. Cardinality(s) \in Nat /\ IsFiniteSet(s \ {x}) /\ Cardinality(s \ {x}) = Cardinality(s) - 1
  BY FS_CardinalityType, FS_RemoveElement
<1>2. Cardinality(s \ {x}) \in Nat BY <1>1, FS_CardinalityType
<1> QED BY <1>1, <1>2

(* The recursion of the sum has a solution, built up by cardinality. *)
LEMMA SumExists ==
  ASSUME NEW S, IsFiniteSet(S), \A s \in S : s.bytes \in Nat
  PROVE  \E it : IsSum(it, S)
<1> DEFINE Small(n) == {s \in SUBSET S : Cardinality(s) <= n}
           Good == {n \in Nat : \E g \in [Small(n) -> Nat] : \A s \in Small(n) : g[s] = Plus(g, s)}
<1>0. \A s \in SUBSET S : IsFiniteSet(s) /\ Cardinality(s) \in Nat
  BY FS_Subset, FS_CardinalityType
<1>1. 0 \in Good
  <2> DEFINE g == [s \in Small(0) |-> 0]
  <2>1. \A s \in Small(0) : s = {}
    <3> TAKE s \in Small(0)
    <3>1. Cardinality(s) = 0 /\ IsFiniteSet(s) BY <1>0
    <3> QED BY <3>1, FS_EmptySet
  <2>2. g \in [Small(0) -> Nat] /\ \A s \in Small(0) : g[s] = Plus(g, s) BY <2>1 DEF Plus
  <2> QED BY <2>2
<1>2. \A n \in Nat : n \in Good => n + 1 \in Good
  <2> SUFFICES ASSUME NEW n \in Nat, n \in Good PROVE n + 1 \in Good OBVIOUS
  <2>1. PICK g \in [Small(n) -> Nat] : \A s \in Small(n) : g[s] = Plus(g, s) OBVIOUS
  <2> DEFINE h == [s \in Small(n + 1) |-> IF s \in Small(n) THEN g[s] ELSE Plus(g, s)]
  <2>2. \A s \in Small(n + 1) : s # {} => Pick(s) \in s /\ Pick(s).bytes \in Nat
                                          /\ s \ {Pick(s)} \in Small(n)
    <3> SUFFICES ASSUME NEW s \in Small(n + 1), s # {}
                 PROVE Pick(s) \in s /\ Pick(s).bytes \in Nat /\ s \ {Pick(s)} \in Small(n)
      OBVIOUS
    <3>1. Pick(s) \in s BY DEF Pick
    <3>2. Pick(s).bytes \in Nat BY <3>1
    <3>3. Cardinality(s \ {Pick(s)}) = Cardinality(s) - 1 /\ Cardinality(s) \in Nat \ {0}
      BY <1>0, <3>1, Smaller
    <3>4. s \ {Pick(s)} \in SUBSET S OBVIOUS
    <3> QED BY <3>1, <3>2, <3>3, <3>4
  <2>3. Small(n) \subseteq Small(n + 1) /\ \A s \in SUBSET S : s = {} => s \in Small(n)
    <3>1. Cardinality({}) = 0 BY FS_EmptySet
    <3>2. \A s \in Small(n) : s \in Small(n + 1) BY <1>0
    <3>3. ASSUME NEW s \in SUBSET S, s = {} PROVE s \in Small(n) BY <3>1, <3>3
    <3> QED BY <3>2, <3>3
  <2>4. \A s \in Small(n + 1) : h[s] \in Nat /\ h[s] = Plus(g, s)
    <3> TAKE s \in Small(n + 1)
    <3>1. CASE s \in Small(n) BY <2>1, <3>1
    <3>2. CASE s \notin Small(n)
      <4>1. s # {} BY <2>3, <3>2
      <4> QED BY <2>2, <3>2, <4>1 DEF Plus
    <3> QED BY <3>1, <3>2
  <2>5. \A s \in Small(n + 1) : Plus(h, s) = Plus(g, s)
    <3> HIDE DEF Small
    <3>1. \A s \in Small(n) : h[s] = g[s] BY <2>3
    <3> HIDE DEF h
    <3> TAKE s \in Small(n + 1)
    <3>2. CASE s = {} BY <3>2 DEF Plus
    <3>3. CASE s # {}
      <4>1. h[s \ {Pick(s)}] = g[s \ {Pick(s)}] BY <2>2, <3>1, <3>3
      <4> QED BY <3>3, <4>1 DEF Plus
    <3> QED BY <3>2, <3>3
  <2>6. h \in [Small(n + 1) -> Nat] BY <2>4
  <2>7. \A s \in Small(n + 1) : h[s] = Plus(h, s) BY <2>4, <2>5
  <2> HIDE DEF h, Small
  <2> QED BY <2>6, <2>7
<1>3. Cardinality(S) \in Good
  <2> HIDE DEF Good
  <2>1. \A n \in Nat : n \in Good BY <1>1, <1>2, SetInduction
  <2> QED BY <2>1, FS_CardinalityType
<1>4. Small(Cardinality(S)) = SUBSET S BY FS_Subset
<1> QED BY <1>3, <1>4 DEF IsSum

(* It has only one. *)
LEMMA SumUnique ==
  ASSUME NEW S, IsFiniteSet(S), NEW f, NEW g,
         \A s \in SUBSET S : f[s] = Plus(f, s) /\ g[s] = Plus(g, s)
  PROVE  \A s \in SUBSET S : f[s] = g[s]
<1> DEFINE Good == {n \in Nat : \A s \in SUBSET S : Cardinality(s) <= n => f[s] = g[s]}
<1>1. \A s \in SUBSET S : IsFiniteSet(s) /\ Cardinality(s) \in Nat
  BY FS_Subset, FS_CardinalityType
<1>2. \A s \in SUBSET S : s = {} => f[s] = g[s] BY DEF Plus
<1>3. 0 \in Good
  <2> SUFFICES ASSUME NEW s \in SUBSET S, Cardinality(s) <= 0 PROVE f[s] = g[s] OBVIOUS
  <2>1. s = {} BY <1>1, FS_EmptySet
  <2> QED BY <1>2, <2>1
<1>4. ASSUME NEW n \in Nat, n \in Good PROVE n + 1 \in Good
  <2> SUFFICES ASSUME NEW s \in SUBSET S, Cardinality(s) <= n + 1, s # {} PROVE f[s] = g[s]
    BY <1>2
  <2>1. Pick(s) \in s BY DEF Pick
  <2>2. Cardinality(s \ {Pick(s)}) = Cardinality(s) - 1 /\ s \ {Pick(s)} \in SUBSET S
    BY <1>1, <2>1, Smaller
  <2>3. Cardinality(s \ {Pick(s)}) <= n BY <1>1, <2>2
  <2>4. f[s \ {Pick(s)}] = g[s \ {Pick(s)}] BY <1>4, <2>2, <2>3
  <2> QED BY <2>4 DEF Plus
<1>5. \A n \in Nat : n \in Good
  <2> HIDE DEF Good
  <2> QED BY <1>3, <1>4, SetInduction
<1> QED BY <1>1, <1>5

(* So SumBytes is that solution, on every subset. *)
LEMMA SumUnfold ==
  ASSUME NEW S, IsFiniteSet(S), \A s \in S : s.bytes \in Nat
  PROVE  \E it : IsSum(it, S) /\ \A s \in SUBSET S : it[s] = SumBytes(s)
<1> DEFINE Def(it, U) == [s \in SUBSET U |-> IF s = {} THEN 0
                            ELSE (CHOOSE x \in s : TRUE).bytes + it[s \ {CHOOSE x \in s : TRUE}]]
           iter(U) == CHOOSE f : f = Def(f, U)
<1>1. PICK g : IsSum(g, S) BY SumExists
<1>2. ASSUME NEW U \in SUBSET S PROVE g[U] = SumBytes(U)
  <2> DEFINE h == [s \in SUBSET U |-> g[s]]
  <2>0. \A s \in SUBSET U : s # {} => s \ {Pick(s)} \in SUBSET U OBVIOUS
  <2>1. \A s \in SUBSET U : h[s] = Plus(h, s) BY <1>1, <2>0 DEF IsSum, Plus
  <2>2. h = Def(h, U) BY <2>1 DEF Plus, Pick
  <2>3. iter(U) = Def(iter(U), U) BY <2>2
  <2>4. \A s \in SUBSET U : iter(U)[s] = Plus(iter(U), s)
    <3> DEFINE k == iter(U)
    <3> HIDE DEF k
    <3>1. k = Def(k, U) BY <2>3 DEF k
    <3> QED BY <3>1 DEF k, Plus, Pick
  <2>5. SumBytes(U) = iter(U)[U] BY DEF SumBytes, MapThenSumSet, MapThenFoldSet
  <2>6. IsFiniteSet(U) BY FS_Subset
  <2>7. iter(U)[U] = h[U]
    <3> HIDE DEF h, iter
    <3> QED BY <2>1, <2>4, <2>6, SumUnique
  <2> QED BY <2>5, <2>7
<1> QED BY <1>1, <1>2

(* Any element may be taken out first. *)
LEMMA SumRemove ==
  ASSUME NEW S, IsFiniteSet(S), \A s \in S : s.bytes \in Nat, NEW x \in S
  PROVE  SumBytes(S) = x.bytes + SumBytes(S \ {x}) /\ SumBytes(S) \in Nat
<1>1. PICK it : IsSum(it, S) /\ \A s \in SUBSET S : it[s] = SumBytes(s) BY SumUnfold
<1> DEFINE Good == {n \in Nat : \A s \in SUBSET S : Cardinality(s) <= n =>
                                  \A y \in s : it[s] = y.bytes + it[s \ {y}]}
<1>2. \A s \in SUBSET S : IsFiniteSet(s) /\ Cardinality(s) \in Nat
  BY FS_Subset, FS_CardinalityType
<1>3. \A s \in SUBSET S : it[s] \in Nat BY <1>1 DEF IsSum
<1>4. 0 \in Good
  <2> SUFFICES ASSUME NEW s \in SUBSET S, Cardinality(s) <= 0 PROVE s = {} OBVIOUS
  <2> QED BY <1>2, FS_EmptySet
<1>5. ASSUME NEW n \in Nat, n \in Good PROVE n + 1 \in Good
  <2> SUFFICES ASSUME NEW s \in SUBSET S, Cardinality(s) <= n + 1, NEW y \in s
               PROVE it[s] = y.bytes + it[s \ {y}]
    OBVIOUS
  <2> DEFINE p == Pick(s)
  <2>1. p \in s BY DEF Pick
  <2>2. it[s] = p.bytes + it[s \ {p}] BY <1>1, <2>1 DEF IsSum, Plus
  <2>3. CASE p = y BY <2>2, <2>3
  <2>4. CASE p # y
    <3> HIDE DEF p
    <3>1. y \in s \ {p} /\ p \in s \ {y} BY <2>1, <2>4
    <3>2. Cardinality(s \ {p}) <= n /\ Cardinality(s \ {y}) <= n BY <1>2, <2>1, Smaller
    <3>3. it[s \ {p}] = y.bytes + it[(s \ {p}) \ {y}] BY <1>5, <3>1, <3>2
    <3>4. it[s \ {y}] = p.bytes + it[(s \ {y}) \ {p}] BY <1>5, <3>1, <3>2
    <3>5. (s \ {p}) \ {y} = (s \ {y}) \ {p} OBVIOUS
    <3>6. it[(s \ {p}) \ {y}] \in Nat /\ p.bytes \in Nat /\ y.bytes \in Nat BY <1>3, <2>1
    <3> DEFINE k == it[(s \ {p}) \ {y}]
    <3>7. it[s \ {p}] = y.bytes + k /\ it[s \ {y}] = p.bytes + k BY <3>3, <3>4, <3>5
    <3> HIDE DEF k
    <3>8. it[s] = p.bytes + (y.bytes + k) BY <2>2, <3>7 DEF p
    <3>9. k \in Nat BY <3>6 DEF k
    <3> QED BY <3>6, <3>7, <3>8, <3>9
  <2> QED BY <2>3, <2>4
<1>6. \A n \in Nat : n \in Good
  <2> HIDE DEF Good
  <2> QED BY <1>4, <1>5, SetInduction
<1>7. it[S] = x.bytes + it[S \ {x}] BY <1>2, <1>6
<1> QED BY <1>1, <1>3, <1>7

(* The sum over nothing. *)
LEMMA SumEmpty == SumBytes({}) = 0
<1>1. PICK it : IsSum(it, {}) /\ \A s \in SUBSET {} : it[s] = SumBytes(s) BY SumUnfold, FS_EmptySet
<1>2. it[{}] = Plus(it, {}) BY <1>1 DEF IsSum
<1> QED BY <1>1, <1>2 DEF Plus

(* The sum of a part and of the rest. *)
LEMMA SumSplit ==
  ASSUME NEW S, IsFiniteSet(S), \A s \in S : s.bytes \in Nat, NEW R \in SUBSET S
  PROVE  /\ SumBytes(S) = SumBytes(R) + SumBytes(S \ R)
         /\ SumBytes(S) \in Nat /\ SumBytes(R) \in Nat /\ SumBytes(S \ R) \in Nat
<1> DEFINE Good == {n \in Nat : \A T \in SUBSET S : Cardinality(T) = n =>
                                  SumBytes(S) = SumBytes(T) + SumBytes(S \ T)}
<1>1. \A s \in SUBSET S : IsFiniteSet(s) /\ Cardinality(s) \in Nat
  BY FS_Subset, FS_CardinalityType
<1>2. \A s \in SUBSET S : SumBytes(s) \in Nat
  <2>1. PICK it : IsSum(it, S) /\ \A s \in SUBSET S : it[s] = SumBytes(s) BY SumUnfold
  <2> QED BY <2>1 DEF IsSum
<1>3. 0 \in Good
  <2> SUFFICES ASSUME NEW T \in SUBSET S, Cardinality(T) = 0
               PROVE SumBytes(S) = SumBytes(T) + SumBytes(S \ T)
    OBVIOUS
  <2>1. T = {} BY <1>1, FS_EmptySet
  <2>2. S \ T = S BY <2>1
  <2> QED BY <1>2, <2>1, <2>2, SumEmpty
<1>4. ASSUME NEW n \in Nat, n \in Good PROVE n + 1 \in Good
  <2> SUFFICES ASSUME NEW T \in SUBSET S, Cardinality(T) = n + 1
               PROVE SumBytes(S) = SumBytes(T) + SumBytes(S \ T)
    OBVIOUS
  <2>1. T # {} BY FS_EmptySet
  <2>2. PICK x \in T : TRUE BY <2>1
  <2>3. Cardinality(T \ {x}) = n /\ T \ {x} \in SUBSET S BY <1>1, Smaller
  <2>4. SumBytes(S) = SumBytes(T \ {x}) + SumBytes(S \ (T \ {x})) BY <1>4, <2>3
  <2>5. SumBytes(T) = x.bytes + SumBytes(T \ {x}) BY <1>1, SumRemove
  <2>6. IsFiniteSet(S \ (T \ {x})) /\ x \in S \ (T \ {x}) /\ (S \ (T \ {x})) \ {x} = S \ T
    BY <1>1
  <2>7. SumBytes(S \ (T \ {x})) = x.bytes + SumBytes(S \ T) BY <2>6, SumRemove
  <2>8. SumBytes(T \ {x}) \in Nat /\ SumBytes(S \ T) \in Nat /\ x.bytes \in Nat BY <1>2
  <2> QED BY <2>4, <2>5, <2>7, <2>8
<1>5. \A n \in Nat : n \in Good
  <2> HIDE DEF Good
  <2> QED BY <1>3, <1>4, SetInduction
<1> QED BY <1>1, <1>2, <1>5

(* The frames the target ran, in every phase of execute_with_cache. *)
ScanInv ==
  /\ pc \in {"walk", "open"} /\ provenance # "cold_prefix_fallback" => executed = 0 /\ start = 0
  /\ pc = "replay" \/ (pc = "walk" /\ provenance = "cold_prefix_fallback") => executed = index
  /\ pc \in {"scan", "done"} => IF Replayed THEN executed = index ELSE executed + start = index
  /\ pc \in {"walk", "open", "replay"} => provenance \in {"cold", "cold_prefix_fallback"}

(* used_bytes and the limits, with what the sums need. *)
BooksInv == IsFiniteSet(snapshots) /\ CacheWithinLimits

(* After a failed validation. *)
FreshInv ==
  (provenance = "cold_prefix_fallback" /\ pc \in {"walk", "scan", "done"}) =>
    /\ index >= start
    /\ pc = "walk" => snapshots = {} /\ exports = {}

(* An empty cache. *)
LEMMA EmptyBooks ==
  ASSUME IdInv', snapshots' = {}, usedBytes' = 0 PROVE BooksInv'
<1>1. SumBytes({}) = 0 /\ IsFiniteSet({}) /\ Cardinality({}) = 0 BY SumEmpty, FS_EmptySet
<1> QED BY <1>1, BoundsAssumption DEF BooksInv, CacheWithinLimits

(* Steps that leave the snapshots alone. *)
LEMMA SameBooks ==
  ASSUME BooksInv, snapshots' = snapshots, usedBytes' = usedBytes PROVE BooksInv'
BY DEF BooksInv, CacheWithinLimits

(* The size of a snapshot is a number. *)
LEMMA SnapshotBytes == ASSUME IdInv PROVE \A s \in snapshots : s.bytes \in Nat
BY DEF IdInv, TypeOK, CacheType, Snapshot

(* A use is counted: the snapshot is replaced by one of the same size. *)
LEMMA BumpBooks ==
  ASSUME IdInv, BooksInv, NEW s \in snapshots, usedBytes' = usedBytes,
         snapshots' = (snapshots \ {s}) \cup {[s EXCEPT !.saves = @ + 1]}
  PROVE  BooksInv'
<1> DEFINE z == [s EXCEPT !.saves = @ + 1]
           rest == snapshots \ {s}
<1>1. s \in Snapshot BY DEF IdInv, TypeOK, CacheType
<1>2. z.id = s.id /\ z.bytes = s.bytes BY <1>1 DEF Snapshot
<1>3. z \notin rest BY <1>2 DEF IdInv, SnapInv
<1>4. \A x \in snapshots : x.bytes \in Nat BY SnapshotBytes
<1> HIDE DEF z
<1>5. IsFiniteSet(rest) /\ Cardinality(rest) = Cardinality(snapshots) - 1
      /\ Cardinality(snapshots) \in Nat \ {0}
  BY Smaller DEF BooksInv
<1>6. snapshots' = rest \cup {z} BY DEF z
<1>7. IsFiniteSet(snapshots') /\ Cardinality(snapshots') = Cardinality(snapshots)
  <2>1. IsFiniteSet(rest \cup {z}) /\ Cardinality(rest \cup {z}) = Cardinality(rest) + 1
    BY <1>3, <1>5, FS_AddElement
  <2>2. Cardinality(rest) + 1 = Cardinality(snapshots) BY <1>5
  <2> QED BY <1>6, <2>1, <2>2, Zenon
<1>8. SumBytes(snapshots) = s.bytes + SumBytes(rest) BY <1>4, SumRemove DEF BooksInv
<1>9. SumBytes(snapshots') = z.bytes + SumBytes(rest)
  <2>1. \A x \in snapshots' : x.bytes \in Nat BY <1>2, <1>4, <1>6
  <2>2. z \in snapshots' /\ snapshots' \ {z} = rest BY <1>3, <1>6
  <2> QED BY <1>7, <2>1, <2>2, SumRemove
<1> QED BY <1>2, <1>7, <1>8, <1>9 DEF BooksInv, CacheWithinLimits

(* store: what evict takes off used_bytes is what the victims took. *)
LEMMA StoreBooks ==
  ASSUME IdInv, BooksInv, NEW id \in Nat, NEW depth \in 1..MaxLen,
         NEW os \in Seq(Observation), Len(os) = depth, NEW blob \in Blobs,
         Store(id, depth, os, blob)
  PROVE  BooksInv'
<1> DEFINE bytes == StateBytes + Len(os)
           same == {s \in snapshots : s.id = id}
<1>1. CASE same # {}
  <2>1. PICK s \in snapshots : s.id = id BY <1>1
  <2>2. same = {s} BY <2>1 DEF IdInv, SnapInv
  <2>3. snapshots' = (snapshots \ {s}) \cup {[s EXCEPT !.saves = @ + 1]} /\ usedBytes' = usedBytes
    BY <1>1, <2>2 DEF Store
  <2> QED BY <2>3, BumpBooks
<1>2. CASE same = {} /\ bytes > MaxBytes
  <2>1. ~(bytes <= MaxBytes) BY <1>2, BoundsAssumption
  <2>2. snapshots' = snapshots /\ usedBytes' = usedBytes BY <1>2, <2>1 DEF Store
  <2> QED BY <2>2, SameBooks
<1>3. CASE same = {} /\ ~(bytes > MaxBytes)
  <2> DEFINE new == [id |-> id, depth |-> depth, state |-> blob, obs |-> os,
                     bytes |-> bytes, saves |-> 0]
  <2>1. PICK R \in SUBSET snapshots :
          /\ R = snapshots \/ Fits(R, bytes)
          /\ snapshots' = (snapshots \ R) \cup {new}
          /\ usedBytes' = Less(usedBytes, SumBytes(R)) + bytes
    BY <1>3 DEF Store, Victims
  <2> DEFINE left == snapshots \ R
  <2>2. bytes \in Nat /\ bytes <= MaxBytes /\ new.bytes = bytes /\ new.id = id
    BY <1>3, BoundsAssumption
  <2>3. new \notin left BY <1>3, <2>2
  <2> HIDE DEF new, bytes
  <2>4. \A x \in snapshots : x.bytes \in Nat BY SnapshotBytes
  <2>5. /\ SumBytes(snapshots) = SumBytes(R) + SumBytes(left)
        /\ SumBytes(R) \in Nat /\ SumBytes(left) \in Nat
    BY <2>4, SumSplit DEF BooksInv
  <2>6. Less(usedBytes, SumBytes(R)) = SumBytes(left)
    BY <2>5 DEF Less, BooksInv, CacheWithinLimits
  <2>7. IsFiniteSet(left) /\ Cardinality(left) \in Nat
    BY FS_Subset, FS_CardinalityType DEF BooksInv
  <2>8. IsFiniteSet(snapshots') /\ Cardinality(snapshots') = Cardinality(left) + 1
    BY <2>1, <2>3, <2>7, FS_AddElement
  <2>9. SumBytes(snapshots') = bytes + SumBytes(left)
    <3>1. \A x \in snapshots' : x.bytes \in Nat BY <2>1, <2>2, <2>4
    <3>2. new \in snapshots' /\ snapshots' \ {new} = left BY <2>1, <2>3
    <3> QED BY <2>2, <2>8, <3>1, <3>2, SumRemove
  <2>10. usedBytes' = SumBytes(snapshots') BY <2>1, <2>2, <2>5, <2>6, <2>9
  <2>11. CASE R = snapshots
    <3>1. left = {} BY <2>11
    <3>2. SumBytes(left) = 0 /\ Cardinality(left) = 0 BY <3>1, SumEmpty, FS_EmptySet
    <3> QED BY <2>2, <2>8, <2>9, <2>10, <3>2, BoundsAssumption DEF BooksInv, CacheWithinLimits
  <2>12. CASE Fits(R, bytes)
    <3>1. Cardinality(left) < MaxEntries /\ SumBytes(left) + bytes <= MaxBytes
      BY <2>6, <2>12 DEF Fits
    <3> QED BY <2>2, <2>5, <2>7, <2>8, <2>9, <2>10, <3>1, BoundsAssumption
        DEF BooksInv, CacheWithinLimits
  <2> QED BY <2>1, <2>11, <2>12
<1> QED BY <1>1, <1>2, <1>3

(* What a frame of the suffix hands to store and export_snapshot. *)
LEMMA ScanStore ==
  ASSUME IdInv, ScanFrame
  PROVE  LET d == index + 1 IN
         /\ ids[d] \in Nat /\ d \in 1..MaxLen /\ obs' \in Seq(Observation) /\ Len(obs') = d
         /\ Checkpoint(target') \in Blobs
         /\ \/ UNCHANGED <<snapshots, usedBytes, exports>>
            \/ Store(ids[d], d, obs', Checkpoint(target')) /\ Export(ids[d], d)
<1> DEFINE d == index + 1
<1>1. /\ target' = Step(target, tc.frames[index + 1])
      /\ goalMap' = {} \cup Hits(target, tc.frames[index + 1])
      /\ obs' = Append(obs, Observe(goalMap', target'))
      /\ index < Len(tc.frames) /\ pc = "scan"
  BY DEF ScanFrame
<1>2. /\ target' \in States /\ obs' \in Seq(Observation)
      /\ Len(obs') = d /\ d \in 1..Len(tc.frames) /\ Len(tc.frames) \in 1..MaxLen
  <2>1. {} \in SUBSET Ids OBVIOUS
  <2> QED BY <1>1, <2>1, FrameType
<1>3. d \in 1..MaxLen BY <1>2, BoundsAssumption
<1>4. ids[d] \in Nat
  <2>1. d \in 1..Len(ids) /\ ids \in Seq(Nat)
    BY <1>1, <1>2 DEF IdInv, PhaseInv, TypeOK, RunType
  <2> QED BY <2>1
<1>5. Checkpoint(target') \in Blobs BY <1>2, TargetTypes
<1>6. \/ UNCHANGED <<snapshots, usedBytes, exports>>
      \/ Store(ids[d], d, obs', Checkpoint(target')) /\ Export(ids[d], d)
  BY DEF ScanFrame
<1> QED BY <1>2, <1>3, <1>4, <1>5, <1>6

(* Every step keeps the books. *)
LEMMA NextBooks == ASSUME IdInv, IdInv', BooksInv, [Next]_vars PROVE BooksInv'
<1>1. CASE UNCHANGED vars BY <1>1, SameBooks DEF vars, cacheVars
<1>2. ASSUME NEW t \in TestCases, Begin(t) PROVE BooksInv'
  <2>1. \/ snapshots' = {} /\ usedBytes' = 0
        \/ snapshots' = snapshots /\ usedBytes' = usedBytes
    BY <1>2 DEF Begin
  <2> QED BY <2>1, SameBooks, EmptyBooks
<1>3. CASE WalkFrame \/ EndWalk \/ ReplayFrame \/ Finish \/ ReturnOk
  BY <1>3, SameBooks DEF WalkFrame, EndWalk, ReplayFrame, Finish, ReturnOk, cacheVars
<1>4. CASE Open
  <2>1. CASE CachedDepths = {} BY <1>4, <2>1, SameBooks DEF Open
  <2>2. CASE CachedDepths # {}
    <3>1. PICK s \in snapshots :
            snapshots' = (snapshots \ {s}) \cup {[s EXCEPT !.saves = @ + 1]}
      BY <1>4, <2>2 DEF Open
    <3> QED BY <1>4, <3>1, BumpBooks DEF Open
  <2> QED BY <2>1, <2>2
<1>5. CASE EndReplay
  <2>1. CASE Checkpoint(target) = resumed BY <1>5, <2>1, SameBooks DEF EndReplay, cacheVars
  <2>2. CASE Checkpoint(target) # resumed BY <1>5, <2>2, EmptyBooks DEF EndReplay
  <2> QED BY <2>1, <2>2
<1>6. CASE ScanFrame
  <2> DEFINE d == index + 1
  <2>1. /\ ids[d] \in Nat /\ d \in 1..MaxLen /\ obs' \in Seq(Observation) /\ Len(obs') = d
        /\ Checkpoint(target') \in Blobs
        /\ \/ UNCHANGED <<snapshots, usedBytes, exports>>
           \/ Store(ids[d], d, obs', Checkpoint(target')) /\ Export(ids[d], d)
    BY <1>6, ScanStore
  <2> HIDE DEF d
  <2>2. CASE UNCHANGED <<snapshots, usedBytes, exports>> BY <2>2, SameBooks
  <2>3. CASE Store(ids[d], d, obs', Checkpoint(target')) BY <2>1, <2>3, StoreBooks
  <2> QED BY <2>1, <2>2, <2>3
<1>7. CASE ReturnCrash \/ Fault \/ PreflightStop
  BY <1>7, EmptyBooks DEF ReturnCrash, Fault, PreflightStop, CrashExit, ClearCache
<1> QED BY <1>1, <1>2, <1>3, <1>4, <1>5, <1>6, <1>7 DEF Next

(* Every step counts the frames it runs. *)
LEMMA NextScans == ASSUME IdInv, IdInv', ScanInv, [Next]_vars PROVE ScanInv'
<1> USE DEF ScanInv, Replayed
<1>0. /\ start \in Nat /\ index \in Nat /\ executed \in Nat /\ start' \in Nat
      /\ (pc = "replay" => index <= start)
      /\ pc \in {"walk", "open"} /\ provenance # "cold_prefix_fallback" => index = 0
      /\ pc = "open" => provenance # "cold_prefix_fallback"
  <2>1. Len(tc.frames) \in Nat /\ Len(tc'.frames) \in Nat BY CaseType DEF IdInv, TypeOK, RunType
  <2> QED BY <2>1 DEF IdInv, TypeOK, RunType, PhaseInv
<1>1. CASE UNCHANGED vars BY <1>1 DEF vars, runVars
<1>2. ASSUME NEW t \in TestCases, Begin(t) PROVE ScanInv' BY <1>2 DEF Begin
<1>3. CASE WalkFrame BY <1>3 DEF WalkFrame
<1>4. CASE EndWalk BY <1>0, <1>4 DEF EndWalk, runVars
<1>5. CASE Open
  <2>1. CASE CachedDepths = {} BY <1>0, <1>5, <2>1 DEF Open
  <2>2. CASE CachedDepths # {} BY <1>0, <1>5, <2>2 DEF Open
  <2> QED BY <2>1, <2>2
<1>6. CASE ReplayFrame BY <1>0, <1>6 DEF ReplayFrame
<1>7. CASE EndReplay BY <1>0, <1>7 DEF EndReplay
<1>8. CASE ScanFrame BY <1>0, <1>8 DEF ScanFrame
<1>9. CASE Finish BY <1>9 DEF Finish
<1>10. CASE ReturnOk \/ ReturnCrash \/ Fault BY <1>10 DEF ReturnOk, ReturnCrash, Fault, CrashExit, DropLocals
<1>11. CASE PreflightStop BY <1>11 DEF PreflightStop, runVars
<1> QED BY <1>1, <1>2, <1>3, <1>4, <1>5, <1>6, <1>7, <1>8, <1>9, <1>10, <1>11 DEF Next

(* The books of the cache are right for every size of cache and snapshot:  *)
(* used_bytes is the sum over what is retained through restores, evictions *)
(* and clears, so saturating_sub never saturates, both limits hold, and    *)
(* the scans reported are the frames that were run.                        *)
THEOREM BooksAreExact == Spec => []AccountingIsExact
<1>1. Init => BooksInv /\ ScanInv
  <2> SUFFICES ASSUME Init PROVE BooksInv /\ ScanInv OBVIOUS
  <2>1. SumBytes({}) = 0 /\ IsFiniteSet({}) /\ Cardinality({}) = 0 BY SumEmpty, FS_EmptySet
  <2>2. BooksInv BY <2>1, BoundsAssumption DEF Init, BooksInv, CacheWithinLimits
  <2> QED BY <2>2 DEF Init, ScanInv
<1>2. IdInv /\ IdInv' /\ BooksInv /\ ScanInv /\ [Next]_vars => BooksInv' /\ ScanInv'
  BY NextBooks, NextScans
<1>3. IdInv /\ BooksInv /\ ScanInv => AccountingIsExact
  <2> SUFFICES ASSUME IdInv, BooksInv, ScanInv PROVE AccountingIsExact OBVIOUS
  <2>1. Len(tc.frames) \in Nat /\ start \in 0..(Len(tc.frames) - 1) /\ executed \in Nat
    BY CaseType DEF IdInv, TypeOK, RunType
  <2>2. pc = "done" => index = Len(tc.frames) BY DEF IdInv, PhaseInv
  <2>3. ScansAreHonest BY <2>1, <2>2 DEF ScanInv, ScansAreHonest, Scans, Restored, Replayed
  <2> QED BY <2>3 DEF BooksInv, AccountingIsExact
<1> QED BY <1>1, <1>2, <1>3, IdInvariant, PTL DEF Spec

(* After a failed validation nothing of before comes back. *)
LEMMA NextFresh ==
  ASSUME IdInv, IdInv', FreshInv, NothingOldSurvives, [Next]_vars
  PROVE  FreshInv' /\ NothingOldSurvives'
<1> USE DEF FreshInv, NothingOldSurvives
<1>0. /\ start \in Nat /\ index \in Nat /\ Len(tc.frames) \in Nat
      /\ pc = "open" => provenance # "cold_prefix_fallback"
      /\ pc = "walk" /\ provenance = "cold_prefix_fallback" => index = start
  <2>1. Len(tc.frames) \in Nat BY CaseType DEF IdInv, TypeOK, RunType
  <2> QED BY <2>1 DEF IdInv, TypeOK, RunType, PhaseInv
<1>1. CASE UNCHANGED vars BY <1>1 DEF vars, cacheVars, runVars, Prefix
<1>2. ASSUME NEW t \in TestCases, Begin(t) PROVE FreshInv' /\ NothingOldSurvives'
  BY <1>2 DEF Begin
<1>3. CASE WalkFrame
  <2>1. UNCHANGED <<snapshots, exports, pc, provenance, start, index>> /\ pc = "walk"
    BY <1>3 DEF WalkFrame, cacheVars
  <2> QED BY <2>1
<1>4. CASE EndWalk BY <1>0, <1>4 DEF EndWalk, runVars, cacheVars, Prefix
<1>5. CASE Open
  <2>1. provenance' # "cold_prefix_fallback" /\ pc' # "idle" BY <1>0, <1>5 DEF Open
  <2> QED BY <2>1
<1>6. CASE ReplayFrame BY <1>6 DEF ReplayFrame
<1>7. CASE EndReplay
  <2>1. pc' # "idle" /\ index = start /\ index' = index /\ start' = start BY <1>7 DEF EndReplay
  <2>2. provenance' = "cold_validation" \/ (snapshots' = {} /\ exports' = {})
    BY <1>7 DEF EndReplay, InvalidateExports
  <2> QED BY <1>0, <2>1, <2>2
<1>8. CASE ScanFrame
  <2> DEFINE d == index + 1
  <2>1. /\ UNCHANGED <<pc, tc, ids, start, provenance, lastExit>> /\ pc = "scan" /\ index' = d
    BY <1>8 DEF ScanFrame
  <2>2. /\ ids[d] \in Nat /\ d \in 1..MaxLen /\ obs' \in Seq(Observation) /\ Len(obs') = d
        /\ Checkpoint(target') \in Blobs
        /\ \/ UNCHANGED <<snapshots, usedBytes, exports>>
           \/ Store(ids[d], d, obs', Checkpoint(target')) /\ Export(ids[d], d)
    BY <1>8, ScanStore
  <2> SUFFICES ASSUME provenance = "cold_prefix_fallback"
               PROVE /\ index' >= start
                     /\ \A s \in snapshots' : s.depth > start /\ s.id = ids[s.depth]
                     /\ \A e \in exports' : /\ e.root = tc.root /\ Len(e.prefix) > start
                                            /\ e.prefix = Prefix(Len(e.prefix))
    BY <2>1 DEF Prefix
  <2>3. d > start /\ index' >= start BY <1>0, <2>1
  <2>4. CASE UNCHANGED <<snapshots, usedBytes, exports>> BY <2>1, <2>3, <2>4
  <2>5. CASE Store(ids[d], d, obs', Checkpoint(target')) /\ Export(ids[d], d)
    <3>1. \A x \in snapshots' : (\E y \in snapshots : Alike(x, y)) \/ (x.id = ids[d] /\ x.depth = d)
      BY <2>2, <2>5, StoreFacts DEF IdInv
    <3>2. \A s \in snapshots' : s.depth > start /\ s.id = ids[s.depth]
      BY <2>1, <2>3, <3>1 DEF Alike
    <3>3. ASSUME NEW e \in exports'
          PROVE /\ e.root = tc.root /\ Len(e.prefix) > start /\ e.prefix = Prefix(Len(e.prefix))
      <4>1. CASE e \in exports BY <2>1, <4>1
      <4>2. CASE e \notin exports
        <5>1. e.root = tc.root /\ e.prefix = Prefix(d) BY <2>5, <4>2, ExportFacts DEF Prefix
        <5>2. Len(Prefix(d)) = d
          <6>1. tc.frames \in Paths /\ d \in 0..Len(tc.frames)
            BY <1>0, <1>8, CaseType DEF ScanFrame, IdInv, TypeOK, RunType
          <6> QED BY <6>1, PathPrefix DEF Prefix
        <5> QED BY <2>3, <5>1, <5>2
      <4> QED BY <4>1, <4>2
    <3> QED BY <2>3, <3>2, <3>3
  <2> QED BY <2>2, <2>4, <2>5
<1>9. CASE Finish BY <1>9 DEF Finish, cacheVars, Prefix
<1>10. CASE ReturnOk BY <1>10 DEF ReturnOk, DropLocals
<1>11. CASE ReturnCrash \/ Fault
  BY <1>11 DEF ReturnCrash, Fault, CrashExit, DropLocals, ClearCache, InvalidateExports
<1>12. CASE PreflightStop BY <1>12 DEF PreflightStop, runVars
<1> QED BY <1>1, <1>2, <1>3, <1>4, <1>5, <1>6, <1>7, <1>8, <1>9, <1>10, <1>11, <1>12 DEF Next

(* A snapshot that failed its validation, and one taken in a process that  *)
(* crashed, is neither restored nor read by the solver afterwards.         *)
THEOREM OldIsForgotten == Spec => []NothingOldSurvives
<1>1. Init => FreshInv /\ NothingOldSurvives BY DEF Init, FreshInv, NothingOldSurvives
<1>2. IdInv /\ IdInv' /\ FreshInv /\ NothingOldSurvives /\ [Next]_vars
        => FreshInv' /\ NothingOldSurvives'
  BY NextFresh
<1> QED BY <1>1, <1>2, IdInvariant, PTL DEF Spec
=============================================================================
