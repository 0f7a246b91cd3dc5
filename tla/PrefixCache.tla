----------------------------- MODULE PrefixCache -----------------------------
(***************************************************************************)
(* The prefix-snapshot cache of the in-process engine and the executor     *)
(* around it (fuzzer/engine/src/v3.rs, v3_exec.rs, inprocess.rs).          *)
(*                                                                         *)
(* A testcase is a list of frames run from an initialisation profile (its  *)
(* "root").  Every distinct prefix gets a node id; selected prefixes get a *)
(* checkpoint of the target's state; a later testcase resumes from its     *)
(* longest checkpointed prefix instead of running it again.  One in        *)
(* ValidateEvery resumptions re-runs the prefix cold and compares.         *)
(* Snapshots are also exported to disk, keyed by node id.                  *)
(*                                                                         *)
(* One call of execute_with_cache is the sequence of steps                 *)
(*   Begin, WalkFrame.., EndWalk, Open, ReplayFrame.., EndReplay,          *)
(*   ScanFrame.., Finish, then ReturnOk or ReturnCrash.                    *)
(* The target program is external: a deterministic machine given by the    *)
(* operators Boot, Step, Hits, Checkpoint and Restore.                     *)
(***************************************************************************)
EXTENDS Naturals, Sequences, FiniteSets, FiniteSetsExt

CONSTANTS
  Frames,             \* input frames
  Roots,              \* (init_profile, shared records) pairs
  Ids,                \* runtime ids of the semantic map
  Goals,              \* the ids that are the goal of some task
  States,             \* states of the target process
  Blobs,              \* contents of a checkpoint
  NoBlob,             \* no checkpoint held
  Boot(_, _),         \* semantist_init in a process state, for a root
  Step(_, _),         \* semantist_step
  Hits(_, _),         \* the runtime ids one step marks
  Checkpoint(_),      \* semantist_checkpoint
  Restore(_, _),      \* semantist_restore of a blob over a process state
  Cold(_, _),         \* state after running a path of frames from a cold start
  Enabled,            \* not --v3-no-snapshot
  MaxLen,             \* frames per testcase
  MaxEntries, MaxBytes, NodesPerEntry, StateBytes,
  CheckpointEvery,    \* 16 in the code
  ValidateEvery,      \* 32 in the code
  MaxExecs            \* bound: executions of one behaviour

ASSUME BoundsAssumption ==
  /\ MaxLen \in Nat \ {0} /\ MaxEntries \in Nat \ {0} /\ MaxBytes \in Nat
  /\ NodesPerEntry \in Nat /\ StateBytes \in Nat \ {0}
  /\ CheckpointEvery \in Nat \ {0} /\ ValidateEvery \in Nat \ {0}
  /\ MaxExecs \in Nat /\ Enabled \in BOOLEAN /\ Goals \subseteq Ids
  /\ Roots # {} /\ Frames # {}

Paths == UNION {[1..n -> Frames] : n \in 0..MaxLen}

ASSUME TargetTypes ==
  /\ NoBlob \notin Blobs
  /\ \A s \in States : Checkpoint(s) \in Blobs
  /\ \A s \in States, r \in Roots : Boot(s, r) \in States
  /\ \A s \in States, f \in Frames : Step(s, f) \in States /\ Hits(s, f) \subseteq Ids
  /\ \A s \in States, b \in Blobs : Restore(s, b) \in States

(* What a cold run of a path is.  Cold is only used to state properties.   *)
ASSUME ColdRuns ==
  /\ \A r \in Roots, p \in Paths : Cold(r, p) \in States
  /\ \A r \in Roots, p \in Paths, f \in Frames :
        Len(p) < MaxLen => Cold(r, Append(p, f)) = Step(Cold(r, p), f)

(* The checkpoint regions hold all of the target's state: initialising     *)
(* forgets the past and restoring a checkpoint brings the state back.      *)
CheckpointComplete ==
  /\ \A s \in States, r \in Roots : Boot(s, r) = Cold(r, <<>>)
  /\ \A s, t \in States : Restore(t, Checkpoint(s)) = s

Observation == [hits : SUBSET Goals, blob : Blobs]
Snapshot == [id : Nat, depth : 1..MaxLen, state : Blobs, obs : Seq(Observation),
             bytes : Nat, saves : Nat]

VARIABLES
  roots,       \* PrefixCache.roots: set of [id, root]
  nodes,       \* PrefixCache.nodes: set of [id, parent, frame]
  snapshots,   \* PrefixCache.snapshots: set of [id, depth, state, obs, bytes, saves]
  nextId, usedBytes, hits,
  exports,     \* prefixes/snapshots.jsonl with its state files
  pc,          \* where execute_with_cache is
  tc,          \* the testcase: [root, frames]
  ids,         \* prefix_ids found so far
  start, index, target, goalMap, obs,
  resumed,     \* restored_state, kept during a validation replay
  provenance,
  lastExit,    \* exit kind of the last execution
  execs,       \* executions begun, for MaxExecs
  born,        \* history: the path each id was allocated for
  executed     \* history: frames the target ran for this testcase

cacheVars == <<roots, nodes, snapshots, nextId, usedBytes, hits, born>>
runVars == <<tc, ids, start, index, target, goalMap, obs, resumed, provenance, executed>>
vars == <<cacheVars, exports, pc, runVars, lastExit, execs>>

TestCases == [root : Roots, frames : Paths \ {<<>>}]
NoCase == [root |-> CHOOSE r \in Roots : TRUE, frames |-> <<CHOOSE f \in Frames : TRUE>>]

CacheType ==
  /\ roots \in SUBSET [id : Nat, root : Roots]
  /\ nodes \in SUBSET [id : Nat, parent : Nat, frame : Frames]
  /\ snapshots \in SUBSET Snapshot /\ \A s \in snapshots : Len(s.obs) = s.depth
  /\ nextId \in Nat \ {0} /\ usedBytes \in Nat /\ hits \in Nat
  /\ exports \in SUBSET [node : Nat, root : Roots, prefix : Paths, state : Blobs]
  /\ born \in SUBSET [id : Nat, root : Roots, path : Paths]

RunType ==
  /\ pc \in {"idle", "walk", "open", "replay", "scan", "done"}
  /\ tc \in TestCases /\ ids \in Seq(Nat) /\ Len(ids) <= Len(tc.frames)
  /\ start \in 0..(Len(tc.frames) - 1) /\ index \in 0..Len(tc.frames) /\ target \in States
  /\ goalMap \subseteq Ids /\ obs \in Seq(Observation)
  /\ resumed \in Blobs \cup {NoBlob}
  /\ provenance \in {"cold", "snapshot", "cold_validation", "cold_prefix_fallback"}
  /\ lastExit \in {"none", "Ok", "Crash", "PreflightStop"}
  /\ execs \in 0..MaxExecs
  /\ executed \in Nat

(* Types of the cache, the exports and the running execution; a resumed    *)
(* execution always leaves at least one frame to run.                      *)
TypeOK == CacheType /\ RunType

Init ==
  /\ roots = {} /\ nodes = {} /\ snapshots = {} /\ nextId = 1 /\ usedBytes = 0 /\ hits = 0
  /\ exports = {} /\ pc = "idle"
  /\ tc = NoCase
  /\ ids = <<>> /\ start = 0 /\ index = 0 /\ target = Cold(tc.root, <<>>)
  /\ goalMap = {} /\ obs = <<>> /\ resumed = NoBlob /\ provenance = "cold"
  /\ lastExit = "none" /\ execs = 0 /\ born = {} /\ executed = 0

-----------------------------------------------------------------------------
(* Outside execute_with_cache its locals do not exist. *)
DropLocals ==
  /\ tc' = NoCase /\ ids' = <<>> /\ start' = 0 /\ index' = 0 /\ obs' = <<>> /\ goalMap' = {}
  /\ resumed' = NoBlob /\ provenance' = "cold" /\ executed' = 0

(* PrefixCache::clear: next_id is kept, so ids are never given out twice.  *)
ClearCacheRestartsIds ==                        \* mutant: next_id starts over
  /\ roots' = {} /\ nodes' = {} /\ snapshots' = {} /\ usedBytes' = 0 /\ nextId' = 1
  /\ UNCHANGED <<hits, born>>

ClearCache ==
  /\ roots' = {} /\ nodes' = {} /\ snapshots' = {} /\ usedBytes' = 0
  /\ UNCHANGED <<nextId, hits, born>>

(* invalidate_exports: the index and the state files are removed. *)
KeepExports == UNCHANGED exports                \* mutant: only the memory is cleared

InvalidateExports == exports' = {}

(* prefix_ids, the root lookup over the lists rs, after a possible clear.  *)
FindRoot(rs, r) ==
  IF \E e \in rs : e.root = r
  THEN /\ roots' = rs /\ UNCHANGED <<nextId, born>>
  ELSE /\ roots' = rs \cup {[id |-> nextId, root |-> r]}
       /\ nextId' = nextId + 1
       /\ born' = born \cup {[id |-> nextId, root |-> r, path |-> <<>>]}

(* The engine hands a testcase over: v3_clear_maps, then prefix_ids up to  *)
(* the root.  A node list past its limit empties the whole cache.          *)
Begin(t) ==
  /\ pc = "idle" /\ execs < MaxExecs
  /\ LET full == Cardinality(nodes) > MaxEntries * NodesPerEntry
     IN  /\ FindRoot(IF full THEN {} ELSE roots, t.root)
         /\ nodes' = IF full THEN {} ELSE nodes
         /\ snapshots' = IF full THEN {} ELSE snapshots
         /\ usedBytes' = IF full THEN 0 ELSE usedBytes
  /\ tc' = t /\ ids' = <<>> /\ start' = 0 /\ index' = 0 /\ obs' = <<>> /\ goalMap' = {}
  /\ resumed' = NoBlob /\ provenance' = "cold" /\ executed' = 0
  /\ pc' = "walk" /\ execs' = execs + 1
  /\ UNCHANGED <<hits, exports, target, lastExit>>

ParentIsRoot == (CHOOSE e \in roots : e.root = tc.root).id    \* mutant: flat tree

ParentId == IF ids = <<>> THEN (CHOOSE e \in roots : e.root = tc.root).id ELSE ids[Len(ids)]

(* prefix_ids, one frame: the child of the last node for this frame, or a  *)
(* fresh node.                                                             *)
WalkFrame ==
  /\ pc = "walk" /\ Len(ids) < Len(tc.frames)
  /\ LET f == tc.frames[Len(ids) + 1]
         known == {n \in nodes : n.parent = ParentId /\ n.frame = f}
     IN \/ /\ known # {}
           /\ ids' = Append(ids, (CHOOSE n \in known : TRUE).id)
           /\ UNCHANGED cacheVars
        \/ /\ known = {}
           /\ ids' = Append(ids, nextId)
           /\ nodes' = nodes \cup {[id |-> nextId, parent |-> ParentId, frame |-> f]}
           /\ nextId' = nextId + 1
           /\ born' = born \cup {[id |-> nextId, root |-> tc.root,
                                  path |-> SubSeq(tc.frames, 1, Len(ids) + 1)]}
           /\ UNCHANGED <<roots, snapshots, usedBytes, hits>>
  /\ UNCHANGED <<exports, pc, tc, start, index, target, goalMap, obs, resumed,
                 provenance, executed, lastExit, execs>>

(* prefix_ids returns: to the prefix lookup, or after a failed validation  *)
(* to the suffix.                                                          *)
EndWalk ==
  /\ pc = "walk" /\ Len(ids) = Len(tc.frames)
  /\ pc' = IF provenance = "cold_prefix_fallback" THEN "scan" ELSE "open"
  /\ UNCHANGED <<cacheVars, exports, runVars, lastExit, execs>>

(* Depths below the full length that have a snapshot. *)
CachedDepths == IF Enabled
                THEN {d \in 1..(Len(tc.frames) - 1) : \E s \in snapshots : s.id = ids[d]}
                ELSE {}

(* The state a validation replay starts from: a second semantist_init. *)
ReplayWithoutInit(back) == back                 \* mutant

ReplayStart(back) == Boot(back, tc.root)

(* semantist_init, then restore of the longest cached prefix; every        *)
(* ValidateEvery-th hit starts the cold validation replay instead.         *)
(* semantist_state_size is fixed for a process, so restore's size check    *)
(* always passes.                                                          *)
Open ==
  /\ pc = "open"
  /\ \/ /\ CachedDepths = {}
        /\ target' = Boot(target, tc.root) /\ pc' = "scan"
        /\ UNCHANGED <<snapshots, hits, start, index, obs, goalMap, resumed, provenance>>
     \/ /\ CachedDepths # {}
        /\ \E d \in CachedDepths, s \in snapshots :
             /\ \A other \in CachedDepths : other <= d
             /\ s.id = ids[d]
             /\ snapshots' = (snapshots \ {s}) \cup {[s EXCEPT !.saves = @ + 1]}
             /\ hits' = hits + 1 /\ start' = d
             /\ LET back == Restore(Boot(target, tc.root), s.state)
                IN \/ /\ hits' % ValidateEvery # 0
                      /\ target' = back /\ obs' = s.obs /\ index' = d /\ provenance' = "snapshot"
                      /\ goalMap' = UNION {s.obs[i].hits : i \in DOMAIN s.obs}
                      /\ pc' = "scan" /\ UNCHANGED resumed
                   \/ /\ hits' % ValidateEvery = 0
                      /\ resumed' = Checkpoint(back)
                      /\ target' = ReplayStart(back)
                      /\ pc' = "replay" /\ UNCHANGED <<obs, index, goalMap, provenance>>
  /\ UNCHANGED <<roots, nodes, nextId, usedBytes, born, exports, tc, ids, executed, lastExit, execs>>

(* capture_frame_observation: the goals in the map, the fields read back.  *)
Observe(map, state) == [hits |-> map \cap Goals, blob |-> Checkpoint(state)]

(* One frame of the validation replay: the semantic map is not cleared.    *)
ReplayFrame ==
  /\ pc = "replay" /\ index < start
  /\ LET f == tc.frames[index + 1]
     IN /\ target' = Step(target, f)
        /\ goalMap' = goalMap \cup Hits(target, f)
        /\ obs' = Append(obs, Observe(goalMap', target'))
  /\ index' = index + 1 /\ executed' = executed + 1
  /\ UNCHANGED <<cacheVars, exports, pc, tc, ids, start, resumed, provenance, lastExit, execs>>

(* The replayed state is compared with the restored one.  A mismatch       *)
(* empties the cache and the exports and allocates the prefix ids anew.    *)
EndReplay ==
  /\ pc = "replay" /\ index = start
  /\ \/ /\ Checkpoint(target) = resumed
        /\ provenance' = "cold_validation" /\ pc' = "scan"
        /\ UNCHANGED <<cacheVars, exports, ids>>
     \/ /\ Checkpoint(target) # resumed
        /\ nodes' = {} /\ snapshots' = {} /\ usedBytes' = 0 /\ FindRoot({}, tc.root)
        /\ InvalidateExports /\ ids' = <<>> /\ hits' = hits
        /\ provenance' = "cold_prefix_fallback" /\ pc' = "walk"
  /\ UNCHANGED <<tc, start, index, target, goalMap, obs, resumed, executed, lastExit, execs>>

-----------------------------------------------------------------------------
SumBytes(S) == MapThenSumSet(LAMBDA s : s.bytes, S)
Less(a, b) == IF b \in 0..a THEN a - b ELSE 0    \* saturating_sub

FitsWithoutNew(R, bytes) ==                     \* mutant: the new bytes not counted
  /\ Cardinality(snapshots \ R) < MaxEntries
  /\ Less(usedBytes, SumBytes(R)) <= MaxBytes

(* Whether one more snapshot of the given size fits once R is removed. *)
Fits(R, bytes) == /\ Cardinality(snapshots \ R) < MaxEntries
                  /\ Less(usedBytes, SumBytes(R)) + bytes <= MaxBytes

(* The sets evict and store's own loop may remove: always the least saved  *)
(* first (ties in hash order), until the new snapshot fits.                *)
Victims(bytes) ==
  {R \in SUBSET snapshots :
     /\ \A r \in R, k \in snapshots \ R : r.saves <= k.saves
     /\ R = snapshots \/ Fits(R, bytes)
     /\ R # {} => \E last \in R : /\ \A r \in R : r.saves <= last.saves
                                  /\ ~Fits(R \ {last}, bytes)}

(* PrefixCache::store. *)
Store(id, depth, observations, blob) ==
  LET bytes == StateBytes + Len(observations)
      same == {s \in snapshots : s.id = id}
  IN \/ /\ same # {}
        /\ snapshots' = (snapshots \ same) \cup {[s EXCEPT !.saves = @ + 1] : s \in same}
        /\ UNCHANGED usedBytes
     \/ /\ same = {} /\ bytes > MaxBytes
        /\ UNCHANGED <<snapshots, usedBytes>>
     \/ /\ same = {} /\ bytes <= MaxBytes
        /\ \E R \in Victims(bytes) :
             /\ snapshots' = (snapshots \ R) \cup
                  {[id |-> id, depth |-> depth, state |-> blob, obs |-> observations,
                    bytes |-> bytes, saves |-> 0]}
             /\ usedBytes' = Less(usedBytes, SumBytes(R)) + bytes

(* PrefixCache::export_snapshot, which gives up on a file error. *)
Export(id, depth) ==
  LET records == {[node |-> id, root |-> tc.root, prefix |-> SubSeq(tc.frames, 1, depth),
                   state |-> s.state] : s \in {x \in snapshots' : x.id = id}}
  IN exports' \in {exports, exports \cup records}

(* One frame of the suffix: the map is cleared, the frame runs, and due    *)
(* depths are stored and exported.                                         *)
ScanFrame ==
  /\ pc = "scan" /\ index < Len(tc.frames)
  /\ LET f == tc.frames[index + 1]
         depth == index + 1
     IN /\ target' = Step(target, f)
        /\ goalMap' = Hits(target, f)
        /\ obs' = Append(obs, Observe(goalMap', target'))
        /\ IF Enabled /\ (depth % CheckpointEvery = 0 \/ depth = Len(tc.frames))
           THEN Store(ids[depth], depth, obs', Checkpoint(target')) /\ Export(ids[depth], depth)
           ELSE UNCHANGED <<snapshots, usedBytes, exports>>
  /\ index' = index + 1 /\ executed' = executed + 1
  /\ UNCHANGED <<roots, nodes, nextId, hits, born, pc, tc, ids, start, resumed,
                 provenance, lastExit, execs>>

(* restore_goal_map: the map becomes the union of the observations. *)
Finish ==
  /\ pc = "scan" /\ index = Len(tc.frames)
  /\ goalMap' = UNION {obs[i].hits : i \in DOMAIN obs}
  /\ pc' = "done"
  /\ UNCHANGED <<cacheVars, exports, tc, ids, start, index, target, obs, resumed,
                 provenance, executed, lastExit, execs>>

(* The outcome execute_with_cache reports. *)
Replayed == provenance \in {"cold_validation", "cold_prefix_fallback"}
Scans == IF Replayed THEN Len(tc.frames) ELSE Len(tc.frames) - start
Restored == start > 0 /\ ~Replayed

ReturnOk ==
  /\ pc = "done" /\ pc' = "idle" /\ lastExit' = "Ok"
  /\ DropLocals
  /\ UNCHANGED <<cacheVars, exports, target, execs>>

(* A non-Ok exit as PrefixCachingExecutor::run_target sees it: cache and   *)
(* exports go.                                                             *)
CrashExit ==
  /\ ClearCache /\ InvalidateExports /\ pc' = "idle" /\ lastExit' = "Crash"
  /\ DropLocals

(* The testcase ran to its end but a memory oracle fired. *)
ReturnCrash ==
  /\ pc = "done" /\ CrashExit
  /\ UNCHANGED <<target, execs>>

(* semantist_init, parse_frame or step returns an error, in the suffix or  *)
(* in the validation replay; the step may have run in part.                *)
Fault ==
  /\ \/ pc = "open"
     \/ pc = "replay" /\ index < start
     \/ pc = "scan" /\ index < Len(tc.frames)
  /\ CrashExit
  /\ target' \in {target, Step(target, tc.frames[1])}
  /\ UNCHANGED execs

(* The cold preflight process crashed, hit an exact hazard or timed out:   *)
(* the engine skips the in-process run and clears the cache.               *)
PreflightStop ==
  /\ pc = "idle" /\ execs < MaxExecs
  /\ ClearCache /\ lastExit' = "PreflightStop" /\ execs' = execs + 1
  /\ UNCHANGED <<exports, pc, runVars>>

Next ==
  \/ \E t \in TestCases : Begin(t)
  \/ WalkFrame \/ EndWalk \/ Open \/ ReplayFrame \/ EndReplay
  \/ ScanFrame \/ Finish \/ ReturnOk \/ ReturnCrash \/ Fault \/ PreflightStop

Spec == Init /\ [][Next]_vars

-----------------------------------------------------------------------------
(* Properties.                                                             *)

PathOf(r, p) == [root |-> r, path |-> p]
Prefix(n) == SubSeq(tc.frames, 1, n)

(* The ids the cold run of a path's last frame marks. *)
ColdHits(r, p) == Hits(Cold(r, SubSeq(p, 1, Len(p) - 1)), p[Len(p)])

(* The node number is a prefix identity (v3.rs, comment of                 *)
(* export_snapshot): an id never names two prefixes, not even across a     *)
(* clear, and what is still on disk or in memory under an id belongs to    *)
(* the prefix the id was allocated for.                                    *)
PrefixIdentity ==
  /\ \A a, b \in born : a.id = b.id => a = b
  /\ \A e \in exports : [id |-> e.node, root |-> e.root, path |-> e.prefix] \in born
  /\ \A s \in snapshots : \E b \in born : b.id = s.id /\ Len(b.path) = s.depth
  /\ \A s, t \in snapshots : s.id = t.id => s = t

(* used_bytes is what the retained snapshots take, and neither limit of    *)
(* the cache is exceeded, whatever was evicted, bumped or cleared.         *)
CacheWithinLimits ==
  /\ usedBytes = SumBytes(snapshots) /\ usedBytes <= MaxBytes
  /\ Cardinality(snapshots) <= MaxEntries

(* With a complete checkpoint, what is cached and exported for a prefix is *)
(* the state a cold start of that prefix reaches.                          *)
SnapshotsAreCold ==
  /\ \A s \in snapshots, b \in born :
        s.id = b.id => s.state = Checkpoint(Cold(b.root, b.path))
  /\ \A e \in exports : e.state = Checkpoint(Cold(e.root, e.prefix))

(* With a complete checkpoint, an execution that resumed from a snapshot,  *)
(* of whatever chain of earlier executions, ends where a cold one ends and *)
(* reports the same field values for every frame.                          *)
ResultIsCold ==
  pc = "done" =>
    /\ target = Cold(tc.root, tc.frames)
    /\ Len(obs) = Len(tc.frames)
    /\ \A i \in DOMAIN obs : obs[i].blob = Checkpoint(Cold(tc.root, Prefix(i)))

(* With a complete checkpoint, the first frame whose observation names a   *)
(* goal is the first frame that hits it: on_result cuts prefixes and dates *)
(* goal_reached events by it.                                              *)
FirstHitExact ==
  pc = "done" =>
    \A g \in Goals, i \in DOMAIN obs :
      (g \in obs[i].hits /\ \A j \in 1..(i - 1) : g \notin obs[j].hits)
      <=> (g \in ColdHits(tc.root, Prefix(i)) /\ \A j \in 1..(i - 1) : g \notin ColdHits(tc.root, Prefix(j)))

(* The reported scans are the frames the target really ran, validation     *)
(* replays included, and an outcome counts as restored exactly when frames *)
(* were saved.                                                             *)
ScansAreHonest ==
  pc = "done" => Scans = executed /\ (Restored <=> executed < Len(tc.frames))

(* With a complete checkpoint, resuming from a snapshot cannot be told     *)
(* from a cold start: not in what is cached or exported, not in the state  *)
(* and values an execution ends with, not in the frames goals are dated to *)
(* (execute_with_cache).                                                   *)
ResumeIsCold == SnapshotsAreCold /\ ResultIsCold /\ FirstHitExact

(* The cache's own books are right, through evictions, restores, failed    *)
(* validations and clears: used_bytes and the limits (PrefixCache::store), *)
(* and the scans an execution reports.                                     *)
AccountingIsExact == CacheWithinLimits /\ ScansAreHonest

(* After a failed validation every snapshot and every export is of a       *)
(* deeper prefix of the testcase at hand; after a crash exit of the        *)
(* in-process executor there is none.                                      *)
NothingOldSurvives ==
  /\ (provenance = "cold_prefix_fallback" /\ pc \in {"walk", "scan", "done"}) =>
       /\ \A s \in snapshots : s.depth > start /\ s.id = ids[s.depth]
       /\ \A e \in exports : /\ e.root = tc.root /\ Len(e.prefix) > start
                             /\ e.prefix = Prefix(Len(e.prefix))
  /\ (pc = "idle" /\ lastExit = "Crash") =>
       snapshots = {} /\ exports = {} /\ usedBytes = 0

=============================================================================
