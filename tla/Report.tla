------------------------------- MODULE Report -------------------------------
(***************************************************************************)
(* The public vulnerability report, fuzzer/reporting/report.py with the    *)
(* deduplicator of findings.py: it collects the finding files of a run,    *)
(* groups them by signature, replays one seed per group, keeps the groups  *)
(* on disk and derives the status a batch and a reader rely on.  A report  *)
(* may be killed at any step and made again, with the finding files still  *)
(* there or not.                                                           *)
(***************************************************************************)
EXTENDS Naturals, Sequences, FiniteSets, FiniteSetsExt

CONSTANTS
  Runs,        \* the run directories: the finding files in path order, the
               \* inputs they name that do not exist, the campaign's report.json
               \* or None, whether there is a corpus and what failed, and
               \* whether the reporter is told to minimize
  SafeKey(_),  \* the name of a group's file: its key without :: and / and cut
               \* to 160 characters, so that two keys may share one
  Limit,       \* DEFAULT_REPORT_FINDING_LIMIT
  Seeds,       \* MAX_REPRESENTATIVE_SEEDS
  MaxReports,  \* how many reports are made
  None

ASSUME LimitAssumption == Limit \in Nat \ {0} /\ Seeds \in Nat \ {0}

(* The failures that append an event to the run, and those that leave none:*)
(* an engine that cannot be launched, and a campaign that is killed.       *)
Failures == {"build_failed", "campaign_failed"}
Unrecorded == {"engine_failed", "killed"}

(* A run directory that has results is refused, so its finding files are   *)
(* those of one run: packages of a campaign, or records of the engine.     *)
OneMode(fs) == \A i, j \in DOMAIN fs : ~(fs[i].form = "v3" /\ fs[j].form = "record")

ASSUME RunsAssumption ==
  \A r \in Runs : /\ r.files \in Seq({r.files[i] : i \in DOMAIN r.files})
                  /\ OneMode(r.files)
                  /\ r.failure \in Failures \cup Unrecorded \cup {None}

VARIABLES
  files,     \* the finding files
  corpus,    \* the target corpus has inputs to replay
  campaign,  \* report.json of the campaign
  lost,      \* the inputs of findings that do not exist, or not any more
  failure,   \* what failed last in the run
  stored,    \* findings/deduplicated: the key and the record of a file, by name
  torn,      \* the names whose file is only half written
  todo,      \* the groups whose file is still to be written
  phase,     \* where the report is
  at,        \* the file it is at
  shrunk,    \* what a minimization left beside a finding file, by its name
  raw,       \* FindingDeduplicator._raw_count
  records,   \* FindingDeduplicator._records: a record per key
  target,    \* the built target exists
  minimize,  \* --report-minimize-findings was given
  replays,   \* the outcomes of the corpus replay
  report,    \* the report written last
  reports    \* how many were begun

input == <<corpus, campaign, failure, minimize>>
vars == <<files, lost, input, stored, torn, todo, phase, at, shrunk, raw, records, target, replays,
          report, reports>>

Keys == DOMAIN records
Outcomes == {"ok", "crash", "nonzero", "timeout", "replay_error"}
Bad == {"crash", "nonzero", "timeout"}

-----------------------------------------------------------------------------
(* A finding file is a package of a confirmed campaign finding ("v3"), a   *)
(* record of the coverage engine ("record"), or something else.            *)
IsStructured(f) == f.form \in {"v3", "record"}

Kind(f) ==
  IF f.form = "record" THEN f.kind
  ELSE CASE f.oracle = "crash" -> "crash"
         [] f.oracle = "scan_budget" -> "timeout"
         [] OTHER -> "semantic_violation"

Hazard(f) ==
  IF f.form = "v3" /\ Kind(f) = "semantic_violation" THEN f.oracle ELSE f.hazard

(* The minimized input of a package goes before the original one.          *)
Reproducer(f) ==
  IF f.form = "v3" /\ "minimized" \in f.seeds THEN <<f.name, "minimized">>
  ELSE IF f.seeds # {} THEN <<f.name, "testcase">>
  ELSE None

(* The reporter looks whether the input of a package exists; that which a  *)
(* record names may be gone.                                               *)
ASSUME InputsAssumption ==
  \A r \in Runs : \A i \in DOMAIN r.files :
    r.files[i].form = "v3" => Reproducer(r.files[i]) \notin r.lost

(* FindingSignature.key: semantic before runtime before fallback.          *)
Key(f) ==
  IF f.goal # None \/ Hazard(f) # None THEN <<"semantic", f.goal, Hazard(f)>>
  ELSE IF f.place # None THEN <<"runtime", Kind(f), f.place>>
  ELSE <<"fallback", Kind(f), f.cycles>>

Tier(key) == CASE key[1] = "fallback" -> 1 [] key[1] = "runtime" -> 2 [] OTHER -> 3

-----------------------------------------------------------------------------
Init ==
  /\ \E r \in Runs : /\ files = r.files /\ lost = r.lost /\ campaign = r.campaign /\ corpus = r.corpus
                     /\ failure = r.failure /\ minimize = r.minimize
  /\ stored = <<>> /\ torn = {} /\ todo = {} /\ records = <<>> /\ raw = 0
  /\ phase = "idle" /\ at = 1 /\ target = FALSE /\ replays = {} /\ shrunk = <<>>
  /\ report = None /\ reports = 0

(* The memory of a reporter that has ended.                                *)
Gone ==
  /\ records' = <<>> /\ raw' = 0 /\ at' = 1 /\ replays' = {}
  /\ target' = FALSE /\ todo' = {}

Begin ==
  /\ phase = "idle" /\ reports < MaxReports
  /\ reports' = reports + 1
  /\ target' \in BOOLEAN
  /\ phase' = "corpus"
  /\ UNCHANGED <<files, lost, input, stored, torn, todo, at, shrunk, raw, records, replays, report>>

(* Inputs of the target corpus are replayed where there is a target; the   *)
(* worst of them decides, so one outcome stands for all.                   *)
ReplayCorpus ==
  /\ phase = "corpus"
  /\ IF target /\ corpus
     THEN \E o \in Outcomes : replays' = {o}
     ELSE replays' = {}
  /\ phase' = "collect"
  /\ UNCHANGED <<files, lost, input, stored, torn, todo, at, shrunk, raw, records, target, report, reports>>

NewRecord(f) ==
  [kind |-> Kind(f), seeds |-> IF Reproducer(f) = None THEN <<>> ELSE <<Reproducer(f)>>,
   duplicates |-> 0, status |-> "unchecked", attested |-> f.form = "v3"]

(* A further finding of a group adds its seed while there is room; the     *)
(* evidence of the group stays that of its first finding.                  *)
Duplicate(rec, f) ==
  [rec EXCEPT !.duplicates = @ + 1,
              !.seeds = IF \/ Reproducer(f) = None \/ Len(@) >= Seeds
                           \/ \E i \in 1 .. Len(@) : @[i] = Reproducer(f)
                        THEN @ ELSE Append(@, Reproducer(f))]

With(recs, key, rec) ==
  [k \in DOMAIN recs \cup {key} |-> IF k = key THEN rec ELSE recs[k]]

Left(f) == IF f.name \in DOMAIN shrunk THEN shrunk[f.name] ELSE None

(* A minimization of an earlier report is taken as it is: with its         *)
(* metadata, or the seed alone where the reporter died before that.        *)
Loaded(f) == Left(f) \in {"whole", "seed"}

(* The reducer is not run again where a metadata file exists, be it that   *)
(* of a failure or an unreadable one.                                      *)
Reducible(f) ==
  /\ IsStructured(f) /\ ~Loaded(f)
  /\ minimize /\ target /\ Reproducer(f) # None
  /\ Left(f) \notin {"error", "unreadable"}

Reduce ==
  /\ phase = "collect" /\ at \in DOMAIN files
  /\ Reducible(files[at])
  /\ \E left \in {"whole", "error"} : shrunk' = With(shrunk, files[at].name, left)
  /\ UNCHANGED <<files, lost, input, stored, torn, todo, phase, at, raw, records, target, replays,
                 report, reports>>

(* FindingDeduplicator.add.                                                *)
AddFinding(f) ==
  /\ raw' = raw + 1
  /\ records' = With(records, Key(f), IF Key(f) \in Keys
                                      THEN Duplicate(records[Key(f)], f)
                                      ELSE NewRecord(f))

(* Pass 1: one finding file.                                               *)
Collect ==
  /\ phase = "collect" /\ at \in DOMAIN files
  /\ ~Reducible(files[at])
  /\ at' = at + 1
  /\ IF IsStructured(files[at]) THEN AddFinding(files[at]) ELSE UNCHANGED <<raw, records>>
  /\ UNCHANGED <<files, lost, input, stored, torn, todo, phase, shrunk, target, replays, report, reports>>

SumOf(counts, keys) == MapThenSumSet(LAMBDA k : counts[k], keys)

Sizes(recs) == [k \in DOMAIN recs |-> recs[k].duplicates + 1]
Total(recs) == SumOf(Sizes(recs), DOMAIN recs)

(* A file tells the key of its group.                                      *)
StoredKeys == {stored[name].key : name \in DOMAIN stored \ torn}

\* Mutant: a stored group comes back without its duplicates.
ReadableAlone ==
  [k \in StoredKeys |-> [stored[SafeKey(k)].record EXCEPT !.duplicates = 0]]

Readable == [k \in StoredKeys |-> stored[SafeKey(k)].record]

(* Without finding files the groups that an earlier report stored count.   *)
LoadStored ==
  /\ phase = "collect" /\ at \notin DOMAIN files
  /\ IF raw = 0
     THEN records' = Readable /\ raw' = Total(Readable)
     ELSE UNCHANGED <<records, raw>>
  /\ phase' = "replay"
  /\ UNCHANGED <<files, lost, input, stored, torn, todo, at, shrunk, target, replays, report, reports>>

Unchecked == {k \in Keys : records[k].status = "unchecked"}
Replayable(rec) == rec.seeds # <<>> /\ target

\* Mutant: a replay that exits normally makes every group unstable.
OutcomeStrict(rec, o) == IF o \in Bad THEN "confirmed" ELSE "unstable"

(* What a replay means for a group: the campaign's own confirmation is not *)
(* undone by a replay that only sees how the process ended.                *)
Outcome(rec, o) ==
  IF o \in Bad \/ rec.attested THEN "confirmed" ELSE "unstable"

(* The first seed stands for the group; nothing is replayed and nothing    *)
(* confirmed where it does not exist.                                      *)
Stays(rec) == IF Replayable(rec) THEN rec.seeds[1] \in lost ELSE ~rec.attested

(* Pass 2: one seed of each group that was not replayed.                   *)
Replay ==
  /\ phase = "replay"
  /\ \E k \in Unchecked :
       /\ Replayable(records[k]) /\ ~Stays(records[k])
       /\ \E o \in Outcomes : records' = [records EXCEPT ![k].status = Outcome(records[k], o)]
  /\ UNCHANGED <<files, lost, input, stored, torn, todo, phase, at, shrunk, raw, target, replays, report, reports>>

Attest ==
  /\ phase = "replay"
  /\ \E k \in Unchecked :
       /\ ~Replayable(records[k]) /\ ~Stays(records[k])
       /\ records' = [records EXCEPT ![k].status = "confirmed"]
  /\ UNCHANGED <<files, lost, input, stored, torn, todo, phase, at, shrunk, raw, target, replays, report, reports>>

Replayed ==
  /\ phase = "replay"
  /\ \A k \in Unchecked : Stays(records[k])
  /\ phase' = "persist" /\ todo' = Keys
  /\ UNCHANGED <<files, lost, input, stored, torn, at, shrunk, raw, records, target, replays,
                 report, reports>>

(* Each group is stored in the file of its name, over the one of another   *)
(* group with that name; what else is stored stays.                        *)
Persist ==
  /\ phase = "persist"
  /\ \E k \in todo :
       /\ stored' = With(stored, SafeKey(k), [key |-> k, record |-> records[k]])
       /\ torn' = torn \ {SafeKey(k)}
       /\ todo' = todo \ {k}
  /\ UNCHANGED <<files, lost, input, phase, at, shrunk, raw, records, target, replays, report, reports>>

-----------------------------------------------------------------------------
Severity(kind) == IF kind \in {"crash", "semantic_violation"} THEN "High" ELSE "Medium"

GroupEvidence(k) ==
  [severity |-> Severity(records[k].kind), confirmed |-> records[k].status = "confirmed"]

(* The first Limit groups in the order of their keys: by tier, the rest of *)
(* the order is that of strings and left open.                             *)
Shown == {s \in SUBSET Keys :
            /\ Cardinality(s) = IF Cardinality(Keys) <= Limit THEN Cardinality(Keys) ELSE Limit
            /\ \A k \in s, l \in Keys \ s : Tier(k) <= Tier(l)}

(* The corpus replay is evidence only where there are no finding files.    *)
CorpusEvidence ==
  IF \E i \in DOMAIN files : IsStructured(files[i]) THEN {}
  ELSE {[severity |-> IF o = "crash" THEN "High" ELSE "Medium", confirmed |-> TRUE] :
          o \in replays \cap Bad}

(* What else lies in the findings directory, outside of packages and       *)
(* without being a record, a seed of one or a minimization, is listed.     *)
FindingFiles ==
  {[severity |-> "Medium", confirmed |-> FALSE] :
     i \in {j \in DOMAIN files : files[j].form = "other"}}

EvidenceStatus(evidence) ==
  LET confirmed == {e \in evidence : e.confirmed} IN
  IF \E e \in confirmed : e.severity = "High" THEN "confirmed_high_risk"
  ELSE IF confirmed # {} THEN "confirmed_findings"
  ELSE "no_confirmed_vulnerability"

\* Mutant: unresolved symbolic work does not change the status.
RefineSilent(status) == status

(* What the campaign's report changes: a clean status needs a complete     *)
(* verification, a confirmed one a risk of the source.                     *)
Refine(status) ==
  LET c == campaign IN
  IF c = None THEN status
  ELSE IF status = "no_confirmed_vulnerability"
       THEN IF c.verification = "incomplete" \/ c.unresolved THEN "inconclusive" ELSE status
  ELSE IF c.confirmed > 0 /\ c.source = 0
       THEN IF c.verification = "incomplete" THEN "inconclusive"
            ELSE "confirmed_runtime_under_model"
  ELSE status

(* A failed build or campaign is what the report says, whatever was found; *)
(* a failure that left no event is not seen.                               *)
Final(status) == IF failure \in Failures THEN failure ELSE status

Count(status) == Cardinality({k \in Keys : records[k].status = status})

Further(recs) == [k \in DOMAIN recs |-> recs[k].duplicates]
Duplicates == SumOf(Further(records), Keys)

WriteReport ==
  /\ phase = "persist" /\ todo = {}
  /\ \E s \in Shown :
       report' =
         [status |-> Final(Refine(EvidenceStatus({GroupEvidence(k) : k \in s} \cup CorpusEvidence
                                                 \cup FindingFiles))),
          minimized |-> {files[i].name : i \in {j \in DOMAIN files :
                                                 IsStructured(files[j]) /\ Loaded(files[j])}},
          raw |-> raw, groups |-> Keys,
          duplicates |-> Duplicates,
          confirmed |-> Count("confirmed"), unstable |-> Count("unstable"),
          unchecked |-> Count("unchecked")]
  /\ phase' = "idle" /\ Gone
  /\ UNCHANGED <<files, lost, input, stored, torn, shrunk, reports>>

-----------------------------------------------------------------------------
(* The process that makes the report is killed, perhaps while it writes    *)
(* the file of a group or what the reducer found.                          *)
Kill ==
  /\ phase # "idle"
  /\ phase' = "idle"
  /\ IF phase = "persist"
     THEN torn' \in {torn} \cup {torn \cup {SafeKey(k)} : k \in todo}
     ELSE UNCHANGED torn
  /\ IF phase = "collect" /\ at \in DOMAIN files /\ Reducible(files[at])
     THEN \E left \in {"seed", "unreadable"} :
            shrunk' \in {shrunk, With(shrunk, files[at].name, left)}
     ELSE UNCHANGED shrunk
  /\ Gone
  /\ UNCHANGED <<files, lost, input, stored, report, reports>>

(* The finding files are removed once they were reported, with their       *)
(* inputs or not; the groups stay.                                         *)
Clean ==
  /\ phase = "idle" /\ report # None
  /\ files' = <<>>
  /\ lost' \in {lost, lost \cup {Reproducer(files[i]) : i \in DOMAIN files}}
  /\ UNCHANGED <<input, stored, torn, todo, phase, at, shrunk, raw, records, target, replays, report,
                 reports>>

Rest == phase = "idle" /\ reports = MaxReports /\ UNCHANGED vars

Next ==
  \/ Begin \/ ReplayCorpus \/ Reduce \/ Collect \/ LoadStored \/ Replay \/ Attest \/ Replayed \/ Persist
  \/ WriteReport \/ Kill \/ Clean \/ Rest

Spec == Init /\ [][Next]_vars

-----------------------------------------------------------------------------
Attested == {i \in DOMAIN files : files[i].form = "v3"}

(* A finding the campaign confirmed is confirmed in every report, however  *)
(* the reporter's own replay ends and whether there is a target or not.    *)
ConfirmedStays ==
  phase = "persist" => \A i \in Attested : records[Key(files[i])].status = "confirmed"

(* "Do not turn an interrupted campaign into a clean 'no vulnerability'    *)
(* result": a clean status means that no failure was recorded, that no     *)
(* campaign finding is in the run and that no symbolic work is open.  It   *)
(* says nothing of a failure that left no event, so that "a failed engine  *)
(* must remain visible" is not what the code keeps.                        *)
CleanMeansClean ==
  report # None /\ report.status = "no_confirmed_vulnerability" =>
    /\ failure \notin Failures
    /\ Attested = {}
    /\ campaign # None => campaign.verification # "incomplete" /\ ~campaign.unresolved

Names(keys) == {SafeKey(k) : k \in keys}
NamesDiffer(keys) == \A k, l \in keys : SafeKey(k) = SafeKey(l) => k = l

(* Of the groups with one file name one is left, and nothing is lost where *)
(* the names differ.                                                       *)
Survives(old, new) ==
  /\ new.groups \subseteq old.groups /\ Names(new.groups) = Names(old.groups)
  /\ NamesDiffer(old.groups) => new.raw = old.raw /\ new.duplicates = old.duplicates

(* A report that is made again after its finding files were removed, with  *)
(* no file of a group left half written, has a group for each file name of *)
(* the one before and counts what that counted where no two groups share a *)
(* name, and then no report takes back a confirmation that is stored;      *)
(* while the files are there it shows every minimized input that the one   *)
(* before showed, whatever was killed in between.                          *)
RegenerationKeeps ==
  [][/\ report # None /\ phase = "persist" /\ phase' = "idle" /\ report' # report =>
          IF files # <<>> THEN report.minimized \subseteq report'.minimized
          ELSE torn = {} => Survives(report, report')
     /\ files = <<>> =>
          \A name \in DOMAIN stored \ torn :
            stored[name].record.status = "confirmed" =>
              name \in torn' \/ stored'[name].record.status = "confirmed"]_vars
=============================================================================
