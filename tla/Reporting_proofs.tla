-------------------------- MODULE Reporting_proofs --------------------------
(***************************************************************************)
(* Proofs about the reports that are made of a run directory and about the *)
(* replay of its packages, modules Report and PackageReplay.               *)
(***************************************************************************)
EXTENDS PackageReplay, TLAPS, FiniteSetTheorems, WellFoundedInduction

(***************************************************************************)
(* The replay of a package.                                                *)
(***************************************************************************)

(* A package that was written to its end.                                  *)
Complete == pkg.files = ToSet(Order)

(* Until it ends a replay has printed nothing, and of a whole package it   *)
(* has taken the minimized input, the packaged target and its index.       *)
PackageOnItsWay ==
  /\ stage \in {"off", "package", "contract", "target", "build", "index", "probe", "done"}
  /\ stage # "done" => verdict = Unknown
  /\ stage \notin {"off", "done"} => pkg \in Packages
  /\ stage \notin {"off", "done"} /\ Complete =>
       /\ stage # "build"
       /\ stage # "package" => testcase = "minimized"
       /\ stage \in {"index", "probe"} => binary = "packaged"
       /\ stage = "probe" => index

PackageInv == PackageOnItsWay /\ PackageReplays

(* The files of a package.                                                 *)
LEMMA OrderFiles ==
  /\ ToSet(Order) = {"finding", "testcase", "minimized", "contract", "binary", "source", "ids",
                     "manifest"}
  /\ \A n \in DOMAIN Order : Order[n] \in ToSet(Order)
<1>1. Order = <<"finding", "testcase", "minimized", "finding", "contract", "binary", "source",
                "ids", "manifest">>  BY DEF Order
<1>2. DOMAIN Order = 1 .. 9  BY <1>1
<1>3. /\ Order[1] = "finding" /\ Order[2] = "testcase" /\ Order[3] = "minimized"
      /\ Order[4] = "finding" /\ Order[5] = "contract" /\ Order[6] = "binary"
      /\ Order[7] = "source" /\ Order[8] = "ids" /\ Order[9] = "manifest"  BY <1>1
<1>4. \A i \in 1 .. 9 : \/ i = 1 \/ i = 2 \/ i = 3 \/ i = 4 \/ i = 5
                         \/ i = 6 \/ i = 7 \/ i = 8 \/ i = 9
  OBVIOUS
<1>5. ToSet(Order) = {Order[i] : i \in 1 .. 9}  BY <1>2 DEF ToSet
<1>6. ToSet(Order) = {"finding", "testcase", "minimized", "contract", "binary", "source", "ids",
                      "manifest"}  BY <1>3, <1>4, <1>5
<1> QED  BY <1>2, <1>5, <1>6

(* A whole package has no file that is only half written.                  *)
LEMMA CompleteIsNotHalf ==
  ASSUME pkg \in Packages, Complete
  PROVE  pkg.half = Unknown
<1>1. CASE \E n \in DOMAIN Order, o \in Expected :
             pkg = [files |-> WrittenTo(n - 1) \ {Order[n]}, half |-> Order[n], oracle |-> o]
  <2>1. PICK n \in DOMAIN Order, o \in Expected :
          pkg = [files |-> WrittenTo(n - 1) \ {Order[n]}, half |-> Order[n], oracle |-> o]
    BY <1>1
  <2>2. Order[n] \notin pkg.files  BY <2>1
  <2> QED  BY <2>2, OrderFiles DEF Complete
<1> QED  BY <1>1 DEF Packages

(* The probe of a whole package sees its oracle again or is too slow.      *)
LEMMA WholeProbeRepeats ==
  ASSUME Complete, testcase = "minimized", binary = "packaged", index,
         pkg.oracle \in Expected, pkg.oracle # Unknown,
         NEW o \in Behaviours
  PROVE  ReplayStatus(o) \in {"confirmed", "TIMEOUT"}
<1>1. Whole("binary") /\ Whole(testcase)  BY OrderFiles DEF Whole, Complete
<1>2. o \in Repeats(pkg.oracle) \cup {[ends |-> "timeout", hit |-> h] : h \in BOOLEAN}
  BY <1>1 DEF Behaviours
<1>3. pkg.oracle \in {"array_access", "crash", "scan_budget"}  BY ExpectedAssumption
<1>4. CASE o.ends = "timeout"  BY <1>4 DEF ReplayStatus
<1>5. CASE o.ends # "timeout"
  <2>1. o \in Repeats(pkg.oracle)  BY <1>2, <1>5
  <2>2. Classify(o) = pkg.oracle
    <3>1. CASE pkg.oracle = "array_access"
      <4>1. o.hit \/ o.ends = "bounds"  BY <2>1, <3>1 DEF Repeats
      <4> QED  BY <1>5, <3>1, <4>1 DEF Classify
    <3>2. CASE pkg.oracle = "crash"
      <4>1. ~o.hit /\ o.ends = "crash"  BY <2>1, <3>2 DEF Repeats
      <4> QED  BY <1>5, <3>2, <4>1 DEF Classify
    <3>3. CASE pkg.oracle = "scan_budget"
      <4>1. ~o.hit /\ o.ends = "budget"  BY <2>1, <3>3 DEF Repeats
      <4> QED  BY <1>5, <3>3, <4>1 DEF Classify
    <3> QED  BY <1>3, <3>1, <3>2, <3>3
  <2> QED  BY <1>5, <2>2 DEF ReplayStatus
<1> QED  BY <1>4, <1>5

(* The status that a probe prints and its exit code agree.                 *)
LEMMA StatusFitsExit ==
  ASSUME NEW o
  PROVE  /\ ReplayStatus(o) = "confirmed" => ExitCode(o) = 0 /\ Classify(o) = pkg.oracle
         /\ ExitCode(o) = 0 =>
              ReplayStatus(o) = IF pkg.oracle # Unknown THEN "confirmed" ELSE "candidate"
<1>1. o.ends = "timeout" => Classify(o) = Unknown  BY DEF Classify
<1>2. ReplayStatus(o) = "confirmed" => pkg.oracle # Unknown /\ Classify(o) = pkg.oracle
  BY DEF ReplayStatus
<1>3. ReplayStatus(o) = "confirmed" => ExitCode(o) = 0  BY <1>2 DEF ExitCode
<1>4. ExitCode(o) = 0 => /\ Classify(o) # Unknown
                         /\ pkg.oracle # Unknown => Classify(o) = pkg.oracle
  BY DEF ExitCode
<1>5. ExitCode(o) = 0 =>
        ReplayStatus(o) = IF pkg.oracle # Unknown THEN "confirmed" ELSE "candidate"
  BY <1>1, <1>4 DEF ReplayStatus
<1> QED  BY <1>2, <1>3, <1>5

(* No package was opened at the start.                                     *)
LEMMA PackageInit == PInit => PackageInv
BY DEF PInit, PackageInv, PackageOnItsWay, PackageReplays

(* Every step of a replay keeps what is known of it.                       *)
LEMMA PackageStep == PackageInv /\ ReplayStep => PackageInv'
<1> SUFFICES ASSUME PackageInv, ReplayStep  PROVE PackageInv'  OBVIOUS
<1>0. /\ PackageOnItsWay
      /\ stage # "done" => verdict = Unknown  BY DEF PackageInv, PackageOnItsWay
<1>u. Unknown # "confirmed"  BY ExpectedAssumption
<1>1. CASE Open
  <2>1. stage' = "package" /\ pkg' \in Packages /\ verdict' = Unknown
    BY <1>0, <1>1 DEF Open
  <2> QED  BY <2>1 DEF PackageInv, PackageOnItsWay, PackageReplays
<1>2. CASE ReadPackage
  <2>1. stage = "package" /\ UNCHANGED pkg  BY <1>2 DEF ReadPackage
  <2>2. pkg \in Packages /\ Complete' = Complete
    BY <1>0, <2>1 DEF PackageOnItsWay, Complete
  <2>3. CASE stage' = "done"
    <3>1. verdict' = [status |-> "UNSUPPORTED", exit |-> 2]  BY <1>2, <2>3 DEF ReadPackage, End
    <3>2. ~Complete  
      BY <1>2, <2>3, OrderFiles DEF ReadPackage, Complete, Exists, Whole
    <3> QED  BY <2>1, <2>2, <2>3, <3>1, <3>2 DEF PackageInv, PackageOnItsWay, PackageReplays, Complete
  <2>4. CASE stage' # "done"
    <3>1. stage' = "contract" /\ verdict' = Unknown
      BY <1>0, <1>2, <2>1, <2>4 DEF ReadPackage, End
    <3>2. Complete => testcase' = "minimized"
      BY <1>2, <2>4, OrderFiles DEF ReadPackage, End, Complete, Exists
    <3> QED  BY <2>1, <2>2, <3>1, <3>2 DEF PackageInv, PackageOnItsWay, PackageReplays
  <2> QED  BY <2>3, <2>4
<1>3. CASE LoadContract
  <2>1. stage = "contract" /\ UNCHANGED <<pkg, testcase>>  BY <1>3 DEF LoadContract
  <2>2. pkg \in Packages /\ Complete' = Complete
    BY <1>0, <2>1 DEF PackageOnItsWay, Complete
  <2>3. CASE pkg.half = "contract"
    <3>1. verdict' = [status |-> "UNSUPPORTED", exit |-> 2] /\ stage' = "done"
      BY <1>3, <2>3 DEF LoadContract, End
    <3>2. Unknown # "contract"  BY NoFileIsUnknown, OrderFiles
    <3>3. ~Complete  BY <2>2, <2>3, <3>2, CompleteIsNotHalf
    <3> QED  BY <2>1, <2>2, <3>1, <3>3 DEF PackageInv, PackageOnItsWay, PackageReplays, Complete
  <2>4. CASE pkg.half # "contract"
    <3>1. stage' = "target" /\ verdict' = Unknown  BY <1>0, <1>3, <2>1, <2>4 DEF LoadContract, End
    <3>2. Complete => testcase' = "minimized"  BY <1>0, <2>1 DEF PackageOnItsWay
    <3> QED  BY <2>1, <2>2, <3>1, <3>2 DEF PackageInv, PackageOnItsWay, PackageReplays
  <2> QED  BY <2>3, <2>4
<1>4. CASE FindTarget
  <2>1. stage = "target" /\ UNCHANGED <<pkg, testcase, verdict>>  BY <1>4 DEF FindTarget
  <2>2. pkg \in Packages /\ Complete' = Complete /\ verdict' = Unknown
    BY <1>0, <2>1 DEF PackageOnItsWay, Complete
  <2>3. Complete => testcase' = "minimized"  BY <1>0, <2>1 DEF PackageOnItsWay
  <2>4. Complete => binary' = "packaged" /\ stage' = "index"
    BY <1>4, OrderFiles DEF FindTarget, Exists, Complete
  <2>5. stage' \in {"index", "build"}  BY <1>4 DEF FindTarget
  <2> QED  BY <2>1, <2>2, <2>3, <2>4, <2>5 DEF PackageInv, PackageOnItsWay, PackageReplays
<1>5. CASE BuildFromPackage
  <2>1. stage = "build" /\ UNCHANGED <<pkg, testcase>>  BY <1>5 DEF BuildFromPackage
  <2>2. pkg \in Packages /\ Complete' = Complete /\ ~Complete
    BY <1>0, <2>1 DEF PackageOnItsWay, Complete
  <2>3. \/ stage' = "probe" /\ verdict' = Unknown
        \/ stage' = "done" /\ verdict' = [status |-> "FAILED", exit |-> 2]
    BY <1>0, <1>5, <2>1 DEF BuildFromPackage, End
  <2> QED  BY <2>1, <2>2, <2>3 DEF PackageInv, PackageOnItsWay, PackageReplays, Complete
<1>6. CASE LoadRuntimeIndex
  <2>1. stage = "index" /\ UNCHANGED <<pkg, testcase, binary>>  BY <1>6 DEF LoadRuntimeIndex
  <2>2. pkg \in Packages /\ Complete' = Complete
    BY <1>0, <2>1 DEF PackageOnItsWay, Complete
  <2>3. CASE pkg.half = "ids"
    <3>1. verdict' = [status |-> Unknown, exit |-> 1] /\ stage' = "done"
      BY <1>6, <2>3 DEF LoadRuntimeIndex, End
    <3>2. Unknown # "ids"  BY NoFileIsUnknown, OrderFiles
    <3>3. ~Complete  BY <2>2, <2>3, <3>2, CompleteIsNotHalf
    <3> QED  BY <1>u, <2>1, <2>2, <3>1, <3>3
             DEF PackageInv, PackageOnItsWay, PackageReplays, Complete
  <2>4. CASE pkg.half # "ids"
    <3>1. stage' = "probe" /\ verdict' = Unknown /\ index' = Whole("ids")
      BY <1>0, <1>6, <2>1, <2>4 DEF LoadRuntimeIndex, End
    <3>2. Complete => testcase' = "minimized" /\ binary' = "packaged" /\ index'
      BY <1>0, <2>1, <3>1, OrderFiles DEF PackageOnItsWay, Complete, Whole
    <3> QED  BY <2>1, <2>2, <3>1, <3>2 DEF PackageInv, PackageOnItsWay, PackageReplays
  <2> QED  BY <2>3, <2>4
<1>7. CASE Probe
  <2>1. stage = "probe" /\ UNCHANGED <<pkg, testcase, binary, index>>  BY <1>7 DEF Probe
  <2>2. pkg \in Packages /\ Complete' = Complete
    BY <1>0, <2>1 DEF PackageOnItsWay, Complete
  <2>3. PICK o \in Behaviours : /\ seen' = o /\ stage' = "done"
                                /\ verdict' = [status |-> ReplayStatus(o), exit |-> ExitCode(o)]
    BY <1>7 DEF Probe, End
  <2>4. pkg.oracle \in Expected  BY <2>2 DEF Packages
  <2>5. Complete /\ pkg.oracle # Unknown => ReplayStatus(o) \in {"confirmed", "TIMEOUT"}
    BY <1>0, <2>1, <2>4, WholeProbeRepeats DEF PackageOnItsWay
  <2>6. Classify(seen)' = Classify(o)  BY <2>1, <2>3 DEF Classify
  <2>7. verdict'.status = ReplayStatus(o) /\ verdict'.exit = ExitCode(o)  BY <2>3
  <2>8. PackageReplays'
    BY <2>1, <2>5, <2>6, <2>7, StatusFitsExit DEF PackageReplays, Complete
  <2> QED  BY <2>3, <2>8 DEF PackageInv, PackageOnItsWay
<1> QED  BY <1>1, <1>2, <1>3, <1>4, <1>5, <1>6, <1>7 DEF ReplayStep

(***************************************************************************)
(* The report.                                                             *)
(***************************************************************************)

(* The finding files are those of a run, or were removed.                  *)
FilesOfARun ==
  \/ files = <<>>
  \/ \E r \in Runs : files = r.files

(* While a confirmed finding is in the run the inputs of the groups are.   *)
There == {Reproducer(files[i]) : i \in DOMAIN files} \ lost
SeedsAreThere(rec) == rec.seeds \in Seq(There)

(* The fields of a group.                                                  *)
Fields == {"kind", "seeds", "duplicates", "status", "attested"}

(* Where a confirmed finding is in the run every group is a campaign's.    *)
GroupsAreAttested ==
  Attested # {} =>
    /\ IsFiniteSet(Keys)
    /\ \A k \in Keys : /\ DOMAIN records[k] = Fields
                       /\ records[k].attested
                       /\ records[k].status \in {"unchecked", "confirmed"}
                       /\ SeedsAreThere(records[k])

(* What the reporter finds of a package is there.                          *)
InputsAreThere ==
  \A i \in DOMAIN files : files[i].form = "v3" => Reproducer(files[i]) \notin lost

(* The files before the reporter's place are in a group.                   *)
CollectedTo(n) ==
  /\ \A i \in DOMAIN files : IsStructured(files[i]) /\ i < n => Key(files[i]) \in Keys
  /\ (\E i \in DOMAIN files : IsStructured(files[i]) /\ i < n) => raw \in Nat \ {0}

WhereItIs ==
  /\ phase \in {"idle", "corpus", "collect", "replay", "persist"}
  /\ at \in Nat \ {0}
  /\ phase \in {"idle", "corpus"} => at = 1 /\ raw = 0 /\ records = <<>>
  /\ phase = "collect" => CollectedTo(at) /\ raw \in Nat
  /\ phase \in {"replay", "persist"} /\ Attested # {} =>
       \A i \in Attested : Key(files[i]) \in Keys
  /\ phase = "persist" /\ Attested # {} => \A k \in Keys : records[k].status = "confirmed"

ReportInv ==
  /\ FilesOfARun /\ InputsAreThere
  /\ GroupsAreAttested
  /\ WhereItIs
  /\ CleanMeansClean

(* A run's finding files are a sequence and of one mode.                   *)
LEMMA FilesAreOneMode ==
  ASSUME FilesOfARun
  PROVE  /\ Len(files) \in Nat /\ DOMAIN files = 1 .. Len(files)
         /\ OneMode(files)
<1>1. CASE files = <<>>
  <2>1. DOMAIN files = {} /\ Len(files) = 0  BY <1>1
  <2> QED  BY <2>1 DEF OneMode
<1>2. CASE \E r \in Runs : files = r.files
  <2>1. PICK r \in Runs : files = r.files  BY <1>2
  <2>2. r.files \in Seq({r.files[i] : i \in DOMAIN r.files}) /\ OneMode(r.files)
    BY RunsAssumption
  <2> DEFINE S == {r.files[i] : i \in DOMAIN r.files}
  <2>3. files \in Seq(S)  BY <2>1, <2>2
  <2> HIDE DEF S
  <2> QED  BY <2>1, <2>2, <2>3
<1> QED  BY <1>1, <1>2 DEF FilesOfARun

(* The confirmed findings keep a group in every report that is being made. *)
LEMMA ReportConfirms == ReportInv => ConfirmedStays
BY DEF ReportInv, WhereItIs, ConfirmedStays

(* A memory that is empty is right about every finding.                    *)
LEMMA NothingInMemory ==
  ASSUME records = <<>>
  PROVE  GroupsAreAttested
<1>1. Keys = {}  BY DEF Keys
<1> QED  BY <1>1, FS_EmptySet DEF GroupsAreAttested

(* A report starts from nothing.                                           *)
LEMMA ReportInit == Init => ReportInv
<1> SUFFICES ASSUME Init  PROVE ReportInv  OBVIOUS
<1>1. PICK r \in Runs : files = r.files /\ lost = r.lost  BY DEF Init
<1>2. FilesOfARun /\ InputsAreThere  BY <1>1, InputsAssumption DEF FilesOfARun, InputsAreThere
<1>3. GroupsAreAttested  BY NothingInMemory DEF Init
<1>4. WhereItIs  BY DEF Init, WhereItIs
<1>5. CleanMeansClean  BY DEF Init, CleanMeansClean
<1> QED  BY <1>2, <1>3, <1>4, <1>5 DEF ReportInv

(* A confirmed finding is the first evidence that a report reads.          *)
LEMMA AttestedEvidence ==
  ASSUME Attested # {},
         GroupsAreAttested, \A i \in Attested : Key(files[i]) \in Keys,
         \A k \in Keys : records[k].status = "confirmed",
         NEW s \in Shown, NEW more
  PROVE  EvidenceStatus({GroupEvidence(k) : k \in s} \cup more) # "no_confirmed_vulnerability"
<1>1. IsFiniteSet(Keys) /\ Keys # {}  BY DEF GroupsAreAttested
<1>2. Cardinality(Keys) \in Nat /\ Cardinality(Keys) # 0
  BY <1>1, FS_CardinalityType, FS_EmptySet
<1>3. Cardinality(s) # 0  BY <1>2, LimitAssumption DEF Shown
<1>4. PICK k \in s : TRUE  BY <1>3, FS_EmptySet
<1>5. k \in Keys /\ GroupEvidence(k).confirmed = TRUE  BY <1>4 DEF Shown, GroupEvidence
<1> DEFINE all == {GroupEvidence(l) : l \in s} \cup more
<1>6. GroupEvidence(k) \in {e \in all : e.confirmed}  BY <1>4, <1>5
<1> HIDE DEF all
<1>7. EvidenceStatus(all) # "no_confirmed_vulnerability"  BY <1>6 DEF EvidenceStatus
<1> QED  BY <1>7 DEF all

(* What a refined status keeps: it is clean only where it was clean and    *)
(* the campaign has nothing open.                                          *)
LEMMA RefineKeepsDoubt ==
  ASSUME NEW status, Final(Refine(status)) = "no_confirmed_vulnerability"
  PROVE  /\ failure \notin Failures
         /\ status = "no_confirmed_vulnerability"
         /\ campaign # None => campaign.verification # "incomplete" /\ ~campaign.unresolved
<1>1. failure \notin Failures  BY DEF Final, Failures
<1>2. Refine(status) = "no_confirmed_vulnerability"  BY <1>1 DEF Final
<1> QED  BY <1>1, <1>2 DEF Refine

(* The steps that neither begin, end nor read.                             *)
LEMMA ReportUntouched ==
  ASSUME ReportInv, UNCHANGED <<files, lost, failure, campaign, report>>
  PROVE  /\ FilesOfARun' /\ InputsAreThere' /\ CleanMeansClean'
         /\ Attested' = Attested
<1>1. Attested' = Attested  BY DEF Attested
<1> QED  BY <1>1 DEF ReportInv, FilesOfARun, InputsAreThere, CleanMeansClean

(* A step that leaves the reporter without memory.                         *)
LEMMA ReportForgotten ==
  ASSUME Gone, phase' = "idle"
  PROVE  GroupsAreAttested' /\ WhereItIs'
<1>1. records' = <<>> /\ raw' = 0 /\ at' = 1  BY DEF Gone
<1>2. Keys' = {}  BY <1>1 DEF Keys
<1>3. GroupsAreAttested'  BY <1>2, FS_EmptySet DEF GroupsAreAttested
<1> QED  BY <1>1, <1>3 DEF WhereItIs

(* A further finding keeps what is known of its group.                     *)
LEMMA DuplicateKeeps ==
  ASSUME NEW rec, NEW f, DOMAIN rec = Fields
  PROVE  /\ DOMAIN Duplicate(rec, f) = Fields
         /\ Duplicate(rec, f).attested = rec.attested
         /\ Duplicate(rec, f).status = rec.status
         /\ \A S : rec.seeds \in Seq(S) /\ Reproducer(f) \in S => Duplicate(rec, f).seeds \in Seq(S)
<1> DEFINE more == IF \/ Reproducer(f) = None \/ Len(rec.seeds) >= Seeds
                      \/ \E i \in 1 .. Len(rec.seeds) : rec.seeds[i] = Reproducer(f)
                   THEN rec.seeds ELSE Append(rec.seeds, Reproducer(f))
<1>1. Duplicate(rec, f) = [rec EXCEPT !.duplicates = rec.duplicates + 1, !.seeds = more]
  BY DEF Duplicate, Fields
<1>2. more = rec.seeds \/ more = Append(rec.seeds, Reproducer(f))  OBVIOUS
<1> HIDE DEF more
<1>4. \A S : rec.seeds \in Seq(S) /\ Reproducer(f) \in S => more \in Seq(S)  BY <1>2
<1>3. /\ DOMAIN Duplicate(rec, f) = Fields
      /\ Duplicate(rec, f).attested = rec.attested
      /\ Duplicate(rec, f).status = rec.status
      /\ Duplicate(rec, f).seeds = more
  BY <1>1 DEF Fields
<1> QED  BY <1>3, <1>4

(* A group that is new has the evidence of its finding.                    *)
LEMMA NewRecordIs ==
  ASSUME NEW f
  PROVE  /\ DOMAIN NewRecord(f) = Fields
         /\ NewRecord(f).attested = (f.form = "v3")
         /\ NewRecord(f).status = "unchecked"
         /\ \A S : Reproducer(f) \in S => NewRecord(f).seeds \in Seq(S)
BY DEF NewRecord, Fields

(* Pass 1 puts a file into its group and leaves the others as they are.    *)
LEMMA CollectKeeps == ReportInv /\ Collect => ReportInv'
<1> SUFFICES ASSUME ReportInv, Collect  PROVE ReportInv'  OBVIOUS
<1>1. /\ phase = "collect" /\ phase' = "collect" /\ at \in DOMAIN files /\ at' = at + 1
      /\ UNCHANGED <<files, lost, failure, campaign, report>>  BY DEF Collect, input
<1>2. /\ FilesOfARun' /\ InputsAreThere' /\ CleanMeansClean' /\ Attested' = Attested
  BY <1>1, ReportUntouched
<1>3. /\ at \in Nat \ {0} /\ CollectedTo(at) /\ raw \in Nat /\ GroupsAreAttested
      /\ DOMAIN files = 1 .. Len(files) /\ OneMode(files)
  BY <1>1, FilesAreOneMode DEF ReportInv, WhereItIs
<1>s. There' = There  BY <1>1 DEF There
<1>i. \A i \in DOMAIN files : i \in Nat /\ (i < at + 1 <=> i < at \/ i = at)  BY <1>3
<1>4. CASE ~IsStructured(files[at])
  <2>1. UNCHANGED <<raw, records>>  BY <1>4 DEF Collect
  <2>2. Keys' = Keys  BY <2>1 DEF Keys
  <2>3. GroupsAreAttested'
    BY <1>2, <1>3, <1>s, <2>1, <2>2 DEF GroupsAreAttested, SeedsAreThere
  <2>4. CollectedTo(at)'  BY <1>1, <1>3, <1>i, <1>4, <2>1, <2>2 DEF CollectedTo
  <2>5. WhereItIs'  BY <1>1, <1>3, <2>1, <2>4 DEF WhereItIs
  <2> QED  BY <1>2, <2>3, <2>5 DEF ReportInv
<1>5. CASE IsStructured(files[at])
  <2> DEFINE f == files[at]
             key == Key(f)
             rec == IF key \in Keys THEN Duplicate(records[key], f) ELSE NewRecord(f)
  <2>1. raw' = raw + 1 /\ records' = With(records, key, rec)  BY <1>5 DEF Collect, AddFinding
  <2>2. Keys' = Keys \cup {key}  BY <2>1 DEF Keys, With
  <2>3. /\ records'[key] = rec
        /\ \A k \in Keys : k # key => records'[k] = records[k]
    BY <2>1 DEF With, Keys
  <2>4. GroupsAreAttested'
    <3>1. SUFFICES ASSUME Attested # {}  PROVE GroupsAreAttested'  BY <1>2 DEF GroupsAreAttested
    <3>2. f.form = "v3"
      <4>1. PICK i \in DOMAIN files : files[i].form = "v3"  BY <3>1 DEF Attested
      <4>2. f.form # "record"  BY <1>1, <1>3, <4>1 DEF OneMode
      <4> QED  BY <1>5, <4>2 DEF IsStructured
    <3>3. /\ IsFiniteSet(Keys)
          /\ \A k \in Keys : /\ DOMAIN records[k] = Fields /\ records[k].attested
                             /\ records[k].status \in {"unchecked", "confirmed"}
                             /\ records[k].seeds \in Seq(There)
      BY <1>3, <3>1 DEF GroupsAreAttested, SeedsAreThere
    <3>7. Reproducer(f) \in There
      BY <1>1, <3>2 DEF There, ReportInv, InputsAreThere
    <3>4. /\ DOMAIN rec = Fields /\ rec.attested /\ rec.status \in {"unchecked", "confirmed"}
          /\ rec.seeds \in Seq(There)
      <4>1. CASE key \in Keys  BY <3>3, <3>7, <4>1, DuplicateKeeps
      <4>2. CASE key \notin Keys  BY <3>2, <3>7, <4>2, NewRecordIs
      <4> QED  BY <4>1, <4>2
    <3>5. IsFiniteSet(Keys \cup {key})  BY <3>3, FS_AddElement
    <3> HIDE DEF rec, key
    <3>6. \A k \in Keys' : /\ DOMAIN records'[k] = Fields /\ records'[k].attested
                           /\ records'[k].status \in {"unchecked", "confirmed"}
                           /\ records'[k].seeds \in Seq(There)
      BY <2>2, <2>3, <3>3, <3>4
    <3> QED  BY <1>s, <2>2, <3>5, <3>6 DEF GroupsAreAttested, SeedsAreThere
  <2>5. CollectedTo(at)'
    <3>1. \A i \in DOMAIN files : IsStructured(files[i]) /\ i < at + 1 => Key(files[i]) \in Keys'
      BY <1>3, <1>i, <2>2 DEF CollectedTo
    <3>2. raw' \in Nat \ {0}  BY <1>3, <2>1
    <3> QED  BY <1>1, <3>1, <3>2 DEF CollectedTo
  <2>6. WhereItIs'
    <3>1. raw' \in Nat /\ at' \in Nat \ {0}  BY <1>1, <1>3, <2>1
    <3> QED  BY <1>1, <2>5, <3>1 DEF WhereItIs
  <2> QED  BY <1>2, <2>4, <2>6 DEF ReportInv
<1> QED  BY <1>4, <1>5

(* With a confirmed finding in the run the stored groups do not count.     *)
LEMMA LoadKeeps == ReportInv /\ LoadStored => ReportInv'
<1> SUFFICES ASSUME ReportInv, LoadStored  PROVE ReportInv'  OBVIOUS
<1>1. /\ phase = "collect" /\ phase' = "replay" /\ at \notin DOMAIN files /\ at' = at
      /\ UNCHANGED <<files, lost, failure, campaign, report>>  BY DEF LoadStored, input
<1>2. /\ FilesOfARun' /\ InputsAreThere' /\ CleanMeansClean' /\ Attested' = Attested
  BY <1>1, ReportUntouched
<1>3. /\ at \in Nat \ {0} /\ CollectedTo(at) /\ raw \in Nat /\ GroupsAreAttested
      /\ DOMAIN files = 1 .. Len(files) /\ Len(files) \in Nat
  BY <1>1, FilesAreOneMode DEF ReportInv, WhereItIs
<1>4. \A i \in DOMAIN files : i < at  BY <1>1, <1>3
<1>5. CASE Attested = {}
  BY <1>1, <1>2, <1>3, <1>5 DEF ReportInv, GroupsAreAttested, WhereItIs
<1>6. CASE Attested # {}
  <2>1. \A i \in Attested : i \in DOMAIN files /\ IsStructured(files[i]) /\ i < at
    BY <1>4 DEF Attested, IsStructured
  <2>2. raw # 0  BY <1>3, <1>6, <2>1 DEF CollectedTo
  <2>3. UNCHANGED <<records, raw>>  BY <2>2 DEF LoadStored
  <2>4. Keys' = Keys  BY <2>3 DEF Keys
  <2>5. GroupsAreAttested'
    BY <1>1, <1>2, <1>3, <2>3, <2>4 DEF GroupsAreAttested, SeedsAreThere, There
  <2>6. \A i \in Attested : Key(files[i]) \in Keys  BY <1>3, <2>1 DEF CollectedTo
  <2>7. WhereItIs'  BY <1>1, <1>2, <1>3, <2>4, <2>6 DEF WhereItIs
  <2> QED  BY <1>2, <2>5, <2>7 DEF ReportInv
<1> QED  BY <1>5, <1>6

(* A group of a run with a confirmed finding is confirmed or not replayed. *)
LEMMA CheckKeeps ==
  ASSUME ReportInv, phase = "replay", phase' = "replay", at' = at,
         UNCHANGED <<files, lost, failure, campaign, report>>,
         NEW k \in Keys, NEW v, records' = [records EXCEPT ![k].status = v],
         records[k].attested => v = "confirmed"
  PROVE  ReportInv'
<1>1. /\ FilesOfARun' /\ InputsAreThere' /\ CleanMeansClean' /\ Attested' = Attested
  BY ReportUntouched
<1>2. Keys' = Keys  BY DEF Keys
<1>3. GroupsAreAttested'
  <2>1. SUFFICES ASSUME Attested # {}  PROVE GroupsAreAttested'  BY <1>1 DEF GroupsAreAttested
  <2>2. /\ IsFiniteSet(Keys)
        /\ \A l \in Keys : /\ DOMAIN records[l] = Fields /\ records[l].attested
                           /\ records[l].status \in {"unchecked", "confirmed"}
                           /\ records[l].seeds \in Seq(There)
    BY <2>1 DEF GroupsAreAttested, SeedsAreThere, ReportInv
  <2>3. records' = [records EXCEPT ![k] = [records[k] EXCEPT !.status = v]]  OBVIOUS
  <2> DEFINE rec == [records[k] EXCEPT !.status = v]
  <2>4. /\ DOMAIN rec = Fields /\ rec.attested = records[k].attested /\ rec.status = v
        /\ rec.seeds = records[k].seeds
    BY <2>2 DEF Fields
  <2>5. records'[k] = rec /\ \A l \in Keys : l # k => records'[l] = records[l]
    BY <2>3 DEF Keys
  <2> HIDE DEF rec
  <2>6. \A l \in Keys : /\ DOMAIN records'[l] = Fields /\ records'[l].attested
                        /\ records'[l].status \in {"unchecked", "confirmed"}
                        /\ records'[l].seeds \in Seq(There)
    BY <2>2, <2>4, <2>5
  <2>7. There' = There  BY DEF There
  <2> QED  BY <1>2, <2>2, <2>6, <2>7 DEF GroupsAreAttested, SeedsAreThere
<1>4. WhereItIs'  BY <1>1, <1>2 DEF ReportInv, WhereItIs
<1> QED  BY <1>1, <1>3, <1>4 DEF ReportInv

(* Every step of a report keeps what is known of it.                       *)
LEMMA ReportStep == ReportInv /\ Next => ReportInv'
<1> SUFFICES ASSUME ReportInv, Next  PROVE ReportInv'  OBVIOUS
<1>1. CASE Begin \/ ReplayCorpus
  <2>1. /\ phase \in {"idle", "corpus"} /\ phase' \in {"corpus", "collect"}
        /\ UNCHANGED <<files, lost, failure, campaign, report, at, raw, records>>
    BY <1>1 DEF Begin, ReplayCorpus, input
  <2>2. /\ FilesOfARun' /\ InputsAreThere' /\ CleanMeansClean' /\ Attested' = Attested
    BY <2>1, ReportUntouched
  <2>3. at = 1 /\ raw = 0 /\ records = <<>>  BY <2>1 DEF ReportInv, WhereItIs
  <2>4. Keys' = {}  BY <2>1, <2>3 DEF Keys
  <2>5. GroupsAreAttested'  BY <2>4, FS_EmptySet DEF GroupsAreAttested
  <2>6. \A i \in DOMAIN files : ~(i < 1)  BY FilesAreOneMode DEF ReportInv
  <2>7. CollectedTo(at)'  BY <2>1, <2>3, <2>6 DEF CollectedTo
  <2>8. raw' \in Nat /\ at' \in Nat \ {0} /\ at' = 1 /\ raw' = 0 /\ records' = <<>>
    BY <2>1, <2>3
  <2>9. WhereItIs'  BY <2>1, <2>7, <2>8 DEF WhereItIs
  <2> QED  BY <2>2, <2>5, <2>9 DEF ReportInv
<1>2. CASE Collect  BY <1>2, CollectKeeps
<1>3. CASE LoadStored  BY <1>3, LoadKeeps
<1>4. CASE Replay
  <2>1. /\ phase = "replay" /\ phase' = "replay" /\ at' = at
        /\ UNCHANGED <<files, lost, failure, campaign, report>>  BY <1>4 DEF Replay, input
  <2>2. PICK k \in Unchecked, o \in Outcomes :
          records' = [records EXCEPT ![k].status = Outcome(records[k], o)]
    BY <1>4 DEF Replay
  <2>3. k \in Keys  BY DEF Unchecked
  <2>4. records[k].attested => Outcome(records[k], o) = "confirmed"  BY DEF Outcome
  <2> QED  BY <2>1, <2>2, <2>3, <2>4, CheckKeeps
<1>5. CASE Attest
  <2>1. /\ phase = "replay" /\ phase' = "replay" /\ at' = at
        /\ UNCHANGED <<files, lost, failure, campaign, report>>  BY <1>5 DEF Attest, input
  <2>2. PICK k \in Unchecked : records' = [records EXCEPT ![k].status = "confirmed"]
    BY <1>5 DEF Attest
  <2>3. k \in Keys  BY DEF Unchecked
  <2> QED  BY <2>1, <2>2, <2>3, CheckKeeps
<1>6. CASE Replayed
  <2>1. /\ phase = "replay" /\ phase' = "persist"
        /\ UNCHANGED <<files, lost, failure, campaign, report, at, raw, records>>
    BY <1>6 DEF Replayed, input
  <2>2. /\ FilesOfARun' /\ InputsAreThere' /\ CleanMeansClean' /\ Attested' = Attested
    BY <2>1, ReportUntouched
  <2>3. Keys' = Keys  BY <2>1 DEF Keys
  <2>4. GroupsAreAttested'
    BY <2>1, <2>2, <2>3 DEF GroupsAreAttested, SeedsAreThere, There, ReportInv
  <2>5. Attested # {} => \A k \in Keys : records[k].status = "confirmed"
    <3> SUFFICES ASSUME Attested # {}, NEW k \in Keys, records[k].status # "confirmed"
                 PROVE  FALSE
      OBVIOUS
    <3>1. records[k].attested /\ records[k].seeds \in Seq(There) /\ k \in Unchecked
      BY DEF ReportInv, GroupsAreAttested, SeedsAreThere, Unchecked
    <3>2. Stays(records[k])  BY <1>6, <3>1 DEF Replayed
    <3>3. records[k].seeds # <<>> /\ records[k].seeds[1] \in lost
      BY <3>1, <3>2 DEF Stays, Replayable
    <3>4. records[k].seeds[1] \in There  BY <3>1, <3>3
    <3> QED  BY <3>3, <3>4 DEF There
  <2>6. WhereItIs'  BY <2>1, <2>2, <2>3, <2>5 DEF WhereItIs, ReportInv
  <2> QED  BY <2>2, <2>4, <2>6 DEF ReportInv
<1>7. CASE Persist \/ Reduce \/ Rest
  <2>1. UNCHANGED <<files, lost, failure, campaign, report, phase, at, raw, records>>
    BY <1>7 DEF Persist, Reduce, Rest, input, vars
  <2>2. /\ FilesOfARun' /\ InputsAreThere' /\ CleanMeansClean' /\ Attested' = Attested
    BY <2>1, ReportUntouched
  <2>3. Keys' = Keys  BY <2>1 DEF Keys
  <2>4. GroupsAreAttested'
    BY <2>1, <2>2, <2>3 DEF GroupsAreAttested, SeedsAreThere, There, ReportInv
  <2>5. WhereItIs'  BY <2>1, <2>2, <2>3 DEF WhereItIs, ReportInv, CollectedTo
  <2> QED  BY <2>2, <2>4, <2>5 DEF ReportInv
<1>8. CASE WriteReport
  <2>1. phase = "persist" /\ phase' = "idle" /\ Gone /\ UNCHANGED <<files, lost, failure, campaign>>
    BY <1>8 DEF WriteReport, input
  <2>2. GroupsAreAttested' /\ WhereItIs'  BY <2>1, ReportForgotten
  <2>3. FilesOfARun' /\ InputsAreThere' /\ Attested' = Attested
    BY <2>1 DEF ReportInv, FilesOfARun, InputsAreThere, Attested
  <2> DEFINE says(t) == Final(Refine(EvidenceStatus({GroupEvidence(k) : k \in t}
                                                     \cup CorpusEvidence \cup FindingFiles)))
             min == {files[i].name : i \in {j \in DOMAIN files :
                                              IsStructured(files[j]) /\ Loaded(files[j])}}
  <2>s. \E t \in Shown :
          report' = [status |-> says(t), minimized |-> min, raw |-> raw,
                     groups |-> Keys, duplicates |-> Duplicates,
                     confirmed |-> Count("confirmed"), unstable |-> Count("unstable"),
                     unchecked |-> Count("unchecked")]
    BY <1>8 DEF WriteReport
  <2> HIDE DEF says, min
  <2>4. PICK s \in Shown : report'.status = says(s)  BY <2>s
  <2> DEFINE more == CorpusEvidence \cup FindingFiles
             status == EvidenceStatus({GroupEvidence(k) : k \in s} \cup more)
  <2>5. {GroupEvidence(k) : k \in s} \cup CorpusEvidence \cup FindingFiles
          = {GroupEvidence(k) : k \in s} \cup more  OBVIOUS
  <2>6. report'.status = Final(Refine(status))  BY <2>4, <2>5 DEF says
  <2>7. Attested # {} => status # "no_confirmed_vulnerability"
    BY <2>1, AttestedEvidence DEF ReportInv, WhereItIs
  <2> HIDE DEF status
  <2>8. CleanMeansClean'
    BY <2>1, <2>3, <2>6, <2>7, RefineKeepsDoubt DEF CleanMeansClean, ReportInv
  <2> QED  BY <2>2, <2>3, <2>8 DEF ReportInv
<1>9. CASE Kill
  <2>1. phase' = "idle" /\ Gone /\ UNCHANGED <<files, lost, failure, campaign, report>>
    BY <1>9 DEF Kill, input
  <2> QED  BY <2>1, ReportForgotten, ReportUntouched DEF ReportInv
<1>10. CASE Clean
  <2>1. /\ phase = "idle" /\ files' = <<>>
        /\ UNCHANGED <<failure, campaign, report, phase, at, raw, records>>
    BY <1>10 DEF Clean, input
  <2>2. Attested' = {}  BY <2>1 DEF Attested
  <2>3. FilesOfARun' /\ InputsAreThere' /\ CleanMeansClean'
    BY <2>1, <2>2 DEF ReportInv, FilesOfARun, InputsAreThere, CleanMeansClean
  <2>4. GroupsAreAttested' /\ WhereItIs'
    BY <2>1, <2>2 DEF ReportInv, GroupsAreAttested, WhereItIs
  <2> QED  BY <2>3, <2>4 DEF ReportInv
<1> QED
  BY <1>1, <1>2, <1>3, <1>4, <1>5, <1>6, <1>7, <1>8, <1>9, <1>10 DEF Next

(***************************************************************************)
(* Reports that are made again.                                            *)
(***************************************************************************)

(* A group has its fields and a number of duplicates.                      *)
AreGroups(recs) ==
  /\ IsFiniteSet(DOMAIN recs)
  /\ \A k \in DOMAIN recs : DOMAIN recs[k] = Fields /\ recs[k].duplicates \in Nat

(* The finding files before n that have a key, and the keys they have.     *)
FilesOf(fs, n, k) == {i \in DOMAIN fs : i < n /\ IsStructured(fs[i]) /\ Key(fs[i]) = k}

KeysTo(fs, n) == {Key(fs[i]) : i \in {j \in DOMAIN fs : j < n /\ IsStructured(fs[j])}}

(* A group counts the files that have its key.                             *)
CountsFiles(recs, k, fs, n) == recs[k].duplicates + 1 = Cardinality(FilesOf(fs, n, k))

Counted(recs, fs, n) ==
  /\ DOMAIN recs = KeysTo(fs, n)
  /\ \A k \in DOMAIN recs : CountsFiles(recs, k, fs, n)

(* Groups that were loaded are those stored: they count the same, and one  *)
(* that is stored as confirmed is confirmed.                               *)
SameGroups(recs, kept) ==
  /\ DOMAIN recs = DOMAIN kept
  /\ \A k \in DOMAIN recs :
       /\ recs[k].duplicates = kept[k].duplicates
       /\ kept[k].status = "confirmed" => recs[k].status = "confirmed"

(* A report has the numbers of these groups.                               *)
Tells(rep, recs) == rep.raw = Total(recs) /\ rep.duplicates = SumOf(Further(recs), DOMAIN recs)

(* A report was made of groups of which these are left.                    *)
LeftOf(rep, recs) ==
  /\ DOMAIN recs \subseteq rep.groups /\ Names(DOMAIN recs) = Names(rep.groups)
  /\ NamesDiffer(rep.groups) => Tells(rep, recs)

(* The names of the findings with a minimized input.                       *)
Minimized == {files[i].name : i \in {j \in DOMAIN files :
                                       IsStructured(files[j]) /\ Loaded(files[j])}}

(* The place beyond the last file, and the keys of all of them.            *)
Beyond == Len(files) + 1
AllKeys == KeysTo(files, Beyond)

(* What is in memory while a report is made.                               *)
MemoryCounts ==
  /\ phase = "collect" => Counted(records, files, at) /\ raw = Total(records)
                          /\ at <= Len(files) + 1
  /\ phase \in {"replay", "persist"} =>
       /\ raw = Total(records)
       /\ IF files # <<>> THEN Counted(records, files, Beyond) ELSE SameGroups(records, Readable)
  /\ phase = "persist" =>
       /\ todo \subseteq Keys
       /\ files # <<>> => Names(Keys \ todo) \subseteq DOMAIN stored

(* The files of groups have the name of their key.                         *)
FilesAreGroups(kept) ==
  /\ IsFiniteSet(DOMAIN kept)
  /\ \A name \in DOMAIN kept : /\ SafeKey(kept[name].key) = name
                               /\ DOMAIN kept[name].record = Fields
                               /\ kept[name].record.duplicates \in Nat

(* What is on disk: groups that count the files while these are there, and *)
(* one for each name once a report was written.                            *)
DiskCounts ==
  files # <<>> =>
    /\ \A name \in DOMAIN stored :
         /\ stored[name].key \in AllKeys
         /\ stored[name].record.duplicates + 1 = Cardinality(FilesOf(files, Beyond, stored[name].key))
    /\ report # None => Names(AllKeys) \subseteq DOMAIN stored

(* The last report tells of the files, or what is on disk is left of it.   *)
ReportTells ==
  report # None =>
    IF files # <<>>
    THEN /\ report.groups = AllKeys /\ report.minimized \subseteq Minimized
         /\ \E recs : AreGroups(recs) /\ Counted(recs, files, Beyond) /\ Tells(report, recs)
    ELSE torn = {} => LeftOf(report, Readable)

KeepInv ==
  /\ AreGroups(records) /\ FilesAreGroups(stored)
  /\ MemoryCounts /\ DiskCounts /\ ReportTells

(* The order of the natural numbers as a set of pairs: induction is drawn   *)
(* from its well-foundedness, for sets of numbers instead of predicates.   *)
Below == {ss \in Nat \X Nat : ss[1] < ss[2]}
(* It is well-founded. *)
LEMMA BelowWF == IsWellFoundedOn(Below, Nat)
  BY NatLessThanWellFounded, Zenon DEF OpToRel, Below

(* A set with 0 that is closed under successor has every number. *)
LEMMA SetInduction ==
  ASSUME NEW S, 0 \in S, \A n \in Nat : n \in S => n + 1 \in S
  PROVE  \A n \in Nat : n \in S
<1> DEFINE T == Nat \ S
<1>1. SUFFICES ASSUME T # {} PROVE FALSE OBVIOUS
<1>2. \E x \in T : \A y \in T : ~ (<<y, x>> \in Below)
  <2> HIDE DEF T
  <2>1. T \subseteq Nat BY DEF T
  <2> QED BY <1>1, BelowWF, <2>1, WFMin, Zenon
<1>3. PICK x \in T : \A y \in T : ~ (<<y, x>> \in Below) BY <1>2
<1>4. \A y \in T : ~(y < x) BY <1>3 DEF Below
<1>5. x # 0 /\ x - 1 \in Nat /\ x - 1 \notin T BY <1>4
<1> QED BY <1>5

(* The recursion that MapThenSumSet follows.                               *)
Pick(s) == CHOOSE x \in s : TRUE
Plus(c, it, s) == IF s = {} THEN 0 ELSE c[Pick(s)] + it[s \ {Pick(s)}]
Solves(c, it, S) == \A s \in SUBSET S : it[s] = Plus(c, it, s)
IsSum(c, it, S) == it \in [SUBSET S -> Nat] /\ Solves(c, it, S)

(* A set without one of its elements. *)
LEMMA Smaller ==
  ASSUME NEW s, IsFiniteSet(s), NEW x \in s
  PROVE  /\ IsFiniteSet(s \ {x}) /\ Cardinality(s) \in Nat \ {0}
         /\ Cardinality(s \ {x}) = Cardinality(s) - 1
<1>1. Cardinality(s) \in Nat /\ IsFiniteSet(s \ {x}) /\ Cardinality(s \ {x}) = Cardinality(s) - 1
  BY FS_CardinalityType, FS_RemoveElement
<1>2. Cardinality(s \ {x}) \in Nat BY <1>1, FS_CardinalityType
<1> QED BY <1>1, <1>2

(* The recursion of the sum has a solution, built up by cardinality. *)
LEMMA SumExists ==
  ASSUME NEW c, NEW S, IsFiniteSet(S), \A s \in S : c[s] \in Nat
  PROVE  \E it : IsSum(c, it, S)
<1> DEFINE Small(n) == {s \in SUBSET S : Cardinality(s) <= n}
           Good == {n \in Nat : \E g \in [Small(n) -> Nat] : \A s \in Small(n) : g[s] = Plus(c, g, s)}
<1>0. \A s \in SUBSET S : IsFiniteSet(s) /\ Cardinality(s) \in Nat
  BY FS_Subset, FS_CardinalityType
<1>1. 0 \in Good
  <2> DEFINE g == [s \in Small(0) |-> 0]
  <2>1. \A s \in Small(0) : s = {}
    <3> TAKE s \in Small(0)
    <3>1. Cardinality(s) = 0 /\ IsFiniteSet(s) BY <1>0
    <3> QED BY <3>1, FS_EmptySet
  <2>2. g \in [Small(0) -> Nat] /\ \A s \in Small(0) : g[s] = Plus(c, g, s) BY <2>1 DEF Plus
  <2> QED BY <2>2
<1>2. \A n \in Nat : n \in Good => n + 1 \in Good
  <2> SUFFICES ASSUME NEW n \in Nat, n \in Good PROVE n + 1 \in Good OBVIOUS
  <2>1. PICK g \in [Small(n) -> Nat] : \A s \in Small(n) : g[s] = Plus(c, g, s) OBVIOUS
  <2> DEFINE h == [s \in Small(n + 1) |-> IF s \in Small(n) THEN g[s] ELSE Plus(c, g, s)]
  <2>2. \A s \in Small(n + 1) : s # {} => Pick(s) \in s /\ c[Pick(s)] \in Nat
                                          /\ s \ {Pick(s)} \in Small(n)
    <3> SUFFICES ASSUME NEW s \in Small(n + 1), s # {}
                 PROVE Pick(s) \in s /\ c[Pick(s)] \in Nat /\ s \ {Pick(s)} \in Small(n)
      OBVIOUS
    <3>1. Pick(s) \in s BY DEF Pick
    <3>2. c[Pick(s)] \in Nat BY <3>1
    <3>3. Cardinality(s \ {Pick(s)}) = Cardinality(s) - 1 /\ Cardinality(s) \in Nat \ {0}
      BY <1>0, <3>1, Smaller
    <3>4. s \ {Pick(s)} \in SUBSET S OBVIOUS
    <3> QED BY <3>1, <3>2, <3>3, <3>4
  <2>3. Small(n) \subseteq Small(n + 1) /\ \A s \in SUBSET S : s = {} => s \in Small(n)
    <3>1. Cardinality({}) = 0 BY FS_EmptySet
    <3>2. \A s \in Small(n) : s \in Small(n + 1) BY <1>0
    <3>3. ASSUME NEW s \in SUBSET S, s = {} PROVE s \in Small(n) BY <3>1, <3>3
    <3> QED BY <3>2, <3>3
  <2>4. \A s \in Small(n + 1) : h[s] \in Nat /\ h[s] = Plus(c, g, s)
    <3> TAKE s \in Small(n + 1)
    <3>1. CASE s \in Small(n) BY <2>1, <3>1
    <3>2. CASE s \notin Small(n)
      <4>1. s # {} BY <2>3, <3>2
      <4> QED BY <2>2, <3>2, <4>1 DEF Plus
    <3> QED BY <3>1, <3>2
  <2>5. \A s \in Small(n + 1) : Plus(c, h, s) = Plus(c, g, s)
    <3> HIDE DEF Small
    <3>1. \A s \in Small(n) : h[s] = g[s] BY <2>3
    <3> HIDE DEF h
    <3> TAKE s \in Small(n + 1)
    <3>2. CASE s = {} BY <3>2 DEF Plus
    <3>3. CASE s # {}
      <4>1. h[s \ {Pick(s)}] = g[s \ {Pick(s)}] BY <2>2, <3>1, <3>3
      <4> QED BY <3>3, <4>1 DEF Plus
    <3> QED BY <3>2, <3>3
  <2>6. h \in [Small(n + 1) -> Nat] BY <2>4
  <2>7. \A s \in Small(n + 1) : h[s] = Plus(c, h, s) BY <2>4, <2>5
  <2> HIDE DEF h, Small
  <2> QED BY <2>6, <2>7
<1>3. Cardinality(S) \in Good
  <2> HIDE DEF Good
  <2>1. \A n \in Nat : n \in Good BY <1>1, <1>2, SetInduction
  <2> QED BY <2>1, FS_CardinalityType
<1>4. Small(Cardinality(S)) = SUBSET S BY FS_Subset
<1> QED BY <1>3, <1>4 DEF IsSum, Solves

(* It has only one. *)
LEMMA SumUnique ==
  ASSUME NEW c, NEW S, IsFiniteSet(S), NEW f, NEW g,
         Solves(c, f, S), Solves(c, g, S)
  PROVE  \A s \in SUBSET S : f[s] = g[s]
<1>0. \A s \in SUBSET S : f[s] = Plus(c, f, s) /\ g[s] = Plus(c, g, s) BY DEF Solves
<1> DEFINE Good == {n \in Nat : \A s \in SUBSET S : Cardinality(s) <= n => f[s] = g[s]}
<1>1. \A s \in SUBSET S : IsFiniteSet(s) /\ Cardinality(s) \in Nat
  BY FS_Subset, FS_CardinalityType
<1>2. \A s \in SUBSET S : s = {} => f[s] = g[s] BY <1>0 DEF Plus
<1>3. 0 \in Good
  <2> SUFFICES ASSUME NEW s \in SUBSET S, Cardinality(s) <= 0 PROVE f[s] = g[s] OBVIOUS
  <2>1. s = {} BY <1>1, FS_EmptySet
  <2> QED BY <1>2, <2>1
<1>4. ASSUME NEW n \in Nat, n \in Good PROVE n + 1 \in Good
  <2> SUFFICES ASSUME NEW s \in SUBSET S, Cardinality(s) <= n + 1, s # {} PROVE f[s] = g[s]
    BY <1>2
  <2>1. Pick(s) \in s BY DEF Pick
  <2>2. Cardinality(s \ {Pick(s)}) = Cardinality(s) - 1 /\ s \ {Pick(s)} \in SUBSET S
    BY <1>1, <2>1, Smaller
  <2>3. Cardinality(s \ {Pick(s)}) <= n BY <1>1, <2>2
  <2>4. f[s \ {Pick(s)}] = g[s \ {Pick(s)}] BY <1>4, <2>2, <2>3
  <2> QED BY <1>0, <2>4 DEF Plus
<1>5. \A n \in Nat : n \in Good
  <2> HIDE DEF Good
  <2> QED BY <1>3, <1>4, SetInduction
<1> QED BY <1>1, <1>5

(* So SumOf is that solution, on every subset. *)
LEMMA SumUnfold ==
  ASSUME NEW c, NEW S, IsFiniteSet(S), \A s \in S : c[s] \in Nat
  PROVE  \E it : IsSum(c, it, S) /\ \A s \in SUBSET S : it[s] = SumOf(c, s)
<1> DEFINE Def(it, U) == [s \in SUBSET U |-> IF s = {} THEN 0
                            ELSE c[CHOOSE x \in s : TRUE] + it[s \ {CHOOSE x \in s : TRUE}]]
           iter(U) == CHOOSE f : f = Def(f, U)
<1>1. PICK g : IsSum(c, g, S) BY SumExists
<1>2. ASSUME NEW U \in SUBSET S PROVE g[U] = SumOf(c, U)
  <2> DEFINE h == [s \in SUBSET U |-> g[s]]
  <2>0. \A s \in SUBSET U : s # {} => s \ {Pick(s)} \in SUBSET U OBVIOUS
  <2>1. \A s \in SUBSET U : h[s] = Plus(c, h, s) BY <1>1, <2>0 DEF IsSum, Solves, Plus
  <2>2. h = Def(h, U) BY <2>1 DEF Plus, Pick
  <2>3. iter(U) = Def(iter(U), U) BY <2>2
  <2>4. \A s \in SUBSET U : iter(U)[s] = Plus(c, iter(U), s)
    <3> DEFINE k == iter(U)
    <3> HIDE DEF k
    <3>1. k = Def(k, U) BY <2>3 DEF k
    <3> QED BY <3>1 DEF k, Plus, Pick
  <2>5. SumOf(c, U) = iter(U)[U] BY DEF SumOf, MapThenSumSet, MapThenFoldSet
  <2>6. IsFiniteSet(U) BY FS_Subset
  <2>7. iter(U)[U] = h[U]
    <3> DEFINE k == iter(U)
    <3>1. Solves(c, h, U) /\ Solves(c, k, U) BY <2>1, <2>4 DEF Solves
    <3> HIDE DEF h, k
    <3>2. \A s \in SUBSET U : h[s] = k[s] BY <2>6, <3>1, SumUnique
    <3>3. h[U] = k[U] BY <3>2
    <3> QED BY <3>3 DEF k
  <2> QED BY <2>5, <2>7
<1> QED BY <1>1, <1>2

(* Any element may be taken out first. *)
LEMMA SumRemove ==
  ASSUME NEW c, NEW S, IsFiniteSet(S), \A s \in S : c[s] \in Nat, NEW x \in S
  PROVE  SumOf(c, S) = c[x] + SumOf(c, S \ {x}) /\ SumOf(c, S) \in Nat
<1>1. PICK it : IsSum(c, it, S) /\ \A s \in SUBSET S : it[s] = SumOf(c, s) BY SumUnfold
<1> DEFINE Good == {n \in Nat : \A s \in SUBSET S : Cardinality(s) <= n =>
                                  \A y \in s : it[s] = c[y] + it[s \ {y}]}
<1>2. \A s \in SUBSET S : IsFiniteSet(s) /\ Cardinality(s) \in Nat
  BY FS_Subset, FS_CardinalityType
<1>3. \A s \in SUBSET S : it[s] \in Nat BY <1>1 DEF IsSum, Solves
<1>4. 0 \in Good
  <2> SUFFICES ASSUME NEW s \in SUBSET S, Cardinality(s) <= 0 PROVE s = {} OBVIOUS
  <2> QED BY <1>2, FS_EmptySet
<1>5. ASSUME NEW n \in Nat, n \in Good PROVE n + 1 \in Good
  <2> SUFFICES ASSUME NEW s \in SUBSET S, Cardinality(s) <= n + 1, NEW y \in s
               PROVE it[s] = c[y] + it[s \ {y}]
    OBVIOUS
  <2> DEFINE p == Pick(s)
  <2>1. p \in s BY DEF Pick
  <2>2. it[s] = c[p] + it[s \ {p}] BY <1>1, <2>1 DEF IsSum, Solves, Plus
  <2>3. CASE p = y BY <2>2, <2>3
  <2>4. CASE p # y
    <3> HIDE DEF p
    <3>1. y \in s \ {p} /\ p \in s \ {y} BY <2>1, <2>4
    <3>2. Cardinality(s \ {p}) <= n /\ Cardinality(s \ {y}) <= n BY <1>2, <2>1, Smaller
    <3>3. it[s \ {p}] = c[y] + it[(s \ {p}) \ {y}] BY <1>5, <3>1, <3>2
    <3>4. it[s \ {y}] = c[p] + it[(s \ {y}) \ {p}] BY <1>5, <3>1, <3>2
    <3>5. (s \ {p}) \ {y} = (s \ {y}) \ {p} OBVIOUS
    <3>6. it[(s \ {p}) \ {y}] \in Nat /\ c[p] \in Nat /\ c[y] \in Nat BY <1>3, <2>1
    <3> DEFINE k == it[(s \ {p}) \ {y}]
    <3>7. it[s \ {p}] = c[y] + k /\ it[s \ {y}] = c[p] + k BY <3>3, <3>4, <3>5
    <3> HIDE DEF k
    <3>8. it[s] = c[p] + (c[y] + k) BY <2>2, <3>7 DEF p
    <3>9. k \in Nat BY <3>6 DEF k
    <3> QED BY <3>6, <3>7, <3>8, <3>9
  <2> QED BY <2>3, <2>4
<1>6. \A n \in Nat : n \in Good
  <2> HIDE DEF Good
  <2> QED BY <1>4, <1>5, SetInduction
<1>7. it[S] = c[x] + it[S \ {x}] BY <1>2, <1>6
<1> QED BY <1>1, <1>3, <1>7

(* Counts that agree on a set have the same sum over it.                   *)
LEMMA SumAgrees ==
  ASSUME NEW c, NEW d, NEW S, IsFiniteSet(S), \A s \in S : c[s] \in Nat /\ c[s] = d[s]
  PROVE  SumOf(c, S) = SumOf(d, S)
<1>1. PICK f : IsSum(c, f, S) /\ \A s \in SUBSET S : f[s] = SumOf(c, s)  BY SumUnfold
<1>2. PICK g : IsSum(d, g, S) /\ \A s \in SUBSET S : g[s] = SumOf(d, s)  BY SumUnfold
<1>3. ASSUME NEW s \in SUBSET S  PROVE Plus(d, g, s) = Plus(c, g, s)
  <2>1. s # {} => Pick(s) \in S  BY DEF Pick
  <2> QED  BY <2>1 DEF Plus
<1>4. Solves(c, f, S) /\ Solves(c, g, S)
  BY <1>1, <1>2, <1>3 DEF IsSum, Solves
<1>5. \A s \in SUBSET S : f[s] = g[s]  BY <1>4, SumUnique
<1> QED  BY <1>1, <1>2, <1>5

(* The sum over nothing.                                                   *)
LEMMA SumEmpty == ASSUME NEW c  PROVE SumOf(c, {}) = 0
<1>1. PICK it : IsSum(c, it, {}) /\ \A s \in SUBSET {} : it[s] = SumOf(c, s)
  BY SumUnfold, FS_EmptySet
<1>2. it[{}] = Plus(c, it, {})  BY <1>1 DEF IsSum, Solves
<1> QED  BY <1>1, <1>2 DEF Plus

(* Counts are others with one set.                                         *)
Puts(c, d, x) ==
  /\ IsFiniteSet(DOMAIN c) /\ DOMAIN d = DOMAIN c \cup {x}
  /\ \A k \in DOMAIN c : c[k] \in Nat
  /\ \A k \in DOMAIN c \ {x} : d[k] = c[k]
  /\ d[x] \in Nat

(* A key whose count is set, new or not, adds to the sum of the others.    *)
LEMMA SumPuts ==
  ASSUME NEW c, NEW d, NEW x, Puts(c, d, x)
  PROVE  /\ SumOf(d, DOMAIN d) = d[x] + SumOf(c, DOMAIN c \ {x})
         /\ x \in DOMAIN c => SumOf(c, DOMAIN c) = c[x] + SumOf(c, DOMAIN c \ {x})
         /\ x \notin DOMAIN c => SumOf(c, DOMAIN c) = SumOf(c, DOMAIN c \ {x})
         /\ SumOf(c, DOMAIN c \ {x}) \in Nat
<1> DEFINE R == DOMAIN c \ {x}
<1>1. IsFiniteSet(DOMAIN d) /\ IsFiniteSet(R)  BY FS_AddElement, FS_Subset DEF Puts
<1>2. \A k \in DOMAIN d : d[k] \in Nat  BY DEF Puts
<1>3. DOMAIN d \ {x} = R  BY DEF Puts
<1>4. SumOf(d, DOMAIN d) = d[x] + SumOf(d, DOMAIN d \ {x})
  <2>1. x \in DOMAIN d  BY DEF Puts
  <2> QED  BY <1>1, <1>2, <2>1, SumRemove
<1>5. SumOf(c, R) = SumOf(d, R)  BY <1>1, SumAgrees DEF Puts
<1>7. x \in DOMAIN c => SumOf(c, DOMAIN c) = c[x] + SumOf(c, R) /\ SumOf(c, DOMAIN c) \in Nat
  BY SumRemove DEF Puts
<1>8. x \notin DOMAIN c => R = DOMAIN c  OBVIOUS
<1>9. SumOf(c, R) \in Nat
  <2>1. PICK it : IsSum(c, it, R) /\ \A s \in SUBSET R : it[s] = SumOf(c, s)
    BY <1>1, SumUnfold DEF Puts
  <2> QED  BY <2>1 DEF IsSum, Solves
<1> HIDE DEF R
<1> QED  BY <1>3, <1>4, <1>5, <1>7, <1>8, <1>9 DEF R

(* A finding more in a group, old or new, is one more in the total.        *)
LEMMA TotalGrows ==
  ASSUME NEW recs, AreGroups(recs), NEW k, NEW rec,
         rec.duplicates = IF k \in DOMAIN recs THEN recs[k].duplicates + 1 ELSE 0
  PROVE  Total(With(recs, k, rec)) = Total(recs) + 1
<1> DEFINE c == Sizes(recs)
           w == With(recs, k, rec)
           d == Sizes(w)
<1>1. DOMAIN w = DOMAIN recs \cup {k} /\ w[k] = rec /\ \A l \in DOMAIN recs \ {k} : w[l] = recs[l]
  BY DEF With
<1>3. DOMAIN c = DOMAIN recs /\ \A l \in DOMAIN c : c[l] \in Nat /\ c[l] = recs[l].duplicates + 1
  BY DEF AreGroups, Sizes
<1> HIDE DEF w
<1>2. Total(recs) = SumOf(c, DOMAIN c) /\ Total(w) = SumOf(d, DOMAIN d)
  <2>1. DOMAIN c = DOMAIN recs /\ DOMAIN d = DOMAIN w  BY DEF Sizes
  <2> QED  BY <2>1 DEF Total
<1>4. DOMAIN d = DOMAIN c \cup {k} /\ d[k] = rec.duplicates + 1
      /\ \A l \in DOMAIN c \ {k} : d[l] = c[l]
  BY <1>1 DEF Sizes
<1>5. d[k] \in Nat /\ d[k] = IF k \in DOMAIN c THEN c[k] + 1 ELSE 1  BY <1>3, <1>4 DEF AreGroups
<1>6. IsFiniteSet(DOMAIN c)  BY <1>3 DEF AreGroups
<1> HIDE DEF c, d
<1>7. /\ SumOf(d, DOMAIN d) = d[k] + SumOf(c, DOMAIN c \ {k})
      /\ k \in DOMAIN c => SumOf(c, DOMAIN c) = c[k] + SumOf(c, DOMAIN c \ {k})
      /\ k \notin DOMAIN c => SumOf(c, DOMAIN c) = SumOf(c, DOMAIN c \ {k})
      /\ SumOf(c, DOMAIN c \ {k}) \in Nat
  <2>1. Puts(c, d, k)  BY <1>3, <1>4, <1>5, <1>6 DEF Puts
  <2> QED  BY <2>1, SumPuts
<1> DEFINE rest == SumOf(c, DOMAIN c \ {k})
<1>8. SumOf(d, DOMAIN d) = SumOf(c, DOMAIN c) + 1
  <2>1. CASE k \in DOMAIN c
    <3>1. c[k] \in Nat /\ d[k] = c[k] + 1 /\ rest \in Nat  BY <1>3, <1>5, <1>7, <2>1
    <3>2. SumOf(d, DOMAIN d) = d[k] + rest /\ SumOf(c, DOMAIN c) = c[k] + rest  BY <1>7, <2>1
    <3> HIDE DEF rest
    <3> QED  BY <3>1, <3>2
  <2>2. CASE k \notin DOMAIN c
    <3>1. d[k] = 1 /\ rest \in Nat  BY <1>5, <1>7, <2>2
    <3>2. SumOf(d, DOMAIN d) = d[k] + rest /\ SumOf(c, DOMAIN c) = rest  BY <1>7, <2>2
    <3> HIDE DEF rest
    <3> QED  BY <3>1, <3>2
  <2> QED  BY <2>1, <2>2
<1> QED  BY <1>2, <1>8 DEF w

(* The total is 0 where there is no group and nowhere else.                *)
LEMMA TotalZero ==
  ASSUME NEW recs, AreGroups(recs)
  PROVE  Total(recs) = 0 <=> DOMAIN recs = {}
<1> DEFINE c == Sizes(recs)
<1>0. DOMAIN c = DOMAIN recs  BY DEF Sizes
<1>1. Total(recs) = SumOf(c, DOMAIN recs)  BY DEF Total
<1>2. CASE DOMAIN recs = {}
  <2> HIDE DEF c
  <2> QED  BY <1>1, <1>2, SumEmpty
<1>3. CASE DOMAIN recs # {}
  <2>1. PICK k \in DOMAIN recs : TRUE  BY <1>3
  <2>2. \A l \in DOMAIN recs : c[l] \in Nat \ {0}  BY DEF AreGroups, Sizes
  <2>3. IsFiniteSet(DOMAIN recs) /\ IsFiniteSet(DOMAIN recs \ {k})  BY FS_Subset DEF AreGroups
  <2> HIDE DEF c
  <2>4. SumOf(c, DOMAIN recs) = c[k] + SumOf(c, DOMAIN recs \ {k})  BY <2>2, <2>3, SumRemove
  <2>5. SumOf(c, DOMAIN recs \ {k}) \in Nat
    <3>1. PICK it : /\ IsSum(c, it, DOMAIN recs \ {k})
                    /\ \A s \in SUBSET (DOMAIN recs \ {k}) : it[s] = SumOf(c, s)
      BY <2>2, <2>3, SumUnfold
    <3> QED  BY <3>1 DEF IsSum, Solves
  <2>6. c[k] \in Nat \ {0}  BY <2>2
  <2>7. SumOf(c, DOMAIN recs) # 0  BY <2>4, <2>5, <2>6
  <2> QED  BY <1>1, <1>3, <2>7
<1> QED  BY <1>2, <1>3

(* Groups that count the same have the same numbers.                       *)
LEMMA SameNumbers ==
  ASSUME NEW recs, NEW others, DOMAIN recs = DOMAIN others,
         \A k \in DOMAIN recs : recs[k].duplicates = others[k].duplicates
  PROVE  /\ Total(recs) = Total(others)
         /\ SumOf(Further(recs), DOMAIN recs) = SumOf(Further(others), DOMAIN others)
<1>1. Sizes(recs) = Sizes(others)  BY DEF Sizes
<1>2. Further(recs) = Further(others)  BY DEF Further
<1> QED  BY <1>1, <1>2 DEF Total

(* A further file of a group has the group's key and one duplicate more.   *)
LEMMA OneDuplicate ==
  ASSUME NEW recs, AreGroups(recs), NEW f
  PROVE  LET rec == IF Key(f) \in DOMAIN recs THEN Duplicate(recs[Key(f)], f) ELSE NewRecord(f)
         IN  /\ DOMAIN rec = Fields
             /\ rec.duplicates = IF Key(f) \in DOMAIN recs THEN recs[Key(f)].duplicates + 1 ELSE 0
<1> DEFINE old == recs[Key(f)]
           more == IF \/ Reproducer(f) = None \/ Len(old.seeds) >= Seeds
                      \/ \E i \in 1 .. Len(old.seeds) : old.seeds[i] = Reproducer(f)
                   THEN old.seeds ELSE Append(old.seeds, Reproducer(f))
<1>1. CASE Key(f) \in DOMAIN recs
  <2>1. DOMAIN old = Fields  BY <1>1 DEF AreGroups
  <2>2. Duplicate(old, f) = [old EXCEPT !.duplicates = old.duplicates + 1, !.seeds = more]
    BY <2>1 DEF Duplicate, Fields
  <2> HIDE DEF old, more
  <2>3. DOMAIN Duplicate(old, f) = Fields /\ Duplicate(old, f).duplicates = old.duplicates + 1
    BY <2>1, <2>2 DEF Fields
  <2> QED  BY <1>1, <2>3 DEF old
<1>2. CASE Key(f) \notin DOMAIN recs
  BY <1>2 DEF NewRecord, Fields
<1> QED  BY <1>1, <1>2

(* The files before the next one.                                          *)
LEMMA NextFile ==
  ASSUME NEW fs, DOMAIN fs = 1 .. Len(fs), Len(fs) \in Nat, NEW n \in DOMAIN fs
  PROVE  /\ ~IsStructured(fs[n]) => /\ KeysTo(fs, n + 1) = KeysTo(fs, n)
                                    /\ \A k : FilesOf(fs, n + 1, k) = FilesOf(fs, n, k)
         /\ IsStructured(fs[n]) =>
              /\ KeysTo(fs, n + 1) = KeysTo(fs, n) \cup {Key(fs[n])}
              /\ FilesOf(fs, n + 1, Key(fs[n])) = FilesOf(fs, n, Key(fs[n])) \cup {n}
              /\ \A k : k # Key(fs[n]) => FilesOf(fs, n + 1, k) = FilesOf(fs, n, k)
<1>1. \A i \in DOMAIN fs : i \in Nat /\ (i < n + 1 <=> i < n \/ i = n)  OBVIOUS
<1>2. ~(n < n)  OBVIOUS
<1> QED  BY <1>1, <1>2 DEF KeysTo, FilesOf

(* The files of a key are counted, and a key without files is not one.     *)
LEMMA FilesCounted ==
  ASSUME NEW fs, DOMAIN fs = 1 .. Len(fs), Len(fs) \in Nat, NEW n \in Nat, NEW k
  PROVE  /\ IsFiniteSet(FilesOf(fs, n, k)) /\ n \notin FilesOf(fs, n, k)
         /\ k \notin KeysTo(fs, n) => FilesOf(fs, n, k) = {}
<1>1. FilesOf(fs, n, k) \subseteq 1 .. Len(fs)  BY DEF FilesOf
<1>2. IsFiniteSet(1 .. Len(fs))  BY FS_Interval
<1>3. IsFiniteSet(FilesOf(fs, n, k))  BY <1>1, <1>2, FS_Subset
<1>4. n \notin FilesOf(fs, n, k)  BY DEF FilesOf
<1>5. k \notin KeysTo(fs, n) => FilesOf(fs, n, k) = {}  BY DEF KeysTo, FilesOf
<1> QED  BY <1>3, <1>4, <1>5

(* A finding file is counted in its group.                                 *)
LEMMA CountedGrows ==
  ASSUME NEW recs, AreGroups(recs), NEW fs, DOMAIN fs = 1 .. Len(fs), Len(fs) \in Nat,
         NEW n \in DOMAIN fs, IsStructured(fs[n]), Counted(recs, fs, n), NEW rec,
         rec = IF Key(fs[n]) \in DOMAIN recs THEN Duplicate(recs[Key(fs[n])], fs[n])
               ELSE NewRecord(fs[n])
  PROVE  /\ Counted(With(recs, Key(fs[n]), rec), fs, n + 1)
         /\ AreGroups(With(recs, Key(fs[n]), rec))
         /\ Total(With(recs, Key(fs[n]), rec)) = Total(recs) + 1
<1> DEFINE key == Key(fs[n])
           w == With(recs, key, rec)
<1>1. /\ DOMAIN rec = Fields
      /\ rec.duplicates = IF key \in DOMAIN recs THEN recs[key].duplicates + 1 ELSE 0
  BY OneDuplicate
<1>2. DOMAIN w = DOMAIN recs \cup {key} /\ w[key] = rec
      /\ \A k \in DOMAIN recs : k # key => w[k] = recs[k]
  BY DEF With
<1>3. /\ KeysTo(fs, n + 1) = KeysTo(fs, n) \cup {key}
      /\ FilesOf(fs, n + 1, key) = FilesOf(fs, n, key) \cup {n}
      /\ \A k : k # key => FilesOf(fs, n + 1, k) = FilesOf(fs, n, k)
  BY NextFile
<1>4. n \in Nat  OBVIOUS
<1>5. /\ IsFiniteSet(FilesOf(fs, n, key)) /\ n \notin FilesOf(fs, n, key)
      /\ key \notin KeysTo(fs, n) => FilesOf(fs, n, key) = {}
  BY <1>4, FilesCounted
<1>6. Total(w) = Total(recs) + 1  BY <1>1, TotalGrows
<1> HIDE DEF key, w
<1>7. AreGroups(w)
  <2>1. IsFiniteSet(DOMAIN w)  BY <1>2, FS_AddElement DEF AreGroups
  <2>2. rec.duplicates \in Nat  BY <1>1 DEF AreGroups
  <2> QED  BY <1>1, <1>2, <2>1, <2>2 DEF AreGroups
<1>8. Cardinality(FilesOf(fs, n + 1, key)) = Cardinality(FilesOf(fs, n, key)) + 1
      /\ Cardinality(FilesOf(fs, n, key)) \in Nat
  BY <1>3, <1>5, FS_AddElement, FS_CardinalityType
<1>9. CountsFiles(w, key, fs, n + 1)
  <2>1. CASE key \in DOMAIN recs
    BY <1>1, <1>2, <1>8, <2>1 DEF CountsFiles, Counted, AreGroups
  <2>2. CASE key \notin DOMAIN recs
    <3>1. Cardinality(FilesOf(fs, n, key)) = 0  BY <1>5, <2>2, FS_EmptySet DEF Counted
    <3> QED  BY <1>1, <1>2, <1>8, <2>2, <3>1 DEF CountsFiles
  <2> QED  BY <2>1, <2>2
<1>10. \A k \in DOMAIN recs : k # key => CountsFiles(w, k, fs, n + 1)
  BY <1>2, <1>3 DEF CountsFiles, Counted
<1>11. Counted(w, fs, n + 1)
  BY <1>2, <1>3, <1>9, <1>10 DEF Counted
<1> QED  BY <1>6, <1>7, <1>11 DEF w, key

(* A group that is loaded is the one in the file of its name.              *)
LEMMA ReadableIs ==
  ASSUME FilesAreGroups(stored)
  PROVE  /\ DOMAIN Readable = StoredKeys /\ AreGroups(Readable)
         /\ Names(StoredKeys) = DOMAIN stored \ torn
         /\ \A k \in StoredKeys : /\ SafeKey(k) \in DOMAIN stored \ torn
                                  /\ stored[SafeKey(k)].key = k
                                  /\ Readable[k] = stored[SafeKey(k)].record
<1>1. DOMAIN Readable = StoredKeys /\ \A k \in StoredKeys : Readable[k] = stored[SafeKey(k)].record
  BY DEF Readable
<1>2. \A k \in StoredKeys : SafeKey(k) \in DOMAIN stored \ torn /\ stored[SafeKey(k)].key = k
  BY DEF StoredKeys, FilesAreGroups
<1>3. Names(StoredKeys) = DOMAIN stored \ torn
  <2>1. \A name \in DOMAIN stored \ torn : stored[name].key \in StoredKeys
    BY DEF StoredKeys
  <2>2. \A name \in DOMAIN stored \ torn : SafeKey(stored[name].key) = name
    BY DEF FilesAreGroups
  <2> QED  BY <1>2, <2>1, <2>2 DEF Names
<1>4. AreGroups(Readable)
  <2>1. IsFiniteSet(DOMAIN stored \ torn)  BY FS_Subset DEF FilesAreGroups
  <2>2. IsFiniteSet(StoredKeys)
    <3> DEFINE names == DOMAIN stored \ torn
               keyOf == [name \in names |-> stored[name].key]
    <3>1. /\ keyOf \in [names -> StoredKeys]
          /\ \A k \in StoredKeys : \E name \in names : keyOf[name] = k
      BY DEF StoredKeys
    <3>2. IsFiniteSet(names)  BY <2>1
    <3> HIDE DEF names, keyOf
    <3>3. keyOf \in Surjection(names, StoredKeys)  BY <3>1 DEF Surjection
    <3> QED  BY <3>2, <3>3, FS_Surjection
  <2>3. \A k \in StoredKeys : DOMAIN Readable[k] = Fields /\ Readable[k].duplicates \in Nat
    BY <1>1, <1>2 DEF FilesAreGroups
  <2> QED  BY <1>1, <2>2, <2>3 DEF AreGroups
<1> QED  BY <1>1, <1>2, <1>3, <1>4

(* A run directory whose findings were not reported is empty.              *)
LEMMA KeepInit == Init => KeepInv
<1> SUFFICES ASSUME Init  PROVE KeepInv  OBVIOUS
<1>1. records = <<>> /\ stored = <<>> /\ torn = {} /\ phase = "idle" /\ report = None
  BY DEF Init
<1>2. DOMAIN records = {} /\ DOMAIN stored = {}  BY <1>1
<1>3. AreGroups(records) /\ FilesAreGroups(stored)
  BY <1>2, FS_EmptySet DEF AreGroups, FilesAreGroups
<1>4. MemoryCounts  BY <1>1 DEF MemoryCounts
<1>5. DiskCounts  BY <1>1, <1>2 DEF DiskCounts
<1>6. ReportTells  BY <1>1 DEF ReportTells
<1> QED  BY <1>3, <1>4, <1>5, <1>6 DEF KeepInv

(* What is on disk stays right while nothing there changes.                *)
LEMMA DiskUntouched ==
  ASSUME KeepInv, UNCHANGED <<files, stored, torn, shrunk, report>>
  PROVE  /\ FilesAreGroups(stored)' /\ DiskCounts' /\ ReportTells'
         /\ Readable' = Readable /\ AllKeys' = AllKeys /\ Beyond' = Beyond
<1>1. Minimized' = Minimized  BY DEF Minimized, Loaded, Left
<1>2. AllKeys' = AllKeys /\ Beyond' = Beyond  BY DEF AllKeys, Beyond
<1>3. DiskCounts'  BY <1>2 DEF KeepInv, DiskCounts
<1>4. Readable' = Readable  BY DEF Readable, StoredKeys
<1>5. ReportTells'  BY <1>1, <1>2, <1>4 DEF KeepInv, ReportTells
<1> QED  BY <1>2, <1>3, <1>4, <1>5 DEF KeepInv

(* A minimized input that was there is there while the files are.          *)
LEMMA MinimizedStays ==
  ASSUME files' = files, NEW f, ~Loaded(f), NEW left, shrunk' = With(shrunk, f.name, left)
  PROVE  Minimized \subseteq Minimized'
<1>1. \A g : Loaded(g) => Loaded(g)'
  <2> SUFFICES ASSUME NEW g, Loaded(g)  PROVE Loaded(g)'  OBVIOUS
  <2>1. g.name # f.name  BY DEF Loaded, Left
  <2>2. g.name \in DOMAIN shrunk' <=> g.name \in DOMAIN shrunk  BY <2>1 DEF With
  <2>3. g.name \in DOMAIN shrunk => shrunk'[g.name] = shrunk[g.name]  BY <2>1 DEF With
  <2> QED  BY <2>2, <2>3 DEF Loaded, Left
<1> QED  BY <1>1 DEF Minimized

(* The steps before pass 1 and those that change nothing of the counts.    *)
LEMMA BeginKeeps == ReportInv /\ KeepInv /\ (Begin \/ ReplayCorpus) => KeepInv'
<1> SUFFICES ASSUME ReportInv, KeepInv, Begin \/ ReplayCorpus  PROVE KeepInv'  OBVIOUS
<1>1. /\ phase \in {"idle", "corpus"} /\ phase' \in {"corpus", "collect"}
      /\ UNCHANGED <<files, stored, torn, shrunk, report, at, raw, records>>
  BY DEF Begin, ReplayCorpus
<1>2. at = 1 /\ raw = 0 /\ records = <<>>  BY <1>1 DEF ReportInv, WhereItIs
<1>3. DOMAIN records = {} /\ DOMAIN records' = {}  BY <1>1, <1>2
<1>4. AreGroups(records)'  BY <1>3, FS_EmptySet DEF AreGroups
<1>5. Total(records) = 0  BY <1>3, TotalZero DEF KeepInv
<1>6. DOMAIN files = 1 .. Len(files) /\ Len(files) \in Nat  BY FilesAreOneMode DEF ReportInv
<1>7. KeysTo(files, 1) = {}
  <2>1. \A i \in DOMAIN files : ~(i < 1)  BY <1>6
  <2> QED  BY <2>1 DEF KeysTo
<1>8. Counted(records, files, at)  BY <1>2, <1>3, <1>7 DEF Counted
<1>9. MemoryCounts'
  <2>1. Counted(records, files, at)' /\ (raw = Total(records))' /\ (at <= Len(files) + 1)'
    BY <1>1, <1>2, <1>5, <1>6, <1>8
  <2> QED  BY <1>1, <2>1 DEF MemoryCounts
<1> QED  BY <1>1, <1>4, <1>9, DiskUntouched DEF KeepInv

(* The reducer leaves a minimized input that was there.                    *)
LEMMA ReduceKeeps == KeepInv /\ Reduce => KeepInv'
<1> SUFFICES ASSUME KeepInv, Reduce  PROVE KeepInv'  OBVIOUS
<1>1. UNCHANGED <<files, stored, torn, report, phase, at, raw, records>>  BY DEF Reduce
<1>2. PICK left : shrunk' = With(shrunk, files[at].name, left)  BY DEF Reduce
<1>3. ~Loaded(files[at])  BY DEF Reduce, Reducible
<1>4. Minimized \subseteq Minimized'  BY <1>1, <1>2, <1>3, MinimizedStays
<1>5. AreGroups(records)' /\ FilesAreGroups(stored)'  BY <1>1 DEF KeepInv
<1>9. AllKeys' = AllKeys /\ Beyond' = Beyond /\ Readable' = Readable
  BY <1>1 DEF AllKeys, Beyond, Readable, StoredKeys
<1>6. MemoryCounts'  BY <1>1, <1>9 DEF KeepInv, MemoryCounts, Keys, Reduce
<1>7. DiskCounts'  BY <1>1, <1>9 DEF KeepInv, DiskCounts
<1>8. ReportTells'  BY <1>1, <1>4, <1>9 DEF KeepInv, ReportTells
<1> QED  BY <1>5, <1>6, <1>7, <1>8 DEF KeepInv

(* Pass 1 counts a file in its group.                                      *)
LEMMA CollectCounts == ReportInv /\ KeepInv /\ Collect => KeepInv'
<1> SUFFICES ASSUME ReportInv, KeepInv, Collect  PROVE KeepInv'  OBVIOUS
<1>1. /\ phase = "collect" /\ phase' = "collect" /\ at \in DOMAIN files /\ at' = at + 1
      /\ UNCHANGED <<files, stored, torn, shrunk, report>>
  BY DEF Collect
<1>2. DOMAIN files = 1 .. Len(files) /\ Len(files) \in Nat  BY FilesAreOneMode DEF ReportInv
<1>3. AreGroups(records) /\ Counted(records, files, at) /\ raw = Total(records)
  BY <1>1 DEF KeepInv, MemoryCounts
<1>4. (at <= Len(files) + 1)'  BY <1>1, <1>2
<1>5. Counted(records, files, at)' /\ (raw = Total(records))' /\ AreGroups(records)'
  <2>1. CASE ~IsStructured(files[at])
    <3>1. UNCHANGED <<raw, records>>  BY <2>1 DEF Collect
    <3>2. /\ KeysTo(files, at + 1) = KeysTo(files, at)
          /\ \A k : FilesOf(files, at + 1, k) = FilesOf(files, at, k)
      BY <1>1, <1>2, <2>1, NextFile
    <3>3. Counted(records, files, at + 1)  BY <1>3, <3>2 DEF Counted, CountsFiles
    <3> QED  BY <1>1, <1>3, <3>1, <3>3
  <2>2. CASE IsStructured(files[at])
    <3> DEFINE key == Key(files[at])
               rec == IF key \in DOMAIN records THEN Duplicate(records[key], files[at])
                      ELSE NewRecord(files[at])
    <3>1. raw' = raw + 1 /\ records' = With(records, key, rec)
      BY <2>2 DEF Collect, AddFinding, Keys
    <3>2. /\ Counted(With(records, key, rec), files, at + 1)
          /\ AreGroups(With(records, key, rec))
          /\ Total(With(records, key, rec)) = Total(records) + 1
      BY <1>1, <1>2, <1>3, <2>2, CountedGrows
    <3> HIDE DEF rec, key
    <3> QED  BY <1>1, <1>3, <3>1, <3>2
  <2> QED  BY <2>1, <2>2
<1>6. MemoryCounts'  BY <1>1, <1>4, <1>5 DEF MemoryCounts
<1> QED  BY <1>1, <1>5, <1>6, DiskUntouched DEF KeepInv

(* Stored groups are loaded where no file counts.                          *)
LEMMA LoadCounts == ReportInv /\ KeepInv /\ LoadStored => KeepInv'
<1> SUFFICES ASSUME ReportInv, KeepInv, LoadStored  PROVE KeepInv'  OBVIOUS
<1>1. /\ phase = "collect" /\ phase' = "replay" /\ at \notin DOMAIN files
      /\ UNCHANGED <<files, stored, torn, shrunk, report>>
  BY DEF LoadStored
<1>2. DOMAIN files = 1 .. Len(files) /\ Len(files) \in Nat  BY FilesAreOneMode DEF ReportInv
<1>3. /\ AreGroups(records) /\ Counted(records, files, at) /\ raw = Total(records)
      /\ at <= Len(files) + 1 /\ at \in Nat \ {0}
  BY <1>1 DEF KeepInv, MemoryCounts, ReportInv, WhereItIs
<1>4. at = Len(files) + 1  BY <1>1, <1>2, <1>3
<1>5. CASE raw = 0
  <2>1. records' = Readable /\ raw' = Total(records')  BY <1>5 DEF LoadStored
  <2>2. DOMAIN records = {} /\ KeysTo(files, at) = {}  BY <1>3, <1>5, TotalZero DEF Counted
  <2>3. AreGroups(records)'  BY <2>1, ReadableIs DEF KeepInv
  <2>4. ASSUME files # <<>>  PROVE Counted(records, files, Len(files) + 1)'
    <3>1. DOMAIN stored = {}  BY <1>4, <2>2, <2>4 DEF KeepInv, DiskCounts, AllKeys, Beyond
    <3>2. DOMAIN records' = {}  BY <2>1, <3>1 DEF Readable, StoredKeys
    <3> QED  BY <1>1, <1>4, <2>2, <3>2 DEF Counted
  <2>5. SameGroups(records, Readable)'
    <3>1. SameGroups(Readable, Readable)  BY DEF SameGroups
    <3> QED  BY <1>1, <2>1, <3>1, DiskUntouched
  <2>6. MemoryCounts'  BY <1>1, <2>1, <2>4, <2>5 DEF MemoryCounts, Beyond
  <2> QED  BY <1>1, <2>3, <2>6, DiskUntouched DEF KeepInv
<1>6. CASE raw # 0
  <2>1. UNCHANGED <<records, raw>>  BY <1>6 DEF LoadStored
  <2>2. files # <<>>
    <3>1. SUFFICES ASSUME files = <<>>  PROVE FALSE  OBVIOUS
    <3>2. DOMAIN files = {}  BY <3>1
    <3>3. DOMAIN records = {}  BY <1>3, <3>2 DEF Counted, KeysTo
    <3> QED  BY <1>3, <1>6, <3>3, TotalZero
  <2>3. AreGroups(records)' /\ (raw = Total(records))' /\ Counted(records, files, Len(files) + 1)'
    BY <1>1, <1>3, <1>4, <2>1
  <2>4. MemoryCounts'  BY <1>1, <2>2, <2>3 DEF MemoryCounts, Beyond
  <2> QED  BY <1>1, <2>3, <2>4, DiskUntouched DEF KeepInv
<1> QED  BY <1>5, <1>6

(* A status of a group that was not replayed changes no count.             *)
LEMMA StatusCounts ==
  ASSUME KeepInv, phase = "replay", phase' = "replay", raw' = raw,
         UNCHANGED <<files, stored, torn, shrunk, report>>,
         NEW k \in Unchecked, NEW v, records' = [records EXCEPT ![k].status = v]
  PROVE  KeepInv'
<1>1. k \in DOMAIN records /\ records[k].status = "unchecked"  BY DEF Unchecked, Keys
<1>2. AreGroups(records)  BY DEF KeepInv
<1> DEFINE rec == [records[k] EXCEPT !.status = v]
<1>3. DOMAIN rec = Fields /\ rec.duplicates = records[k].duplicates
  BY <1>1, <1>2 DEF AreGroups, Fields
<1>4. /\ DOMAIN records' = DOMAIN records /\ records'[k] = rec
      /\ \A l \in DOMAIN records : l # k => records'[l] = records[l]
  BY <1>1
<1> HIDE DEF rec
<1>5. \A l \in DOMAIN records : records'[l].duplicates = records[l].duplicates
  BY <1>3, <1>4
<1>6. AreGroups(records)'  BY <1>2, <1>3, <1>4 DEF AreGroups
<1>7. Total(records') = Total(records)  BY <1>4, <1>5, SameNumbers
<1>8. \A fs, n : Counted(records, fs, n) => Counted(records', fs, n)
  BY <1>4, <1>5 DEF Counted, CountsFiles
<1>9. SameGroups(records, Readable) => SameGroups(records', Readable)
  <2> SUFFICES ASSUME SameGroups(records, Readable)  PROVE SameGroups(records', Readable)
    OBVIOUS
  <2>1. Readable[k].status # "confirmed"  BY <1>1 DEF SameGroups
  <2>2. \A l \in DOMAIN records : Readable[l].status = "confirmed" => records'[l].status = "confirmed"
    BY <1>4, <2>1 DEF SameGroups
  <2> QED  BY <1>4, <1>5, <2>2 DEF SameGroups
<1>11. Readable' = Readable /\ Beyond' = Beyond  BY DiskUntouched
<1>10. MemoryCounts'  BY <1>7, <1>8, <1>9, <1>11 DEF KeepInv, MemoryCounts
<1> QED  BY <1>6, <1>10, DiskUntouched DEF KeepInv

(* A group is stored in the file of its name.                              *)
LEMMA StoreCounts ==
  ASSUME KeepInv, phase = "persist", NEW k \in Keys, UNCHANGED <<files, report, shrunk>>,
         stored' = With(stored, SafeKey(k), [key |-> k, record |-> records[k]]),
         torn' = torn \ {SafeKey(k)}
  PROVE  /\ FilesAreGroups(stored)' /\ DiskCounts' /\ ReportTells'
         /\ DOMAIN stored' = DOMAIN stored \cup {SafeKey(k)}
         /\ files = <<>> => /\ SameGroups(records, Readable')
                            /\ \A name \in DOMAIN stored \ torn :
                                 stored[name].record.status = "confirmed" =>
                                   stored'[name].record.status = "confirmed"
<1> DEFINE new == [key |-> k, record |-> records[k]]
           n == SafeKey(k)
<1>1. /\ DOMAIN stored' = DOMAIN stored \cup {n} /\ stored'[n] = new
      /\ \A name \in DOMAIN stored : name # n => stored'[name] = stored[name]
      /\ new.key = k /\ new.record = records[k]
  BY DEF With
<1>2. k \in DOMAIN records /\ AreGroups(records) /\ FilesAreGroups(stored)
  BY DEF KeepInv, Keys
<1> HIDE DEF new
<1>3. DOMAIN records[k] = Fields /\ records[k].duplicates \in Nat  BY <1>2 DEF AreGroups
<1>4. FilesAreGroups(stored)'
  <2>1. IsFiniteSet(DOMAIN stored \cup {n})  BY <1>2, FS_AddElement DEF FilesAreGroups
  <2> QED  BY <1>1, <1>2, <1>3, <2>1 DEF FilesAreGroups
<1>5. AllKeys' = AllKeys /\ Beyond' = Beyond /\ Minimized' = Minimized
  BY DEF AllKeys, Beyond, Minimized, Loaded, Left
<1>6. CASE files # <<>>
  <2>1. k \in AllKeys /\ records[k].duplicates + 1 = Cardinality(FilesOf(files, Beyond, k))
    BY <1>2, <1>6 DEF KeepInv, MemoryCounts, Counted, CountsFiles, AllKeys
  <2>2. DiskCounts'  BY <1>1, <1>5, <2>1 DEF KeepInv, DiskCounts
  <2>3. ReportTells'  BY <1>5, <1>6 DEF KeepInv, ReportTells
  <2> QED  BY <1>1, <1>4, <1>6, <2>2, <2>3
<1>7. CASE files = <<>>
  <2>1. SameGroups(records, Readable)  BY <1>7 DEF KeepInv, MemoryCounts
  <2>2. k \in StoredKeys  BY <1>2, <2>1, ReadableIs DEF SameGroups
  <2>3. n \in DOMAIN stored \ torn /\ stored[n].key = k  BY <1>2, <2>2, ReadableIs
  <2>4. DOMAIN stored' = DOMAIN stored /\ torn' = torn  BY <1>1, <2>3
  <2>5. StoredKeys' = StoredKeys
    <3>1. \A name \in DOMAIN stored : stored'[name].key = stored[name].key  BY <1>1, <2>3
    <3> QED  BY <2>4, <3>1 DEF StoredKeys
  <2>6. /\ DOMAIN Readable' = DOMAIN Readable
        /\ \A l \in DOMAIN Readable :
             /\ Readable'[l] = Readable[l] \/ (l = k /\ Readable'[l] = records[k])
    <3>1. DOMAIN Readable = StoredKeys /\ DOMAIN Readable' = StoredKeys'  BY DEF Readable
    <3>2. \A l \in StoredKeys : /\ Readable[l] = stored[SafeKey(l)].record
                                /\ Readable'[l] = stored'[SafeKey(l)].record
      BY <2>5 DEF Readable
    <3>3. \A l \in StoredKeys : SafeKey(l) \in DOMAIN stored /\ (SafeKey(l) = n => l = k)
      BY <1>2, <2>3, ReadableIs
    <3> QED  BY <1>1, <2>5, <3>1, <3>2, <3>3
  <2>7. SameGroups(records, Readable')  BY <2>1, <2>6 DEF SameGroups
  <2>8. DOMAIN Readable' = DOMAIN Readable
        /\ \A l \in DOMAIN Readable : Readable'[l].duplicates = Readable[l].duplicates
    BY <2>1, <2>6 DEF SameGroups
  <2>9. DiskCounts'  BY <1>7 DEF DiskCounts
  <2>10. ReportTells'
    <3>1. Total(Readable') = Total(Readable)
          /\ SumOf(Further(Readable'), DOMAIN Readable') = SumOf(Further(Readable), DOMAIN Readable)
      BY <2>8, SameNumbers
    <3>2. report # None /\ torn' = {} => LeftOf(report, Readable)
      BY <1>7, <2>4 DEF KeepInv, ReportTells
    <3>3. report # None /\ torn' = {} => LeftOf(report, Readable')
      BY <2>8, <3>1, <3>2 DEF LeftOf, Tells
    <3> QED  BY <1>7, <3>3 DEF ReportTells
  <2>11. \A name \in DOMAIN stored \ torn :
           stored[name].record.status = "confirmed" => stored'[name].record.status = "confirmed"
    <3>1. Readable[k] = stored[n].record  BY <1>2, <2>2, ReadableIs
    <3>2. stored[n].record.status = "confirmed" => records[k].status = "confirmed"
      BY <1>2, <2>1, <3>1 DEF SameGroups
    <3> QED  BY <1>1, <3>2
  <2> QED  BY <1>1, <1>4, <1>7, <2>7, <2>9, <2>10, <2>11
<1> QED  BY <1>6, <1>7

(* The numbers of a report that is written.                                *)
LEMMA ReportFields ==
  ASSUME WriteReport
  PROVE  /\ report'.raw = raw /\ report'.groups = Keys
         /\ report'.duplicates = Duplicates /\ report'.minimized = Minimized
<1> DEFINE says(t) == Final(Refine(EvidenceStatus({GroupEvidence(k) : k \in t}
                                                   \cup CorpusEvidence \cup FindingFiles)))
           min == {files[i].name : i \in {j \in DOMAIN files :
                                            IsStructured(files[j]) /\ Loaded(files[j])}}
<1>1. \E t \in Shown :
        report' = [status |-> says(t), minimized |-> min, raw |-> raw,
                   groups |-> Keys, duplicates |-> Duplicates,
                   confirmed |-> Count("confirmed"), unstable |-> Count("unstable"),
                   unchecked |-> Count("unchecked")]
  BY DEF WriteReport
<1>2. min = Minimized  BY DEF Minimized
<1> HIDE DEF says, min
<1> QED  BY <1>1, <1>2

(* A reporter without memory counts nothing.                               *)
LEMMA ForgottenCounts ==
  ASSUME Gone, phase' = "idle"
  PROVE  AreGroups(records)' /\ MemoryCounts'
<1>1. DOMAIN records' = {}  BY DEF Gone
<1>2. AreGroups(records)'  BY <1>1, FS_EmptySet DEF AreGroups
<1> QED  BY <1>2 DEF MemoryCounts

(* A report that is written tells what was counted.                        *)
LEMMA WriteKeeps == KeepInv /\ WriteReport => KeepInv'
<1> SUFFICES ASSUME KeepInv, WriteReport  PROVE KeepInv'  OBVIOUS
<1>1. /\ phase = "persist" /\ todo = {} /\ phase' = "idle" /\ Gone
      /\ UNCHANGED <<files, stored, torn, shrunk>>
  BY DEF WriteReport
<1>2. AreGroups(records)' /\ MemoryCounts'  BY <1>1, ForgottenCounts
<1>3. FilesAreGroups(stored)'  BY <1>1 DEF KeepInv
<1>4. /\ AllKeys' = AllKeys /\ Beyond' = Beyond /\ Minimized' = Minimized /\ Readable' = Readable
  BY <1>1 DEF AllKeys, Beyond, Minimized, Loaded, Left, Readable, StoredKeys
<1>5. Tells(report', records)
  <2>1. raw = Total(records)  BY <1>1 DEF KeepInv, MemoryCounts
  <2> QED  BY <2>1, ReportFields DEF Tells, Duplicates, Keys
<1>6. CASE files # <<>>
  <2>1. Counted(records, files, Beyond) /\ Names(Keys) \subseteq DOMAIN stored
    BY <1>1, <1>6 DEF KeepInv, MemoryCounts, Names
  <2>2. Keys = AllKeys  BY <2>1 DEF Counted, Keys, AllKeys
  <2>3. DiskCounts'  BY <1>1, <1>4, <1>6, <2>1, <2>2 DEF KeepInv, DiskCounts
  <2>4. AreGroups(records)  BY DEF KeepInv
  <2>5. \E recs : AreGroups(recs) /\ Counted(recs, files, Beyond) /\ Tells(report', recs)
    BY <1>5, <2>1, <2>4
  <2>6. ReportTells'  BY <1>1, <1>4, <1>6, <2>2, <2>5, ReportFields DEF ReportTells
  <2> QED  BY <1>2, <1>3, <2>3, <2>6 DEF KeepInv
<1>7. CASE files = <<>>
  <2>1. SameGroups(records, Readable)  BY <1>1, <1>7 DEF KeepInv, MemoryCounts
  <2>2. DOMAIN Readable = Keys  BY <2>1 DEF SameGroups, Keys
  <2>3. Tells(report', Readable)
    BY <1>5, <2>1, SameNumbers DEF SameGroups, Tells
  <2>4. LeftOf(report', Readable)  BY <2>2, <2>3, ReportFields DEF LeftOf
  <2>5. ReportTells'  BY <1>1, <1>4, <1>7, <2>4 DEF ReportTells
  <2>6. DiskCounts'  BY <1>1, <1>7 DEF DiskCounts
  <2> QED  BY <1>2, <1>3, <2>5, <2>6 DEF KeepInv
<1> QED  BY <1>6, <1>7

(* A kill tears at most the file of one group.                             *)
LEMMA KillTears == Kill => UNCHANGED <<files, stored, report>> /\ torn \subseteq torn'
BY DEF Kill

(* Wherever a reporter is killed, what is on disk counts the same.         *)
LEMMA KillKeeps == KeepInv /\ Kill => KeepInv'
<1> SUFFICES ASSUME KeepInv, Kill  PROVE KeepInv'  OBVIOUS
<1>1. phase' = "idle" /\ Gone  BY DEF Kill
<1>2. AreGroups(records)' /\ MemoryCounts'  BY <1>1, ForgottenCounts
<1>3. Minimized \subseteq Minimized'
  <2>1. CASE shrunk' = shrunk  BY <2>1, KillTears DEF Minimized, Loaded, Left
  <2>2. CASE shrunk' # shrunk
    <3>1. PICK left : shrunk' = With(shrunk, files[at].name, left)  BY <2>2 DEF Kill
    <3>2. ~Loaded(files[at])  BY <2>2 DEF Kill, Reducible
    <3> QED  BY <3>1, <3>2, KillTears, MinimizedStays
  <2> QED  BY <2>1, <2>2
<1>4. FilesAreGroups(stored)'  BY KillTears DEF KeepInv
<1>5. AllKeys' = AllKeys /\ Beyond' = Beyond  BY KillTears DEF AllKeys, Beyond
<1>6. DiskCounts'  BY <1>5, KillTears DEF KeepInv, DiskCounts
<1>7. torn' = {} => torn = {} /\ Readable' = Readable
  BY KillTears DEF Readable, StoredKeys
<1>8. ReportTells'  BY <1>3, <1>5, <1>7, KillTears DEF KeepInv, ReportTells
<1> QED  BY <1>2, <1>4, <1>6, <1>8 DEF KeepInv

(* Every step of a report keeps the counts.                                *)
LEMMA KeepStep == ReportInv /\ KeepInv /\ Next => KeepInv'
<1> SUFFICES ASSUME ReportInv, KeepInv, Next  PROVE KeepInv'  OBVIOUS
<1>1. CASE Begin \/ ReplayCorpus  BY <1>1, BeginKeeps
<1>2. CASE Reduce  BY <1>2, ReduceKeeps
<1>3. CASE Collect  BY <1>3, CollectCounts
<1>4. CASE LoadStored  BY <1>4, LoadCounts
<1>5. CASE Replay
  <2>1. /\ phase = "replay" /\ phase' = "replay" /\ raw' = raw
        /\ UNCHANGED <<files, stored, torn, shrunk, report>>
    BY <1>5 DEF Replay
  <2>2. PICK k \in Unchecked, o \in Outcomes :
          records' = [records EXCEPT ![k].status = Outcome(records[k], o)]
    BY <1>5 DEF Replay
  <2> QED  BY <2>1, <2>2, StatusCounts
<1>6. CASE Attest
  <2>1. /\ phase = "replay" /\ phase' = "replay" /\ raw' = raw
        /\ UNCHANGED <<files, stored, torn, shrunk, report>>
    BY <1>6 DEF Attest
  <2>2. PICK k \in Unchecked : records' = [records EXCEPT ![k].status = "confirmed"]
    BY <1>6 DEF Attest
  <2> QED  BY <2>1, <2>2, StatusCounts
<1>7. CASE Replayed
  <2>1. /\ phase = "replay" /\ phase' = "persist" /\ todo' = Keys
        /\ UNCHANGED <<files, stored, torn, shrunk, report, raw, records>>
    BY <1>7 DEF Replayed
  <2>4. Keys' = Keys /\ Names({}) = {}  BY <2>1 DEF Keys, Names
  <2>2. MemoryCounts'  BY <2>1, <2>4, DiskUntouched DEF KeepInv, MemoryCounts
  <2>3. AreGroups(records)'  BY <2>1 DEF KeepInv
  <2> QED  BY <2>1, <2>2, <2>3, DiskUntouched DEF KeepInv
<1>8. CASE Persist
  <2>1. /\ phase = "persist" /\ phase' = "persist"
        /\ UNCHANGED <<files, report, shrunk, raw, records>>
    BY <1>8 DEF Persist
  <2>2. PICK k \in todo : /\ stored' = With(stored, SafeKey(k), [key |-> k, record |-> records[k]])
                          /\ torn' = torn \ {SafeKey(k)}
                          /\ todo' = todo \ {k}
    BY <1>8 DEF Persist
  <2>3. todo \subseteq Keys /\ k \in Keys  BY <2>1 DEF KeepInv, MemoryCounts
  <2>4. /\ FilesAreGroups(stored)' /\ DiskCounts' /\ ReportTells'
        /\ DOMAIN stored' = DOMAIN stored \cup {SafeKey(k)}
        /\ files = <<>> => SameGroups(records, Readable')
    BY <2>1, <2>2, <2>3, StoreCounts
  <2>5. Keys' = Keys /\ Beyond' = Beyond  BY <2>1 DEF Keys, Beyond
  <2>6. files # <<>> => Names(Keys \ todo') \subseteq DOMAIN stored'
    BY <2>1, <2>2, <2>4 DEF KeepInv, MemoryCounts, Names
  <2>7. MemoryCounts'
    BY <2>1, <2>2, <2>3, <2>4, <2>5, <2>6 DEF KeepInv, MemoryCounts
  <2>8. AreGroups(records)'  BY <2>1 DEF KeepInv
  <2> QED  BY <2>4, <2>7, <2>8 DEF KeepInv
<1>9. CASE WriteReport  BY <1>9, WriteKeeps
<1>10. CASE Kill  BY <1>10, KillKeeps
<1>11. CASE Clean
  <2>1. /\ phase = "idle" /\ files' = <<>>
        /\ UNCHANGED <<stored, torn, phase, records, report>>
    BY <1>11 DEF Clean
  <2>2. MemoryCounts' /\ DiskCounts'  BY <2>1 DEF MemoryCounts, DiskCounts
  <2>3. Readable' = Readable  BY <2>1 DEF Readable, StoredKeys
  <2>4. ASSUME report # None, torn = {}, files # <<>>  PROVE LeftOf(report, Readable)
    <3>1. report.groups = AllKeys  BY <2>4 DEF KeepInv, ReportTells
    <3>2. PICK recs : AreGroups(recs) /\ Counted(recs, files, Beyond) /\ Tells(report, recs)
      BY <2>4 DEF KeepInv, ReportTells
    <3>3. /\ \A name \in DOMAIN stored :
               /\ stored[name].key \in AllKeys
               /\ stored[name].record.duplicates + 1
                    = Cardinality(FilesOf(files, Beyond, stored[name].key))
          /\ Names(AllKeys) \subseteq DOMAIN stored
      BY <2>4 DEF KeepInv, DiskCounts
    <3>4. /\ DOMAIN Readable = StoredKeys /\ AreGroups(Readable) /\ Names(StoredKeys) = DOMAIN stored
          /\ \A k \in StoredKeys : /\ SafeKey(k) \in DOMAIN stored /\ stored[SafeKey(k)].key = k
                                   /\ Readable[k] = stored[SafeKey(k)].record
      BY <2>4, ReadableIs DEF KeepInv
    <3>5. StoredKeys \subseteq AllKeys  BY <3>3, <3>4
    <3>6. Names(StoredKeys) = Names(AllKeys)  BY <3>3, <3>4, <3>5 DEF Names
    <3>7. ASSUME NamesDiffer(AllKeys)  PROVE Tells(report, Readable)
      <4>1. AllKeys \subseteq StoredKeys
        <5> SUFFICES ASSUME NEW k \in AllKeys  PROVE k \in StoredKeys  OBVIOUS
        <5>1. PICK l \in StoredKeys : SafeKey(l) = SafeKey(k)  BY <3>6 DEF Names
        <5> QED  BY <3>5, <3>7, <5>1 DEF NamesDiffer
      <4>2. DOMAIN recs = AllKeys  BY <3>2 DEF Counted, AllKeys
      <4>3. \A k \in AllKeys : recs[k].duplicates = Readable[k].duplicates
        <5> SUFFICES ASSUME NEW k \in AllKeys  PROVE recs[k].duplicates = Readable[k].duplicates
          OBVIOUS
        <5>1. recs[k].duplicates \in Nat /\ Readable[k].duplicates \in Nat
          BY <3>2, <3>4, <4>1, <4>2 DEF AreGroups
        <5>2. recs[k].duplicates + 1 = Cardinality(FilesOf(files, Beyond, k))
          BY <3>2, <4>2 DEF Counted, CountsFiles
        <5>3. Readable[k].duplicates + 1 = Cardinality(FilesOf(files, Beyond, k))
          BY <3>3, <3>4, <4>1
        <5> QED  BY <5>1, <5>2, <5>3
      <4> QED  BY <3>2, <3>4, <3>5, <4>1, <4>2, <4>3, SameNumbers DEF Tells
    <3> QED  BY <3>1, <3>4, <3>5, <3>6, <3>7 DEF LeftOf
  <2>5. ReportTells'
    <3>1. report # None /\ torn = {} => LeftOf(report, Readable)
      BY <2>4 DEF KeepInv, ReportTells
    <3> QED  BY <2>1, <2>3, <3>1 DEF ReportTells
  <2> QED  BY <2>1, <2>2, <2>5 DEF KeepInv
<1>12. CASE Rest
  <2>1. UNCHANGED vars  BY <1>12 DEF Rest
  <2>2. UNCHANGED <<files, stored, torn, shrunk, report, phase, at, raw, records, todo>>
    BY <2>1 DEF vars
  <2>3. MemoryCounts' /\ AreGroups(records)'
    BY <2>2, DiskUntouched DEF KeepInv, MemoryCounts, Keys
  <2> QED  BY <2>2, <2>3, DiskUntouched DEF KeepInv
<1> QED
  BY <1>1, <1>2, <1>3, <1>4, <1>5, <1>6, <1>7, <1>8, <1>9, <1>10, <1>11, <1>12 DEF Next

(* A step that leaves the report alone keeps the counts.                   *)
LEMMA KeepStutter == KeepInv /\ UNCHANGED vars => KeepInv'
<1> SUFFICES ASSUME KeepInv, UNCHANGED vars  PROVE KeepInv'  OBVIOUS
<1>1. UNCHANGED <<files, stored, torn, shrunk, report, phase, at, raw, records, todo>>  BY DEF vars
<1>2. MemoryCounts' /\ AreGroups(records)'
  BY <1>1, DiskUntouched DEF KeepInv, MemoryCounts, Keys
<1> QED  BY <1>1, <1>2, DiskUntouched DEF KeepInv

(* What a step of a report keeps of the report before it.                  *)
StepKeeps ==
  /\ report # None /\ phase = "persist" /\ phase' = "idle" /\ report' # report =>
       IF files # <<>> THEN report.minimized \subseteq report'.minimized
       ELSE torn = {} => Survives(report, report')
  /\ files = <<>> =>
       \A name \in DOMAIN stored \ torn :
         stored[name].record.status = "confirmed" =>
           name \in torn' \/ stored'[name].record.status = "confirmed"

(* Each step does.                                                         *)
LEMMA StepsKeep == KeepInv /\ Next => StepKeeps \/ UNCHANGED vars
<1> SUFFICES ASSUME KeepInv, Next, ~UNCHANGED vars  PROVE StepKeeps  OBVIOUS
<1>1. CASE WriteReport
  <2>1. phase = "persist" /\ todo = {} /\ UNCHANGED <<files, stored, torn>>
    BY <1>1 DEF WriteReport
  <2>2. report # None /\ files # <<>> => report.minimized \subseteq report'.minimized
    BY <1>1, ReportFields DEF KeepInv, ReportTells
  <2>3. ASSUME report # None, files = <<>>, torn = {}  PROVE Survives(report, report')
    <3>1. LeftOf(report, Readable)  BY <2>3 DEF KeepInv, ReportTells
    <3>2. SameGroups(records, Readable) /\ raw = Total(records)
      BY <2>1, <2>3 DEF KeepInv, MemoryCounts
    <3>3. DOMAIN Readable = Keys  BY <3>2 DEF SameGroups, Keys
    <3>4. report'.raw = Total(Readable)
          /\ report'.duplicates = SumOf(Further(Readable), DOMAIN Readable)
      BY <1>1, <3>2, ReportFields, SameNumbers DEF SameGroups, Duplicates, Keys
    <3> QED  BY <1>1, <3>1, <3>3, <3>4, ReportFields DEF LeftOf, Tells, Survives
  <2> QED  BY <2>1, <2>2, <2>3 DEF StepKeeps
<1>2. CASE Persist
  <2>1. /\ phase = "persist" /\ phase' = "persist"
        /\ UNCHANGED <<files, report, shrunk>>
    BY <1>2 DEF Persist
  <2>2. PICK k \in todo : /\ stored' = With(stored, SafeKey(k), [key |-> k, record |-> records[k]])
                          /\ torn' = torn \ {SafeKey(k)}
    BY <1>2 DEF Persist
  <2>3. k \in Keys  BY <2>1 DEF KeepInv, MemoryCounts
  <2> QED  BY <2>1, <2>2, <2>3, StoreCounts DEF StepKeeps
<1>3. CASE Kill  BY <1>3, KillTears DEF StepKeeps
<1>4. CASE ~WriteReport /\ ~Persist /\ ~Kill
  <2>1. UNCHANGED <<stored, torn, report>>
    BY <1>4 DEF Next, Begin, ReplayCorpus, Reduce, Collect, LoadStored, Replay, Attest, Replayed,
                Clean, Rest
  <2> QED  BY <2>1 DEF StepKeeps
<1> QED  BY <1>1, <1>2, <1>3, <1>4

(***************************************************************************)
(* The run directory.                                                      *)
(***************************************************************************)

RunInv == ReportInv /\ PackageInv

(* A step that leaves the report alone keeps what is known of it.          *)
LEMMA ReportStutter == ReportInv /\ UNCHANGED vars => ReportInv'
<1> SUFFICES ASSUME ReportInv, UNCHANGED vars  PROVE ReportInv'  OBVIOUS
<1>1. UNCHANGED <<files, lost, failure, campaign, report, phase, at, raw, records>>
  BY DEF vars, input
<1>2. /\ FilesOfARun' /\ InputsAreThere' /\ CleanMeansClean' /\ Attested' = Attested
  BY <1>1, ReportUntouched
<1>3. Keys' = Keys  BY <1>1 DEF Keys
<1>4. GroupsAreAttested'
  BY <1>1, <1>2, <1>3 DEF GroupsAreAttested, SeedsAreThere, There, ReportInv
<1>5. WhereItIs'  BY <1>1, <1>2, <1>3 DEF WhereItIs, ReportInv, CollectedTo
<1> QED  BY <1>2, <1>4, <1>5 DEF ReportInv

(* A step that leaves the replay alone keeps what is known of it.          *)
LEMMA PackageStutter == PackageInv /\ UNCHANGED pvars => PackageInv'
<1> SUFFICES ASSUME PackageInv, UNCHANGED pvars  PROVE PackageInv'  OBVIOUS
<1>1. UNCHANGED <<pkg, stage, testcase, binary, index, seen, verdict>>  BY DEF pvars
<1>2. PackageReplays'
  BY <1>1 DEF PackageInv, PackageReplays, Classify
<1>3. PackageOnItsWay'  BY <1>1 DEF PackageInv, PackageOnItsWay, Complete
<1> QED  BY <1>2, <1>3 DEF PackageInv

(* What is known of the reports and the replays of a run directory, which  *)
(* fuzzer/reporting/report.py and fuzzer/pipeline/replay.py only read.     *)
THEOREM RunInvariant == RSpec => []RunInv
<1>1. RInit => RunInv  BY ReportInit, PackageInit DEF RInit, RunInv
<1>2. RunInv /\ [RNext]_rvars => RunInv'
  <2> SUFFICES ASSUME RunInv, [RNext]_rvars  PROVE RunInv'  OBVIOUS
  <2>1. CASE Reader
    BY <2>1, PackageStep, ReportStutter DEF Reader, RunInv
  <2>2. CASE Reporter
    BY <2>2, ReportStep, PackageStutter DEF Reporter, RunInv
  <2>3. CASE UNCHANGED rvars
    BY <2>3, ReportStutter, PackageStutter DEF rvars, RunInv
  <2> QED  BY <2>1, <2>2, <2>3 DEF RNext
<1> QED  BY <1>1, <1>2, PTL DEF RSpec

(* A finding that the campaign confirmed is confirmed in every report,     *)
(* however the replay of report.py ends, whatever is killed in between,    *)
(* for any run directory and any limit of groups.                          *)
THEOREM ConfirmationStays == RSpec => []ConfirmedStays
<1>1. RunInv => ConfirmedStays  BY ReportConfirms DEF RunInv
<1> QED  BY <1>1, RunInvariant, PTL

(* A clean status is never that of a run with a recorded failure, of a     *)
(* campaign with open symbolic work or of a run with a confirmed finding,  *)
(* however many groups report.py leaves out of the evidence.               *)
THEOREM CleanReportIsClean == RSpec => []CleanMeansClean
<1>1. RunInv => CleanMeansClean  BY DEF RunInv, ReportInv
<1> QED  BY <1>1, RunInvariant, PTL

(* A package that was written to its end replays as confirmed where its    *)
(* target is quick enough, and the exit code of replay.py fits its status, *)
(* wherever the campaign was killed while it wrote the package.            *)
THEOREM WholePackagesReplay == RSpec => []PackageReplays
<1>1. RunInv => PackageReplays  BY DEF RunInv, PackageInv
<1> QED  BY <1>1, RunInvariant, PTL

(* The counts of a run directory that is reported again and again.         *)
LEMMA CountsInvariant == RSpec => []KeepInv
<1>1. RInit => KeepInv  BY KeepInit DEF RInit
<1>2. RunInv /\ KeepInv /\ [RNext]_rvars => KeepInv'
  <2> SUFFICES ASSUME RunInv, KeepInv, [RNext]_rvars  PROVE KeepInv'  OBVIOUS
  <2>1. CASE Reader  BY <2>1, KeepStutter DEF Reader
  <2>2. CASE Reporter  BY <2>2, KeepStep DEF Reporter, RunInv
  <2>3. CASE UNCHANGED rvars  BY <2>3, KeepStutter DEF rvars
  <2> QED  BY <2>1, <2>2, <2>3 DEF RNext
<1> QED  BY <1>1, <1>2, RunInvariant, PTL DEF RSpec

(* A report that is made again, for any run directory, any number of       *)
(* reports and kills at any step: when the finding files are gone and no   *)
(* group is torn it has a group for each file name of the one before, and  *)
(* the counts of that where the names differ, it takes back no             *)
(* confirmation that is stored then, and it shows every minimized input    *)
(* while the files are there (report.py, findings.py:431).                 *)
THEOREM RegenerationHolds == RSpec => RegenerationKeeps
<1>1. KeepInv /\ [RNext]_rvars => [StepKeeps]_vars
  <2> SUFFICES ASSUME KeepInv, RNext, ~UNCHANGED vars  PROVE StepKeeps
    BY DEF rvars
  <2>1. Next  BY DEF RNext, Reader, Reporter, rvars
  <2> QED  BY <2>1, StepsKeep
<1>2. RSpec => [][StepKeeps]_vars  BY <1>1, CountsInvariant, PTL DEF RSpec
<1> QED  BY <1>2 DEF RegenerationKeeps, StepKeeps
=============================================================================
