--------------------------- MODULE PackageReplay ---------------------------
(***************************************************************************)
(* The replay of one confirmed finding, fuzzer/pipeline/replay.py: a       *)
(* reader runs it on the package the campaign wrote for the finding, on    *)
(* this host or another, with the target in the package, one named by the  *)
(* environment or the finding, or one that is built again.  The campaign   *)
(* may have been killed while it wrote the package.                        *)
(*                                                                         *)
(* The end of the module puts the report of the same run directory beside  *)
(* it.                                                                     *)
(***************************************************************************)
EXTENDS Report, SequencesExt

CONSTANTS
  Expected,   \* the oracles a finding may name, and Unknown where it has none
  Unknown     \* no value

ASSUME ExpectedAssumption ==
  /\ Expected \subseteq {"array_access", "crash", "scan_budget", Unknown}
  /\ Unknown \notin {"array_access", "crash", "scan_budget", "confirmed"}

VARIABLES
  pkg,        \* the package: its whole files, the half-written one, its oracle
  stage,      \* where the replay is
  testcase,   \* the input it replays
  binary,     \* the target it runs
  index,      \* the runtime index is there
  seen,       \* what the native probe observed
  verdict     \* the status it prints, and its exit code

pvars == <<pkg, stage, testcase, binary, index, seen, verdict>>

(* The files of a package that a replay reads, as the campaign writes them:*)
(* the finding once more when its minimized depth is known.                *)
Order == <<"finding", "testcase", "minimized", "finding", "contract", "binary", "source", "ids",
           "manifest">>

ASSUME NoFileIsUnknown == Unknown \notin ToSet(Order)

WrittenTo(n) == {Order[i] : i \in 1 .. n}

(* A package is written up to some file, or the next is half written; its  *)
(* binary may be missing or be removed before the package is passed on.    *)
Packages ==
  {[files |-> fs, half |-> Unknown, oracle |-> o] :
     fs \in {WrittenTo(n) : n \in DOMAIN Order}
            \cup {WrittenTo(n) \ {"binary"} : n \in DOMAIN Order},
     o \in Expected}
  \cup {[files |-> WrittenTo(n - 1) \ {Order[n]}, half |-> Order[n], oracle |-> o] :
           n \in DOMAIN Order, o \in Expected}

Exists(file) == file \in pkg.files \/ file = pkg.half
Whole(file) == file \in pkg.files

PInit ==
  /\ pkg = Unknown /\ stage = "off" /\ testcase = Unknown /\ binary = Unknown
  /\ index = FALSE /\ seen = Unknown /\ verdict = Unknown

Open ==
  /\ stage = "off"
  /\ pkg' \in Packages
  /\ stage' = "package"
  /\ UNCHANGED <<testcase, binary, index, seen, verdict>>

End(status, exit) == stage' = "done" /\ verdict' = [status |-> status, exit |-> exit]

(* The minimized input goes before the original one, be it half written.   *)
ReadPackage ==
  /\ stage = "package"
  /\ LET case == IF Exists("minimized") THEN "minimized" ELSE "testcase" IN
     IF Exists(case) /\ Whole("finding")
     THEN /\ testcase' = case /\ stage' = "contract" /\ UNCHANGED verdict
     ELSE End("UNSUPPORTED", 2) /\ UNCHANGED testcase
  /\ UNCHANGED <<pkg, binary, index, seen>>

(* A contract need not be there, but must be readable; nothing in it is    *)
(* compared with the package.                                              *)
LoadContract ==
  /\ stage = "contract"
  /\ IF pkg.half = "contract"
     THEN End("UNSUPPORTED", 2)
     ELSE stage' = "target" /\ UNCHANGED verdict
  /\ UNCHANGED <<pkg, testcase, binary, index, seen>>

(* The target of the package, else the one the environment or the finding  *)
(* names, where such a file exists on this host.                           *)
FindTarget ==
  /\ stage = "target"
  /\ \/ /\ Exists("binary")
        /\ binary' = "packaged" /\ stage' = "index"
     \/ /\ ~Exists("binary")
        /\ \/ binary' = "named" /\ stage' = "index"
           \/ stage' = "build" /\ UNCHANGED binary
  /\ UNCHANGED <<pkg, testcase, index, seen, verdict>>

(* The pipeline is run with --build-only, within its time and in its own   *)
(* session.  It builds into the build directory of its host, and a replay  *)
(* that was successful looks for the target below its own directory.       *)
BuildFromPackage ==
  /\ stage = "build"
  /\ \/ /\ Exists("source")
        /\ binary' = "absent" /\ index' = TRUE /\ stage' = "probe"
        /\ UNCHANGED verdict
     \/ End("FAILED", 2) /\ UNCHANGED <<binary, index>>
  /\ UNCHANGED <<pkg, testcase, seen>>

(* An unreadable index is an exception that nothing catches.               *)
LoadRuntimeIndex ==
  /\ stage = "index"
  /\ IF pkg.half = "ids"
     THEN End(Unknown, 1) /\ UNCHANGED index
     ELSE stage' = "probe" /\ index' = Whole("ids") /\ UNCHANGED verdict
  /\ UNCHANGED <<pkg, testcase, binary, seen>>

-----------------------------------------------------------------------------
(* How a target ends on an input, and whether it reports the violation of  *)
(* a goal of the source.  "bounds" is a crash whose diagnosis says so.     *)
Observations ==
  [ends : {"ok", "nonzero", "crash", "bounds", "budget", "timeout"}, hit : BOOLEAN]
NoStart == [ends |-> "nonzero", hit |-> FALSE]

(* What the campaign saw three times when it confirmed a finding.          *)
Repeats(oracle) ==
  {o \in Observations :
     CASE oracle = "array_access" -> o.ends # "timeout" /\ (o.hit \/ o.ends = "bounds")
       [] oracle = "crash" -> o.ends = "crash" /\ ~o.hit
       [] oracle = "scan_budget" -> o.ends = "budget" /\ ~o.hit
       [] OTHER -> TRUE}

(* The target of the package behaves on a whole input as it did, or takes  *)
(* too long on this host; of another target nothing is known.              *)
Behaviours ==
  IF binary = "absent" THEN {NoStart}
  ELSE IF binary = "packaged" /\ Whole("binary") /\ Whole(testcase)
       THEN Repeats(pkg.oracle) \cup {[ends |-> "timeout", hit |-> h] : h \in BOOLEAN}
  ELSE Observations

(* The first justified candidate: a violation that the index knows, then   *)
(* the scan budget, then a crash.                                          *)
Classify(o) ==
  IF o.ends = "timeout" THEN Unknown
  ELSE IF o.hit /\ index THEN "array_access"
  ELSE CASE o.ends = "budget" -> "scan_budget"
         [] o.ends = "bounds" -> "array_access"
         [] o.ends = "crash" -> "crash"
         [] OTHER -> Unknown

\* Mutant: a replay without a candidate is a mismatch only where the target failed.
ReplayStatusLenient(o) ==
  IF o.ends = "timeout" THEN "TIMEOUT"
  ELSE IF Classify(o) = Unknown THEN IF o.ends = "nonzero" THEN "FAILED" ELSE "confirmed"
  ELSE IF pkg.oracle # Unknown THEN "confirmed" ELSE "candidate"

ReplayStatus(o) ==
  IF o.ends = "timeout" THEN "TIMEOUT"
  ELSE IF Classify(o) = Unknown /\ o.ends = "nonzero" THEN "FAILED"
  ELSE IF pkg.oracle = Unknown THEN "candidate"
  ELSE IF Classify(o) = pkg.oracle THEN "confirmed" ELSE "REPLAY_MISMATCH"

(* The exit code is decided apart from the status.                         *)
ExitCode(o) ==
  IF Classify(o) = Unknown \/ (pkg.oracle # Unknown /\ Classify(o) # pkg.oracle) THEN 1 ELSE 0

Probe ==
  /\ stage = "probe"
  /\ \E o \in Behaviours : seen' = o /\ End(ReplayStatus(o), ExitCode(o))
  /\ UNCHANGED <<pkg, testcase, binary, index>>

ReplayStep ==
  \/ Open \/ ReadPackage \/ LoadContract \/ FindTarget \/ BuildFromPackage \/ LoadRuntimeIndex
  \/ Probe

-----------------------------------------------------------------------------
(* A package that was written to its end replays as confirmed, unless the  *)
(* host is too slow or the package has lost its binary; whatever happened  *)
(* to the package, a replay that says confirmed exits with 0, one that     *)
(* exits with 0 of a finding with an oracle says confirmed, and it did see *)
(* that oracle.                                                            *)
PackageReplays ==
  verdict # Unknown =>
    /\ pkg.files = ToSet(Order) /\ pkg.oracle # Unknown => verdict.status \in {"confirmed", "TIMEOUT"}
    /\ verdict.status = "confirmed" => verdict.exit = 0 /\ Classify(seen) = pkg.oracle
    /\ verdict.exit = 0 => verdict.status = IF pkg.oracle # Unknown THEN "confirmed" ELSE "candidate"
-----------------------------------------------------------------------------
(* Reports of a run directory and a replay of its package both only read   *)
(* what the campaign left there and share no state beyond that, so a       *)
(* reader who replays does it instead of the first report: no interleaving *)
(* is lost that either of them could see.                                  *)
rvars == <<vars, pvars>>

RInit == Init /\ PInit

Reader == reports = 0 /\ ReplayStep /\ UNCHANGED vars

Reporter == stage = "off" /\ Next /\ UNCHANGED pvars

RNext == Reader \/ Reporter \/ (stage = "done" /\ UNCHANGED rvars)

RSpec == RInit /\ [][RNext]_rvars
=============================================================================
