----------------------------- MODULE SeedReducer -----------------------------
(***************************************************************************)
(* The structured seed reducer (fuzzer/reporting/minimize.py): it replays  *)
(* a failing seed, deletes cycles, duplicate records and records, shrinks  *)
(* the values that are left, writes the result and says which fields the   *)
(* failure depends on.  The target may answer a text it has not seen       *)
(* before in any way; a text is run once and its outcome is remembered.    *)
(*                                                                         *)
(* A seed is a set of records numbered by their place in the given seed;   *)
(* Text is the seed as a file: the lines in order, without the numbers.    *)
(* A seed is replayed and remembered as normalize_seed writes it, with its *)
(* values stripped; the seed that is held, and the file that is written,   *)
(* are not normalized, and a prefix of a text may end in a blank.          *)
(***************************************************************************)
EXTENDS SeedValues, FiniteSets

CONSTANTS Seeds,       \* the seeds that may be given: sets of records
          Processes,   \* how a replayed target may end
          Baselines,   \* the baseline_status a caller may pass (None: none)
          Upper,       \* field name -> the name in upper case
          Blanks,      \* field name -> where its text in the seed has a blank
          None

FINDING_STATUSES == {"crash", "timeout", "nonzero", "oom"}

\* A value that is a text, of which a prefix is held.
IsText(r) == r.ty \in STRING_TYPES \/ (r.ty \in BYTE_TYPES /\ ~r.hex)

\* The keys of a record.  normalize_seed refuses a seed without records, and
\* parse_seed numbers the records as it reads them.
Keys == {"index", "cycle", "name", "ty", "hex", "value"}
ASSUME SeedsAssumption ==
  \A s \in Seeds : /\ s # {} /\ \A r \in s : DOMAIN r = Keys
                   /\ \A q, r \in s : q.index = r.index => q = r
\* parse_seed strips the values it reads.
ASSUME BlanksAssumption ==
  \A s \in Seeds : \A r \in s : IsText(r) => r.value[1] \notin Blanks[r.name]
ASSUME BaselineAssumption == Baselines \subseteq FINDING_STATUSES \cup {None}

VARIABLES pass,        \* where minimize is
          given,       \* original_records
          baseline,    \* baseline_status
          current,     \* the records reduced so far
          cache,       \* _cache: text -> outcome
          expected,    \* expected_outcome
          pending,     \* cycles or record numbers the running pass still has to try
          cands,       \* values still to try for the record being shrunk
          written,     \* the text in the output file
          fields,      \* _attribute_fields: critical, maybe and irrelevant
          result       \* MinimizationResult: removed_records, changed_values, match

vars == <<pass, given, baseline, current, cache, expected, pending, cands,
          written, fields, result>>

Line(r) == [cycle |-> r.cycle, name |-> r.name, ty |-> r.ty, hex |-> r.hex,
            value |-> r.value]

\* normalize_seed: the blanks at the end of a value go.
Stripped(r) ==
  IF IsText(r)
    THEN [r EXCEPT !.value = <<Max({0} \cup ((1 .. r.value[1]) \ Blanks[r.name]))>>]
    ELSE r

Indices(s) == {r.index : r \in s}
RecordAt(s, i) == CHOOSE r \in s : r.index = i

\* serialize_seed
Text(s) == LET Order == SetToSortSeq(Indices(s), <)
           IN  [k \in DOMAIN Order |-> Line(RecordAt(s, Order[k]))]

\* The text that is run for a seed, and under which its outcome is kept.
Replayed(s) == Text({Stripped(r) : r \in s})

\* classify_process_result, and the two ways subprocess.run raises.
Status(p) ==
  CASE p.ended = "timeout" -> "timeout"
    [] p.ended = "error" -> "replay_error"
    [] p.ended = "exit" /\ p.oom -> "oom"
    [] p.ended = "exit" /\ ~p.oom /\ p.code = 0 -> "ok"
    [] p.ended = "exit" /\ ~p.oom /\ p.code < 0 -> "crash"
    [] OTHER -> "nonzero"

\* ReplayOutcome with the signature of extract_failure_signature: the
\* sanitizer with its kind, and the hash of the top of the stack.
OutcomeOf(p) == [status |-> Status(p), san |-> p.san, stack |-> p.stack,
                 returncode |-> IF p.ended = "exit" THEN p.code ELSE None]

SignaturesMatch(e, c) ==
  /\ c.status = e.status
  /\ e.san # None => c.san = e.san
  /\ e.stack # None => c.stack = e.stack
  /\ (e.san = None /\ e.stack = None /\ e.status = "crash" /\ e.returncode # None)
       => c.returncode = e.returncode

\* replay_seed: the outcomes text t may have, one if it was run before.
Outcomes(t) == IF t \in DOMAIN cache THEN {cache[t]}
               ELSE {OutcomeOf(p) : p \in Processes}

Remember(t, o) == cache' = [u \in DOMAIN cache \cup {t} |-> IF u = t THEN o ELSE cache[u]]

Init ==
  /\ pass = "start"
  /\ given \in Seeds
  /\ baseline \in Baselines
  /\ current = given
  /\ cache = << >>
  /\ expected = None
  /\ pending = {}
  /\ cands = << >>
  /\ written = None
  /\ fields = {}
  /\ result = None

Cycles(s) == {r.cycle : r \in s} \ {None}

\* The replay that fixes what has to be reproduced.
RunGiven ==
  /\ pass = "start"
  /\ \E o \in Outcomes(Replayed(given)) :
       /\ Remember(Replayed(given), o)
       /\ LET Status0 == IF baseline = None THEN o.status ELSE baseline
              Accepted == Status0 \in FINDING_STATUSES /\ o.status = Status0
          IN  \/ /\ Accepted
                 /\ pass' = "cycles"
                 /\ expected' = o
                 /\ pending' = Cycles(given)
              \/ /\ ~Accepted
                 /\ pass' = "failed"
                 /\ UNCHANGED <<expected, pending>>
  /\ UNCHANGED <<given, baseline, current, cands, written, fields, result>>

\* Mutant: any failure with the same status is taken for the same failure.
TryStatus(candidate, again, rest) ==
  \E o \in Outcomes(Replayed(candidate)) :
    /\ Remember(Replayed(candidate), o)
    /\ \/ /\ o.status = expected.status
          /\ current' = candidate
          /\ pending' = again
       \/ /\ o.status # expected.status
          /\ pending' = rest
          /\ UNCHANGED current

\* The candidate is tried; it replaces the current seed if it fails alike,
\* and then the pass begins again with what `again` holds for it.
Try(candidate, again, rest) ==
  \E o \in Outcomes(Replayed(candidate)) :
    /\ Remember(Replayed(candidate), o)
    /\ \/ /\ SignaturesMatch(expected, o)
          /\ current' = candidate
          /\ pending' = again
       \/ /\ ~SignaturesMatch(expected, o)
          /\ pending' = rest
          /\ UNCHANGED current

\* Mutant: the candidate is taken from the given seed.
TryCycleGiven ==
  /\ pass = "cycles"
  /\ pending # {}
  /\ LET c == Max(pending)
         candidate == {r \in given : r.cycle # c}
     IN  \/ /\ candidate = {}
            /\ pending' = pending \ {c}
            /\ UNCHANGED <<current, cache>>
         \/ /\ candidate # {}
            /\ Try(candidate, Cycles(current) \ {c}, pending \ {c})
  /\ UNCHANGED <<pass, given, baseline, expected, cands, written, fields, result>>

TryCycle ==
  /\ pass = "cycles"
  /\ pending # {}
  /\ LET c == Max(pending)
         candidate == {r \in current : r.cycle # c}
     IN  \/ /\ candidate = {}
            /\ pending' = pending \ {c}
            /\ UNCHANGED <<current, cache>>
         \/ /\ candidate # {}
            /\ Try(candidate, Cycles(candidate), pending \ {c})
  /\ UNCHANGED <<pass, given, baseline, expected, cands, written, fields, result>>

\* _exact_duplicate_indices: every occurrence but the first.
Duplicates(s) ==
  {r.index : r \in {r \in s : \E q \in s :
     /\ q.index < r.index
     /\ q.cycle = r.cycle /\ Upper[q.name] = Upper[r.name]
     /\ q.ty = r.ty /\ q.hex = r.hex /\ q.value = r.value}}

\* What a pass of _delete_records looks at.
Deletable(s, ph) == IF ph = "duplicates" THEN Duplicates(s) ELSE Indices(s)

\* Mutant: after a deletion the pass goes on instead of beginning again.
TryRecordOnce ==
  /\ pass \in {"duplicates", "records"}
  /\ pending # {}
  /\ LET i == Max(pending)
         candidate == {r \in current : r.index # i}
     IN  \/ /\ candidate = {}
            /\ pending' = pending \ {i}
            /\ UNCHANGED <<current, cache>>
         \/ /\ candidate # {}
            /\ Try(candidate, pending \ {i}, pending \ {i})
  /\ UNCHANGED <<pass, given, baseline, expected, cands, written, fields, result>>

TryRecord ==
  /\ pass \in {"duplicates", "records"}
  /\ pending # {}
  /\ LET i == Max(pending)
         candidate == {r \in current : r.index # i}
     IN  \/ /\ candidate = {}
            /\ pending' = pending \ {i}
            /\ UNCHANGED <<current, cache>>
         \/ /\ candidate # {}
            /\ Try(candidate, Deletable(candidate, pass), pending \ {i})
  /\ UNCHANGED <<pass, given, baseline, expected, cands, written, fields, result>>

\* A pass that tried everything without success is over.
EndPass ==
  /\ pending = {}
  /\ \/ /\ pass = "cycles"
        /\ pass' = "duplicates"
        /\ pending' = Duplicates(current)
        /\ UNCHANGED cands
     \/ /\ pass = "duplicates"
        /\ pass' = "records"
        /\ pending' = Indices(current)
        /\ UNCHANGED cands
     \/ /\ pass = "records"
        /\ pass' = "values"
        /\ pending' = Indices(current)
        /\ cands' = ValueCandidates(RecordAt(current, Min(Indices(current))))
  /\ UNCHANGED <<given, baseline, current, cache, expected, written, fields, result>>

Replace(s, i, v) == {IF r.index = i THEN [r EXCEPT !.value = v] ELSE r : r \in s}

\* One value of _shrink_values: after a success the new value's candidates.
TryValue ==
  /\ pass = "values"
  /\ pending # {}
  /\ cands # << >>
  /\ LET i == Min(pending)
         candidate == Replace(current, i, Head(cands))
     IN  \E o \in Outcomes(Replayed(candidate)) :
           /\ Remember(Replayed(candidate), o)
           /\ \/ /\ SignaturesMatch(expected, o)
                 /\ current' = candidate
                 /\ cands' = ValueCandidates(RecordAt(candidate, i))
              \/ /\ ~SignaturesMatch(expected, o)
                 /\ cands' = Tail(cands)
                 /\ UNCHANGED current
  /\ UNCHANGED <<pass, given, baseline, expected, pending, written, fields, result>>

NextRecord ==
  /\ pass = "values"
  /\ pending # {}
  /\ cands = << >>
  /\ LET rest == pending \ {Min(pending)}
     IN  /\ pending' = rest
         /\ cands' = IF rest = {} THEN << >>
                     ELSE ValueCandidates(RecordAt(current, Min(rest)))
  /\ UNCHANGED <<pass, given, baseline, current, cache, expected, written, fields,
                 result>>

\* The output file is written before the fields are looked at.
Write ==
  /\ pass = "values"
  /\ pending = {}
  /\ written' = Text(current)
  /\ pass' = "attribute"
  /\ pending' = Indices(current)
  /\ UNCHANGED <<given, baseline, current, cache, expected, cands, fields, result>>

Label(i, label) == fields' = fields \cup {<<i, label>>}

\* One record of _attribute_fields.
Attribute ==
  /\ pass = "attribute"
  /\ pending # {}
  /\ LET i == Min(pending)
         r == RecordAt(current, i)
         candidate == {IF q.index = i THEN WithDefault(q) ELSE q : q \in current}
     IN  /\ pending' = pending \ {i}
         /\ \/ /\ WithDefault(r) = r
               /\ Label(i, "maybe")
               /\ UNCHANGED cache
            \/ /\ WithDefault(r) # r
               /\ \E o \in Outcomes(Replayed(candidate)) :
                    /\ Remember(Replayed(candidate), o)
                    /\ Label(i, IF SignaturesMatch(expected, o) THEN "irrelevant"
                                ELSE IF o.status = "ok" THEN "critical" ELSE "maybe")
  /\ UNCHANGED <<pass, given, baseline, current, expected, cands, written, result>>

\* Mutant: records are told apart by what they say, not by their number.
RemovedLines(old, new) == old \ new

Removed(old, new) == {r \in old : r.index \notin Indices(new)}
Changed(old, new) ==
  {[index |-> r.index, to |-> r.value] :
     r \in {q \in new : q.value # RecordAt(old, q.index).value}}

Finish ==
  /\ pass = "attribute"
  /\ pending = {}
  /\ result' = [removed |-> Removed(given, current),
                changed |-> Changed(given, current),
                match |-> SignaturesMatch(expected, cache[Replayed(current)])]
  /\ pass' = "done"
  /\ UNCHANGED <<given, baseline, current, cache, expected, pending, cands, written,
                 fields>>

Ended == pass \in {"done", "failed"}

\* Nothing happens after the reducer returned or raised.
Rest == Ended /\ UNCHANGED vars

Reduce == \/ RunGiven \/ TryCycle \/ TryRecord \/ EndPass \/ TryValue \/ NextRecord
          \/ Write \/ Attribute \/ Finish

Next == Reduce \/ Rest

Spec == Init /\ [][Next]_vars

-----------------------------------------------------------------------------
\* Properties

(* Type invariant: the phases, and a pass over numbers of current records. *)
TypeOK ==
  /\ pass \in {"start", "cycles", "duplicates", "records", "values", "attribute",
                "done", "failed"}
  /\ current # {} /\ \A r \in current : DOMAIN r = Keys
  /\ pass \in {"duplicates", "records", "values", "attribute"}
       => pending \subseteq Indices(current)
  /\ pass = "start" => current = given

(* minimize, replay_seed: at every moment the seed held, once its values are     *)
(* stripped, was itself replayed and failed as the given seed did; signature_match *)
(* is true for that text, and the file written is the seed held.  It was run as   *)
(* it is, and reproduces the finding, unless a shrunk text ends in a blank.       *)
StillFails ==
  /\ pass \notin {"start", "failed"} =>
       /\ Replayed(current) \in DOMAIN cache
       /\ SignaturesMatch(expected, cache[Replayed(current)])
  /\ pass \in {"attribute", "done"} => written = Text(current)
  /\ pass = "done" => result.match
  /\ pass = "done" /\ (\A r \in current : Stripped(r) = r) =>
       written \in DOMAIN cache /\ SignaturesMatch(expected, cache[written])

(* _delete_records: when record deletion is over, the target was run without    *)
(* each of the remaining records and did not fail alike, or it is the only one. *)
Refused(s) ==
  s = {} \/ (Replayed(s) \in DOMAIN cache /\ ~SignaturesMatch(expected, cache[Replayed(s)]))

OneMinimal ==
  [][pass = "records" /\ pass' = "values" =>
       \A i \in Indices(current) : Refused({r \in current : r.index # i})]_vars

(* _removed_records, _changed_values: the metadata explains the output: the     *)
(* given seed, without the removed records and with the changed values, is it.  *)
ValueIn(changed, r) ==
  IF \E c \in changed : c.index = r.index
  THEN (CHOOSE c \in changed : c.index = r.index).to
  ELSE r.value

MetadataExplainsSeed ==
  pass = "done" =>
    written = Text({[r EXCEPT !.value = ValueIn(result.changed, r)] :
                      r \in given \ result.removed})

Promise == INSTANCE Reduction WITH
  seed <- current,
  text <- Replayed(current),
  reproduced <- IF pass \in {"start", "failed"} THEN {}
                ELSE {t \in DOMAIN cache : SignaturesMatch(expected, cache[t])}

(* Every step of the reducer is a step of a Reduction: it keeps what it saw and *)
(* moves only to a seed made of records it had that was seen to fail alike, as   *)
(* replay_seed ran it, that is with stripped values.                             *)
IsReduction == Promise!Reducing

=============================================================================
