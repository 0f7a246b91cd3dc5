--------------------------- MODULE Seeds_proofs ---------------------------
(***************************************************************************)
(* Proofs about seeds.                                                     *)
(*                                                                         *)
(* Of SeedReducer, which makes them smaller: its promises for every set of *)
(* seeds, every behaviour of the target and every list of candidate        *)
(* values.                                                                 *)
(*                                                                         *)
(* Of Preparation, which plans some: a planned seed is what its plan asked *)
(* for and showed something new.                                           *)
(***************************************************************************)
EXTENDS SeedReducer, Preparation, NaturalsInduction, WellFoundedInduction, SequenceTheorems,
        FiniteSetTheorems, TLAPS

(***************************************************************************)
(* The reducer.                                                            *)
(***************************************************************************)

\* A replay keeps every outcome seen before and adds the one of its text.
LEMMA CacheGrows ==
  ASSUME NEW t, NEW o, o \in Outcomes(t), Remember(t, o)
  PROVE  /\ t \in DOMAIN cache' /\ cache'[t] = o
         /\ \A u \in DOMAIN cache : u \in DOMAIN cache' /\ cache'[u] = cache[u]
BY DEF Outcomes, Remember

\* Replacing a value keeps every record's number, name and type.
LEMMA ReplaceShape ==
  ASSUME NEW s, NEW i, NEW v, s # {}, \A r \in s : DOMAIN r = Keys
  PROVE  /\ Replace(s, i, v) # {}
         /\ \A r \in Replace(s, i, v) : DOMAIN r = Keys
         /\ Indices(Replace(s, i, v)) = Indices(s)
         /\ Promise!Origins(Replace(s, i, v)) \subseteq Promise!Origins(s)
<1> DEFINE F(r) == IF r.index = i THEN [r EXCEPT !.value = v] ELSE r
<1>1. \A r \in s : /\ DOMAIN F(r) = Keys
                   /\ F(r).index = r.index /\ F(r).name = r.name /\ F(r).ty = r.ty
  BY DEF Keys
<1>2. Replace(s, i, v) = {F(r) : r \in s}
  BY DEF Replace
<1> HIDE DEF F
<1> QED BY <1>1, <1>2 DEF Indices, Promise!Origins

\* A seed whose values are stripped is run as it is.
LEMMA AsItIs ==
  ASSUME NEW s, \A r \in s : Stripped(r) = r
  PROVE  Replayed(s) = Text(s)
<1>1. {Stripped(r) : r \in s} = s OBVIOUS
<1> QED BY <1>1 DEF Replayed

\* What Try leaves behind when its candidate is part of the current seed.
LEMMA TryFacts ==
  ASSUME NEW candidate, NEW again, NEW rest, Try(candidate, again, rest)
  PROVE  /\ \A u \in DOMAIN cache : u \in DOMAIN cache' /\ cache'[u] = cache[u]
         /\ Replayed(candidate) \in DOMAIN cache'
         /\ \/ /\ current' = candidate /\ pending' = again
               /\ SignaturesMatch(expected, cache'[Replayed(candidate)])
            \/ /\ current' = current /\ pending' = rest
               /\ ~SignaturesMatch(expected, cache'[Replayed(candidate)])
<1>1. PICK o \in Outcomes(Replayed(candidate)) :
        /\ Remember(Replayed(candidate), o)
        /\ \/ SignaturesMatch(expected, o) /\ current' = candidate /\ pending' = again
           \/ ~SignaturesMatch(expected, o) /\ pending' = rest /\ current' = current
  BY DEF Try
<1> QED BY <1>1, CacheGrows
-----------------------------------------------------------------------------

(* The type invariant holds in every reachable state: the current seed is  *)
(* never empty and a pass only tries records the current seed has.         *)
THEOREM Typed == Spec => []TypeOK
<1>1. Init => TypeOK
  BY SeedsAssumption DEF Init, TypeOK
<1>2. TypeOK /\ [Next]_vars => TypeOK'
  <2> SUFFICES ASSUME TypeOK, [Next]_vars PROVE TypeOK'
    OBVIOUS
  <2> USE DEF TypeOK
  <2>1. CASE RunGiven
    BY <2>1 DEF RunGiven
  <2>2. CASE TryCycle
    <3> DEFINE candidate == {r \in current : r.cycle # Max(pending)}
    <3>1. CASE candidate = {}
      BY <2>2, <3>1 DEF TryCycle, Try
    <3>2. CASE candidate # {}
      <4>1. Try(candidate, Cycles(candidate), pending \ {Max(pending)})
        BY <2>2, <3>2 DEF TryCycle
      <4>2. current' = candidate \/ current' = current
        BY <4>1, TryFacts
      <4> QED BY <2>2, <3>2, <4>2 DEF TryCycle
    <3> QED BY <3>1, <3>2
  <2>3. CASE TryRecord
    <3> DEFINE candidate == {r \in current : r.index # Max(pending)}
    <3>1. CASE candidate = {}
      BY <2>3, <3>1 DEF TryRecord
    <3>2. CASE candidate # {}
      <4>1. Try(candidate, Deletable(candidate, pass), pending \ {Max(pending)})
        BY <2>3, <3>2 DEF TryRecord
      <4>2. Deletable(candidate, pass) \subseteq Indices(candidate)
        BY DEF Deletable, Duplicates, Indices
      <4>3. \/ current' = candidate /\ pending' = Deletable(candidate, pass)
            \/ current' = current /\ pending' = pending \ {Max(pending)}
        BY <4>1, TryFacts
      <4> HIDE DEF candidate
      <4>4. /\ candidate # {} /\ \A r \in candidate : DOMAIN r = Keys
            /\ pass' = pass /\ pass \in {"duplicates", "records"}
        BY <2>3, <3>2 DEF TryRecord, candidate
      <4>5. pending' \subseteq Indices(current')
        BY <4>2, <4>3, <4>4
      <4> QED BY <4>3, <4>4, <4>5
    <3> QED BY <3>1, <3>2
  <2>4. CASE EndPass
    BY <2>4 DEF EndPass, Duplicates, Indices
  <2>5. CASE TryValue
    <3>1. \/ current' = current
          \/ current' = Replace(current, Min(pending), Head(cands))
      BY <2>5 DEF TryValue
    <3>2. /\ current' # {} /\ \A r \in current' : DOMAIN r = Keys
          /\ Indices(current') = Indices(current)
      BY <3>1, ReplaceShape
    <3>3. pass' = pass /\ pending' = pending /\ pass = "values"
      BY <2>5 DEF TryValue
    <3> QED BY <3>2, <3>3
  <2>6. CASE NextRecord
    BY <2>6 DEF NextRecord
  <2>7. CASE Write
    BY <2>7 DEF Write
  <2>8. CASE Attribute
    BY <2>8 DEF Attribute
  <2>9. CASE Finish
    BY <2>9 DEF Finish
  <2>10. CASE UNCHANGED vars
    BY <2>10 DEF vars
  <2> QED BY <2>1, <2>2, <2>3, <2>4, <2>5, <2>6, <2>7, <2>8, <2>9, <2>10
          DEF Next, Reduce, Rest
<1> QED BY <1>1, <1>2, PTL DEF Spec
-----------------------------------------------------------------------------

(* minimize: at every moment the seed held, with its values stripped, was   *)
(* replayed and failed as the given one did, and signature_match is true;   *)
(* the file written was run as it is unless a text in it ends in a blank.   *)
THEOREM Reproduces == Spec => []StillFails
<1>1. Init => StillFails
  BY DEF Init, StillFails
<1>2. TypeOK /\ StillFails /\ [Next]_vars => StillFails'
  <2> SUFFICES ASSUME TypeOK, StillFails, [Next]_vars PROVE StillFails'
    OBVIOUS
  <2> DEFINE CacheStays == /\ \A u \in DOMAIN cache : u \in DOMAIN cache' /\ cache'[u] = cache[u]
                     /\ UNCHANGED <<expected, written, result>>
             Held == /\ Replayed(current') \in DOMAIN cache'
                     /\ SignaturesMatch(expected', cache'[Replayed(current')])
  <2>a. Held /\ UNCHANGED <<pass, written, result>> /\ pass \in {"cycles", "duplicates", "records", "values"}
          => StillFails'
    BY DEF StillFails
  <2>b. CacheStays /\ current' = current /\ pass \notin {"start", "failed"} => Held
    BY DEF StillFails
  <2>1. CASE RunGiven
    <3>1. PICK o \in Outcomes(Replayed(given)) :
            /\ Remember(Replayed(given), o)
            /\ pass' = "failed" \/ (pass' = "cycles" /\ expected' = o)
      BY <2>1 DEF RunGiven
    <3>2. CASE pass' = "failed"
      BY <3>2 DEF StillFails
    <3>3. CASE pass' = "cycles" /\ expected' = o
      <4>1. cache'[Replayed(given)] = o /\ Replayed(given) \in DOMAIN cache'
        BY <3>1, CacheGrows
      <4>2. SignaturesMatch(o, o)
        BY DEF SignaturesMatch
      <4>3. current' = given
        BY <2>1 DEF RunGiven, TypeOK
      <4> QED BY <3>3, <4>1, <4>2, <4>3 DEF StillFails
    <3> QED BY <3>1, <3>2, <3>3
  <2>2. ASSUME NEW candidate, NEW again, NEW rest, Try(candidate, again, rest),
               UNCHANGED <<pass, expected, written, result>>,
               pass \in {"cycles", "duplicates", "records"}
        PROVE  StillFails'
    <3>1. CacheStays
      BY <2>2, TryFacts
    <3>2. current' = candidate \/ current' = current
      BY <2>2, TryFacts
    <3>3. CASE current' = candidate /\ SignaturesMatch(expected, cache'[Replayed(candidate)])
      <4>1. Replayed(candidate) \in DOMAIN cache'
        BY <2>2, TryFacts
      <4> QED BY <2>2, <2>a, <3>3, <4>1
    <3>4. CASE current' = current
      BY <2>2, <2>a, <2>b, <3>1, <3>4
    <3>5. \/ current' = candidate /\ SignaturesMatch(expected, cache'[Replayed(candidate)])
          \/ current' = current
      BY <2>2, TryFacts
    <3> QED BY <3>3, <3>4, <3>5
  <2>3. CASE TryCycle
    <3> DEFINE candidate == {r \in current : r.cycle # Max(pending)}
    <3>1. CASE candidate = {}
      BY <2>3, <3>1, <2>a, <2>b DEF TryCycle
    <3>2. CASE candidate # {}
      <4>1. /\ Try(candidate, Cycles(candidate), pending \ {Max(pending)})
            /\ UNCHANGED <<pass, expected, written, result>> /\ pass = "cycles"
        BY <2>3, <3>2 DEF TryCycle
      <4> QED BY <4>1, <2>2
    <3> QED BY <3>1, <3>2
  <2>4. CASE TryRecord
    <3> DEFINE candidate == {r \in current : r.index # Max(pending)}
    <3>1. CASE candidate = {}
      BY <2>4, <3>1, <2>a, <2>b DEF TryRecord
    <3>2. CASE candidate # {}
      <4>1. /\ Try(candidate, Deletable(candidate, pass), pending \ {Max(pending)})
            /\ UNCHANGED <<pass, expected, written, result>>
            /\ pass \in {"duplicates", "records"}
        BY <2>4, <3>2 DEF TryRecord
      <4> QED BY <4>1, <2>2
    <3> QED BY <3>1, <3>2
  <2>5. CASE EndPass
    BY <2>5 DEF EndPass, StillFails
  <2>6. CASE TryValue
    <3> DEFINE candidate == Replace(current, Min(pending), Head(cands))
    <3>1. PICK o \in Outcomes(Replayed(candidate)) :
            /\ Remember(Replayed(candidate), o)
            /\ \/ SignaturesMatch(expected, o) /\ current' = candidate
               \/ current' = current
      BY <2>6 DEF TryValue
    <3>2. UNCHANGED <<pass, expected, written, result>> /\ pass = "values"
      BY <2>6 DEF TryValue
    <3> HIDE DEF candidate
    <3>3. CacheStays /\ Replayed(candidate) \in DOMAIN cache' /\ cache'[Replayed(candidate)] = o
      BY <3>1, <3>2, CacheGrows
    <3>4. Held
      BY <3>1, <3>2, <3>3, <2>b
    <3> QED BY <3>2, <3>4, <2>a
  <2>7. CASE NextRecord
    BY <2>7 DEF NextRecord, StillFails
  <2>8. CASE Write
    BY <2>8 DEF Write, StillFails
  <2>9. CASE Attribute
    <3>1. UNCHANGED <<pass, current, expected, written, result>> /\ pass = "attribute"
      BY <2>9 DEF Attribute
    <3>2. CacheStays
      <4> DEFINE candidate == {IF q.index = Min(pending) THEN WithDefault(q) ELSE q : q \in current}
      <4>1. \/ cache' = cache
            \/ \E o \in Outcomes(Replayed(candidate)) : Remember(Replayed(candidate), o)
        BY <2>9 DEF Attribute
      <4> HIDE DEF candidate
      <4> QED BY <3>1, <4>1, CacheGrows
    <3>3. Held
      BY <3>1, <3>2, <2>b
    <3> QED BY <3>1, <3>3 DEF StillFails
  <2>10. CASE Finish
    <3>1. /\ Replayed(current) \in DOMAIN cache
          /\ SignaturesMatch(expected, cache[Replayed(current)])
          /\ written = Text(current)
      BY <2>10 DEF Finish, StillFails
    <3>2. UNCHANGED <<current, cache, expected, written>> /\ pass' = "done"
          /\ result'.match = SignaturesMatch(expected, cache[Replayed(current)])
      BY <2>10 DEF Finish
    <3>3. (\A r \in current : Stripped(r) = r) => Replayed(current) = Text(current)
      BY AsItIs
    <3> QED BY <3>1, <3>2, <3>3 DEF StillFails
  <2>11. CASE UNCHANGED vars
    BY <2>11 DEF vars, StillFails
  <2> QED BY <2>1, <2>3, <2>4, <2>5, <2>6, <2>7, <2>8, <2>9, <2>10, <2>11
          DEF Next, Reduce, Rest
<1> QED BY <1>1, <1>2, Typed, PTL DEF Spec
-----------------------------------------------------------------------------

\* Every record the running deletion pass has passed was refused.
Tried == pass = "records" =>
           \A i \in Indices(current) \ pending :
             Refused({r \in current : r.index # i})

(* _delete_records: the seed that goes on to value shrinking lost no chance  *)
(* to be shorter by one record: each of these seeds was run and refused.     *)
THEOREM DeletionIsMinimal == Spec => OneMinimal
<1>1. Init => Tried
  BY DEF Init, Tried
<1>2. Tried /\ [Next]_vars => Tried'
  <2> SUFFICES ASSUME Tried, [Next]_vars, pass' = "records" PROVE Tried'
    BY DEF Tried
  <2> DEFINE Then(s) == \/ s = {}
                        \/ /\ Replayed(s) \in DOMAIN cache'
                           /\ ~SignaturesMatch(expected', cache'[Replayed(s)])
  <2>a. Tried' <=> \A i \in Indices(current') \ pending' :
                      Then({r \in current' : r.index # i})
    BY DEF Tried, Refused, Indices
  <2>1. CASE TryRecord
    <3>1. pass = "records" /\ expected' = expected
      BY <2>1 DEF TryRecord
    <3>2. PICK j : j = Max(pending)
      OBVIOUS
    <3>3. PICK candidate : candidate = {r \in current : r.index # j}
      OBVIOUS
    <3>b. ASSUME \A u \in DOMAIN cache : u \in DOMAIN cache' /\ cache'[u] = cache[u],
                 current' = current, pending' = pending \ {j}, Then(candidate)
          PROVE  Tried'
      <4>1. \A i \in Indices(current) \ pending : Refused({r \in current : r.index # i})
        BY <3>1 DEF Tried
      <4>2. \A i \in Indices(current) \ pending : Then({r \in current : r.index # i})
        BY <4>1, <3>1, <3>b DEF Refused
      <4> HIDE DEF Then
      <4>3. \A i \in Indices(current) \ (pending \ {j}) : Then({r \in current : r.index # i})
        BY <4>2, <3>3, <3>b
      <4> QED BY <4>3, <2>a, <3>b
    <3>4. CASE candidate = {}
      <4>1. pending' = pending \ {j} /\ UNCHANGED <<current, cache, expected>>
        BY <2>1, <3>2, <3>3, <3>4 DEF TryRecord
      <4> QED BY <3>b, <3>4, <4>1
    <3>5. CASE candidate # {}
      <4>1. Try(candidate, Deletable(candidate, pass), pending \ {j})
        BY <2>1, <3>2, <3>3, <3>5 DEF TryRecord
      <4>2. CASE current' = candidate /\ pending' = Deletable(candidate, pass)
        <5>1. pending' = Indices(current')
          BY <3>1, <4>2 DEF Deletable
        <5> QED BY <5>1, <2>a
      <4>3. CASE /\ current' = current /\ pending' = pending \ {j}
                 /\ ~SignaturesMatch(expected, cache'[Replayed(candidate)])
        <5>1. /\ \A u \in DOMAIN cache : u \in DOMAIN cache' /\ cache'[u] = cache[u]
              /\ Replayed(candidate) \in DOMAIN cache'
          BY <4>1, TryFacts
        <5>2. Then(candidate)
          BY <3>1, <4>3, <5>1
        <5> QED BY <3>b, <4>3, <5>1, <5>2
      <4> QED BY <4>1, <4>2, <4>3, TryFacts
    <3> QED BY <3>4, <3>5
  <2>2. CASE EndPass
    <3>1. pending' = Indices(current')
      BY <2>2 DEF EndPass, Indices
    <3> QED BY <3>1 DEF Tried
  <2>3. CASE UNCHANGED vars
    BY <2>3 DEF Tried, Refused, vars
  <2>4. CASE RunGiven \/ TryCycle \/ TryValue \/ NextRecord \/ Write \/ Attribute \/ Finish
    BY <2>4 DEF RunGiven, TryCycle, TryValue, NextRecord, Write, Attribute, Finish
  <2> QED BY <2>1, <2>2, <2>3, <2>4 DEF Next, Reduce, Rest
<1>3. Tried /\ [Next]_vars =>
        [pass = "records" /\ pass' = "values" =>
           \A i \in Indices(current) : Refused({r \in current : r.index # i})]_vars
  <2> SUFFICES ASSUME Tried, [Next]_vars, pass = "records", pass' = "values"
               PROVE  \A i \in Indices(current) : Refused({r \in current : r.index # i})
    OBVIOUS
  <2>1. EndPass
    BY DEF Next, Reduce, Rest, vars, RunGiven, TryCycle, TryRecord, TryValue,
           NextRecord, Write, Attribute, Finish
  <2>2. pending = {}
    BY <2>1 DEF EndPass
  <2> QED BY <2>2 DEF Tried
<1> QED BY <1>1, <1>2, <1>3, PTL DEF Spec, OneMinimal
-----------------------------------------------------------------------------

\* The texts the target was seen to fail on as on the given seed.
Seen == IF pass \in {"start", "failed"} THEN {}
        ELSE {t \in DOMAIN cache : SignaturesMatch(expected, cache[t])}

(* The reducer implements the abstract Reduction: what it saw stays seen,    *)
(* and it only moves to a seed of its own records that was seen to fail.     *)
THEOREM ImplementsReduction == Spec => IsReduction
<1> DEFINE AVars == <<current, Replayed(current), Seen>>
           AStep == \/ Seen \subseteq Seen' /\ current' = current
                    \/ /\ Seen \subseteq Seen'
                       /\ Replayed(current') \in Seen'
                       /\ current' # {}
                       /\ Promise!Origins(current') \subseteq Promise!Origins(current)
<1>1. Init => Promise!Begin
  BY DEF Init, Promise!Begin
<1>2. TypeOK /\ [Next]_vars => [Promise!See \/ Promise!Reduce]_AVars
  <2> SUFFICES ASSUME TypeOK, [Next]_vars PROVE AStep
    BY DEF Promise!See, Promise!Reduce, Seen
  <2>a. ASSUME pass \notin {"start", "failed"}, pass' \notin {"start", "failed"},
               expected' = expected,
               \A u \in DOMAIN cache : u \in DOMAIN cache' /\ cache'[u] = cache[u]
        PROVE  Seen \subseteq Seen'
    BY <2>a DEF Seen
  <2>1. CASE RunGiven
    BY <2>1 DEF RunGiven, Seen
  <2>2. ASSUME NEW candidate, NEW again, NEW rest, Try(candidate, again, rest),
               UNCHANGED <<pass, expected>>, pass \in {"cycles", "duplicates", "records"},
               candidate # {}, candidate \subseteq current
        PROVE  AStep
    <3>1. Seen \subseteq Seen'
      BY <2>2, <2>a, TryFacts
    <3>2. CASE current' = current
      BY <3>1, <3>2
    <3>3. CASE /\ current' = candidate
               /\ SignaturesMatch(expected, cache'[Replayed(candidate)])
      <4>1. Replayed(candidate) \in DOMAIN cache'
        BY <2>2, TryFacts
      <4>2. Replayed(current') \in Seen'
        BY <2>2, <3>3, <4>1 DEF Seen
      <4>3. Promise!Origins(candidate) \subseteq Promise!Origins(current)
        BY <2>2 DEF Promise!Origins
      <4> QED BY <2>2, <3>1, <3>3, <4>2, <4>3
    <3> QED BY <2>2, <3>2, <3>3, TryFacts
  <2>3. CASE TryCycle
    <3> DEFINE candidate == {r \in current : r.cycle # Max(pending)}
    <3>1. CASE candidate = {}
      BY <2>3, <3>1 DEF TryCycle, Seen
    <3>2. CASE candidate # {}
      <4>1. /\ Try(candidate, Cycles(candidate), pending \ {Max(pending)})
            /\ UNCHANGED <<pass, expected>> /\ pass = "cycles"
        BY <2>3, <3>2 DEF TryCycle
      <4>2. candidate \subseteq current
        OBVIOUS
      <4> HIDE DEF candidate
      <4> QED BY <3>2, <4>1, <4>2, <2>2
    <3> QED BY <3>1, <3>2
  <2>4. CASE TryRecord
    <3> DEFINE candidate == {r \in current : r.index # Max(pending)}
    <3>1. CASE candidate = {}
      BY <2>4, <3>1 DEF TryRecord, Seen
    <3>2. CASE candidate # {}
      <4>1. /\ Try(candidate, Deletable(candidate, pass), pending \ {Max(pending)})
            /\ UNCHANGED <<pass, expected>> /\ pass \in {"duplicates", "records"}
        BY <2>4, <3>2 DEF TryRecord
      <4>2. candidate \subseteq current
        OBVIOUS
      <4> HIDE DEF candidate
      <4> QED BY <3>2, <4>1, <4>2, <2>2
    <3> QED BY <3>1, <3>2
  <2>5. CASE EndPass
    BY <2>5 DEF EndPass, Seen
  <2>6. CASE TryValue
    <3> DEFINE candidate == Replace(current, Min(pending), Head(cands))
    <3>1. PICK o \in Outcomes(Replayed(candidate)) :
            /\ Remember(Replayed(candidate), o)
            /\ \/ SignaturesMatch(expected, o) /\ current' = candidate
               \/ current' = current
      BY <2>6 DEF TryValue
    <3>2. UNCHANGED <<pass, expected>> /\ pass = "values"
      BY <2>6 DEF TryValue
    <3>3. candidate # {} /\ Promise!Origins(candidate) \subseteq Promise!Origins(current)
      BY ReplaceShape DEF TypeOK
    <3> HIDE DEF candidate
    <3>4. /\ \A u \in DOMAIN cache : u \in DOMAIN cache' /\ cache'[u] = cache[u]
          /\ Replayed(candidate) \in DOMAIN cache' /\ cache'[Replayed(candidate)] = o
      BY <3>1, CacheGrows
    <3>5. Seen \subseteq Seen'
      BY <3>2, <3>4, <2>a
    <3>6. CASE SignaturesMatch(expected, o) /\ current' = candidate
      <4>1. Replayed(current') \in Seen'
        BY <3>2, <3>4, <3>6 DEF Seen
      <4> QED BY <3>3, <3>5, <3>6, <4>1
    <3> QED BY <3>1, <3>5, <3>6
  <2>7. CASE NextRecord
    BY <2>7 DEF NextRecord, Seen
  <2>8. CASE Write
    BY <2>8 DEF Write, Seen
  <2>9. CASE Attribute
    <3> DEFINE candidate == {IF q.index = Min(pending) THEN WithDefault(q) ELSE q : q \in current}
    <3>1. \/ cache' = cache
          \/ \E o \in Outcomes(Replayed(candidate)) : Remember(Replayed(candidate), o)
      BY <2>9 DEF Attribute
    <3>2. UNCHANGED <<pass, expected, current>> /\ pass = "attribute"
      BY <2>9 DEF Attribute
    <3> HIDE DEF candidate
    <3>3. \A u \in DOMAIN cache : u \in DOMAIN cache' /\ cache'[u] = cache[u]
      BY <3>1, CacheGrows
    <3> QED BY <3>2, <3>3, <2>a
  <2>10. CASE Finish
    BY <2>10 DEF Finish, Seen
  <2>11. CASE UNCHANGED vars
    BY <2>11 DEF vars, Seen
  <2> QED BY <2>1, <2>3, <2>4, <2>5, <2>6, <2>7, <2>8, <2>9, <2>10, <2>11
          DEF Next, Reduce, Rest
<1>3. AVars = <<current, Replayed(current),
                IF pass \in {"start", "failed"} THEN {}
                ELSE {t \in DOMAIN cache : SignaturesMatch(expected, cache[t])}>>
  BY DEF Seen
<1> QED BY <1>1, <1>2, <1>3, Typed, PTL DEF Spec, IsReduction, Promise!Reducing, Seen
-----------------------------------------------------------------------------

\* Every record of the current seed is a given one with another value, and
\* its number names it.
Derived ==
  /\ given \in Seeds
  /\ \A q, r \in current : q.index = r.index => q = r
  /\ \A r \in current : \E g \in given :
       /\ g.index = r.index /\ g.cycle = r.cycle /\ g.name = r.name
       /\ g.ty = r.ty /\ g.hex = r.hex

\* A set whose numbers name its records has the record at its number.
LEMMA RecordAtIs ==
  ASSUME NEW s, \A q, r \in s : q.index = r.index => q = r, NEW g \in s
  PROVE  RecordAt(s, g.index) = g
BY DEF RecordAt

\* Two seeds with the same numbers and the same line at each are one text.
LEMMA SameText ==
  ASSUME NEW s, NEW t, Indices(s) = Indices(t),
         \A i \in Indices(s) : Line(RecordAt(s, i)) = Line(RecordAt(t, i))
  PROVE  Text(s) = Text(t)
<1>1. \A i : Line(RecordAt(s, i)) = Line(RecordAt(t, i))
  <2> SUFFICES ASSUME NEW i PROVE Line(RecordAt(s, i)) = Line(RecordAt(t, i))
    OBVIOUS
  <2>1. CASE i \notin Indices(s)
    <3>1. \A r : (r \in s /\ r.index = i) <=> (r \in t /\ r.index = i)
      BY <2>1 DEF Indices
    <3>2. RecordAt(s, i) = RecordAt(t, i)
      BY <3>1 DEF RecordAt
    <3> QED BY <3>2
  <2> QED BY <2>1
<1> DEFINE Order == SetToSortSeq(Indices(s), <)
<1>2. Text(s) = [k \in DOMAIN Order |-> Line(RecordAt(s, Order[k]))]
  BY Zenon DEF Text
<1>3. Text(t) = [k \in DOMAIN Order |-> Line(RecordAt(t, Order[k]))]
  BY Zenon DEF Text
<1> HIDE DEF Order
<1> QED BY <1>1, <1>2, <1>3, Zenon

\* A part of the seed is derived from the given one as the seed is.
LEMMA PartIsDerived ==
  ASSUME Derived, given' = given, current' \subseteq current
  PROVE  Derived'
BY DEF Derived

\* So is the seed with another value in one record.
LEMMA ReplaceIsDerived ==
  ASSUME TypeOK, Derived, NEW i, NEW v, given' = given, current' = Replace(current, i, v)
  PROVE  Derived'
<1> DEFINE F(r) == IF r.index = i THEN [r EXCEPT !.value = v] ELSE r
<1>1. \A r \in current : /\ F(r).index = r.index /\ F(r).cycle = r.cycle
                         /\ F(r).name = r.name /\ F(r).ty = r.ty /\ F(r).hex = r.hex
  BY DEF TypeOK, Keys
<1>2. current' = {F(r) : r \in current}
  BY DEF Replace
<1> HIDE DEF F
<1>3. \A q \in current' : \E r \in current :
        /\ q = F(r) /\ q.index = r.index /\ q.cycle = r.cycle
        /\ q.name = r.name /\ q.ty = r.ty /\ q.hex = r.hex
  BY <1>1, <1>2
<1>4. \A p, q \in current' : p.index = q.index => p = q
  BY <1>3 DEF Derived
<1>5. \A q \in current' : \E g \in given :
        /\ g.index = q.index /\ g.cycle = q.cycle /\ g.name = q.name
        /\ g.ty = q.ty /\ g.hex = q.hex
  BY <1>3 DEF Derived
<1> QED BY <1>4, <1>5 DEF Derived

\* The given seed without the removed records and with the changed values
\* has the text of the current seed.
LEMMA MetadataExplains ==
  ASSUME TypeOK, Derived, NEW changed, changed = Changed(given, current)
  PROVE  Text({[r EXCEPT !.value = ValueIn(changed, r)] : r \in given \ Removed(given, current)})
           = Text(current)
<1> DEFINE E(r) == [r EXCEPT !.value = ValueIn(changed, r)]
           KeptRecords == given \ Removed(given, current)
           S == {E(r) : r \in KeptRecords}
<1>1. given \in Seeds
  BY DEF Derived
<1>2. /\ \A g \in given : DOMAIN g = Keys
      /\ \A g, h \in given : g.index = h.index => g = h
  BY <1>1, SeedsAssumption
<1>3. \A g \in given : /\ E(g).index = g.index /\ E(g).cycle = g.cycle /\ E(g).name = g.name
                       /\ E(g).ty = g.ty /\ E(g).hex = g.hex /\ E(g).value = ValueIn(changed, g)
  BY <1>2 DEF Keys
<1>4. \A g : g \in KeptRecords <=> g \in given /\ g.index \in Indices(current)
  BY DEF Removed
<1>5. ASSUME NEW g \in given, NEW r \in current, g.index = r.index
      PROVE  ValueIn(changed, g) = r.value
  <2>0. RecordAt(given, g.index) = g
    BY <1>2, RecordAtIs
  <2>1. \A c : c \in changed <=> \E q \in current :
               c = [index |-> q.index, to |-> q.value] /\ q.value # RecordAt(given, q.index).value
    BY DEF Changed
  <2>2. CASE r.value = g.value
    <3>1. ~ \E c \in changed : c.index = g.index
      <4> SUFFICES ASSUME NEW c \in changed, c.index = g.index PROVE FALSE
        OBVIOUS
      <4>1. PICK q \in current : /\ c = [index |-> q.index, to |-> q.value]
                                 /\ q.value # RecordAt(given, q.index).value
        BY <2>1
      <4>2. q.index = g.index
        BY <4>1
      <4>3. q = r
        BY <4>2, <1>5 DEF Derived
      <4> QED BY <4>1, <4>2, <4>3, <2>0, <2>2
    <3> QED BY <3>1, <2>2 DEF ValueIn
  <2>3. CASE r.value # g.value
    <3> DEFINE d == [index |-> r.index, to |-> r.value]
    <3>1. d \in changed /\ d.index = g.index /\ d.to = r.value
      BY <2>0, <2>1, <2>3, <1>5
    <3>2. \A c \in changed : c.index = g.index => c = d
      <4> SUFFICES ASSUME NEW c \in changed, c.index = g.index PROVE c = d
        OBVIOUS
      <4>1. PICK q \in current : c = [index |-> q.index, to |-> q.value]
        BY <2>1
      <4>2. q = r
        BY <4>1, <1>5 DEF Derived
      <4> QED BY <4>1, <4>2
    <3> HIDE DEF d
    <3>3. (CHOOSE c \in changed : c.index = g.index) = d
      BY <3>1, <3>2
    <3> QED BY <3>1, <3>3 DEF ValueIn
  <2> QED BY <2>2, <2>3
<1> HIDE DEF E
<1>6. Indices(S) = Indices(current)
  <2>1. \A g \in KeptRecords : E(g).index = g.index /\ g.index \in Indices(current)
    BY <1>3, <1>4
  <2>2. \A i \in Indices(current) : \E g \in KeptRecords : g.index = i
    BY <1>4 DEF Derived, Indices
  <2> HIDE DEF KeptRecords
  <2>3. Indices(S) = {E(g).index : g \in KeptRecords}
    BY DEF Indices
  <2>4. \A i : i \in Indices(S) <=> \E g \in KeptRecords : i = E(g).index
    BY <2>3
  <2>5. \A i : i \in Indices(S) <=> i \in Indices(current)
    BY <2>1, <2>2, <2>4
  <2> HIDE DEF S
  <2> QED BY <2>5
<1>7. \A q, r \in S : q.index = r.index => q = r
  BY <1>2, <1>3, <1>4
<1>8. \A i \in Indices(S) : Line(RecordAt(S, i)) = Line(RecordAt(current, i))
  <2> SUFFICES ASSUME NEW r \in current
               PROVE  Line(RecordAt(S, r.index)) = Line(RecordAt(current, r.index))
    BY <1>6 DEF Indices
  <2>1. PICK g \in given : /\ g.index = r.index /\ g.cycle = r.cycle /\ g.name = r.name
                           /\ g.ty = r.ty /\ g.hex = r.hex
    BY DEF Derived
  <2>2. E(g) \in S
    BY <2>1, <1>4 DEF Indices
  <2>3. E(g).index = r.index
    BY <2>1, <1>3
  <2> HIDE DEF S
  <2>4. RecordAt(S, r.index) = E(g)
    BY <2>2, <2>3, <1>7 DEF RecordAt
  <2>5. RecordAt(current, r.index) = r
    BY RecordAtIs DEF Derived
  <2>6. E(g).value = r.value
    BY <2>1, <1>3, <1>5
  <2>7. Line(E(g)) = Line(r)
    BY <2>1, <2>6, <1>3 DEF Line
  <2> QED BY <2>4, <2>5, <2>7
<1>9. Text(S) = Text(current)
  <2> HIDE DEF S
  <2> QED BY <1>6, <1>8, SameText
<1> QED BY <1>9 DEF E

\* Every step keeps the seed derived from the given one.
LEMMA NextDerived ==
  ASSUME TypeOK, Derived, [Next]_vars
  PROVE  Derived'
<1>1. CASE RunGiven \/ EndPass \/ NextRecord \/ Write \/ Attribute \/ Finish
  BY <1>1, PartIsDerived DEF RunGiven, EndPass, NextRecord, Write, Attribute, Finish
<1>2. CASE TryCycle
  <2> DEFINE candidate == {r \in current : r.cycle # Max(pending)}
  <2>1. given' = given /\ (current' = current \/ \E again, rest : Try(candidate, again, rest))
    BY <1>2 DEF TryCycle
  <2>2. candidate \subseteq current
    OBVIOUS
  <2> HIDE DEF candidate
  <2>3. current' \subseteq current
    BY <2>1, <2>2, TryFacts
  <2> QED BY <2>1, <2>3, PartIsDerived
<1>3. CASE TryRecord
  <2> DEFINE candidate == {r \in current : r.index # Max(pending)}
  <2>1. given' = given /\ (current' = current \/ \E again, rest : Try(candidate, again, rest))
    BY <1>3 DEF TryRecord
  <2>2. candidate \subseteq current
    OBVIOUS
  <2> HIDE DEF candidate
  <2>3. current' \subseteq current
    BY <2>1, <2>2, TryFacts
  <2> QED BY <2>1, <2>3, PartIsDerived
<1>4. CASE TryValue
  <2>1. given' = given /\ (current' = current \/ \E i, v : current' = Replace(current, i, v))
    BY <1>4 DEF TryValue
  <2> QED BY <2>1, PartIsDerived, ReplaceIsDerived
<1>5. CASE UNCHANGED vars
  BY <1>5, PartIsDerived DEF vars
<1> QED BY <1>1, <1>2, <1>3, <1>4, <1>5 DEF Next, Reduce, Rest

\* What is known when the metadata is written.
ExplainInv == pass = "done" => result.removed = Removed(given, current)
                                /\ result.changed = Changed(given, current)

(* _removed_records, _changed_values: the metadata of a finished reduction   *)
(* says exactly how the given seed became the file that was written.         *)
THEOREM MetadataIsComplete == Spec => []MetadataExplainsSeed
<1>1. Init => Derived /\ ExplainInv
  BY SeedsAssumption DEF Init, Derived, ExplainInv
<1>2. TypeOK /\ Derived /\ ExplainInv /\ [Next]_vars => (Derived /\ ExplainInv)'
  <2> SUFFICES ASSUME TypeOK, Derived, ExplainInv, [Next]_vars PROVE ExplainInv'
    BY NextDerived
  <2>1. CASE Finish
    <3>1. /\ result'.removed = Removed(given, current) /\ result'.changed = Changed(given, current)
          /\ given' = given /\ current' = current
      BY <2>1 DEF Finish
    <3> QED BY <3>1 DEF ExplainInv
  <2>2. CASE UNCHANGED vars
    BY <2>2 DEF ExplainInv, vars
  <2>3. CASE Reduce /\ ~Finish
    <3>1. pass' # "done"
      BY <2>3 DEF Reduce, RunGiven, TryCycle, TryRecord, EndPass, TryValue, NextRecord,
                  Write, Attribute
    <3> QED BY <3>1 DEF ExplainInv
  <2> QED BY <2>1, <2>2, <2>3 DEF Next, Rest
<1>3. TypeOK /\ StillFails /\ Derived /\ ExplainInv => MetadataExplainsSeed
  <2> SUFFICES ASSUME TypeOK, StillFails, Derived, ExplainInv, pass = "done"
               PROVE  written = Text({[r EXCEPT !.value = ValueIn(result.changed, r)] :
                                        r \in given \ result.removed})
    BY DEF MetadataExplainsSeed
  <2>1. written = Text(current)
    BY DEF StillFails
  <2>2. result.removed = Removed(given, current) /\ result.changed = Changed(given, current)
    BY DEF ExplainInv
  <2>3. Text({[r EXCEPT !.value = ValueIn(result.changed, r)] : r \in given \ Removed(given, current)})
          = Text(current)
    BY <2>2, MetadataExplains
  <2> QED BY <2>1, <2>2, <2>3
<1> QED BY <1>1, <1>2, <1>3, Typed, Reproduces, PTL DEF Spec

(***************************************************************************)
(* The preparation. First what recursive functions and lists need.         *)
(***************************************************************************)

(* The order of the natural numbers, as a set of pairs.                    *)
Below == {ss \in Nat \X Nat : ss[1] < ss[2]}
(* It is well-founded.                                                     *)
LEMMA BelowWF == IsWellFoundedOn(Below, Nat)
  BY NatLessThanWellFounded, Zenon DEF OpToRel, Below

(* A function on an initial segment is a sequence.                         *)
LEMMA FunctionIsSeq ==
  ASSUME NEW S, NEW n \in Nat, NEW f \in [1 .. n -> S]
  PROVE  f \in Seq(S) /\ Len(f) = n
  BY SeqDef

(* A set with 0 that is closed under successor has every number.           *)
LEMMA SetInduction ==
  ASSUME NEW S, 0 \in S, \A n \in Nat : n \in S => n + 1 \in S
  PROVE  \A n \in Nat : n \in S
<1> DEFINE T == Nat \ S
<1>1. SUFFICES ASSUME T # {} PROVE FALSE OBVIOUS
<1>2. \E x \in T : \A y \in T : ~ (<<y, x>> \in Below)
  <2> HIDE DEF T
  <2>1. T \subseteq Nat BY DEF T
  <2> QED BY <1>1, BelowWF, <2>1, WFMin, Zenon
<1>3. PICK x \in T : \A y \in T : ~ (<<y, x>> \in Below) BY <1>2
<1>4. \A y \in T : ~(y < x) BY <1>3 DEF Below
<1>5. x # 0 /\ x - 1 \in Nat /\ x - 1 \notin T BY <1>4
<1> QED BY <1>5

(* f has the first m results of the step g from a.                         *)
IsIteration(f, D, a, g, m) ==
  f \in [0 .. m -> D] /\ f[0] = a /\ \A i \in 1 .. m : f[i] = g[<<i, f[i - 1]>>]

(* So m steps from a have results.                                         *)
LEMMA Iterates ==
  ASSUME NEW D, NEW a \in D, NEW g \in [Nat \X D -> D], NEW m \in Nat
  PROVE  \E f : IsIteration(f, D, a, g, m)
<1> USE DEF IsIteration
<1> DEFINE Good == {k \in Nat : \E f \in [0 .. k -> D] :
                      f[0] = a /\ \A i \in 1 .. k : f[i] = g[<<i, f[i - 1]>>]}
<1>1. 0 \in Good
  <2> DEFINE f == [i \in 0 .. 0 |-> a]
  <2>1. f \in [0 .. 0 -> D] /\ f[0] = a /\ \A i \in 1 .. 0 : f[i] = g[<<i, f[i - 1]>>]  OBVIOUS
  <2> QED  BY <2>1
<1>2. ASSUME NEW k \in Nat, k \in Good PROVE k + 1 \in Good
  <2>1. PICK f \in [0 .. k -> D] : f[0] = a /\ \A i \in 1 .. k : f[i] = g[<<i, f[i - 1]>>]  BY <1>2
  <2> DEFINE h == [i \in 0 .. k + 1 |-> IF i = k + 1 THEN g[<<k + 1, f[k]>>] ELSE f[i]]
  <2>2. h \in [0 .. k + 1 -> D]
    <3>1. f[k] \in D /\ <<k + 1, f[k]>> \in Nat \X D  BY <2>1
    <3>2. g[<<k + 1, f[k]>>] \in D  BY <3>1
    <3>3. \A i \in 0 .. k + 1 : i # k + 1 => i \in 0 .. k  OBVIOUS
    <3>4. \A i \in 0 .. k + 1 : (IF i = k + 1 THEN g[<<k + 1, f[k]>>] ELSE f[i]) \in D
      BY <2>1, <3>2, <3>3
    <3> QED  BY <3>4
  <2>3. h[0] = a  BY <2>1
  <2>4. ASSUME NEW i \in 1 .. k + 1 PROVE h[i] = g[<<i, h[i - 1]>>]
    <3>1. CASE i = k + 1
      <4>1. i - 1 = k /\ k \in 0 .. k + 1 /\ k # k + 1  BY <3>1
      <4>2. h[i - 1] = f[k]  BY <4>1
      <4>3. h[i] = g[<<i, f[k]>>]  BY <3>1
      <4> HIDE DEF h
      <4> QED  BY <4>2, <4>3
    <3>2. CASE i # k + 1
      <4>1. i \in 1 .. k /\ i - 1 \in 0 .. k  BY <3>2
      <4>2. h[i] = f[i] /\ h[i - 1] = f[i - 1]  BY <4>1
      <4> QED  BY <4>1, <4>2, <2>1
    <3> QED  BY <3>1, <3>2
  <2> HIDE DEF h
  <2> QED  BY <2>2, <2>3, <2>4
<1>3. m \in Good
  <2> HIDE DEF Good
  <2> QED  BY <1>1, <1>2, SetInduction
<1> QED  BY <1>3

(***************************************************************************)
(* Planned seeds.                                                          *)
(***************************************************************************)

(* The texts that a plan may put into a field, and the frames of these.    *)
Planned(f) == DomainOf(f) \cup {TextOf(v) : v \in AcceptedOf(f)}
PlannedFrames ==
  {r \in [FrameFields -> UNION {Planned(f) : f \in FrameFields}] : \A f \in FrameFields : r[f] \in Planned(f)}

(* What a plan is expanded to on the way.                                  *)
DoneKind == [frames : Seq(PlannedFrames), current : PlannedFrames]

(* Values that fit change a whole frame into a whole frame.                *)
LEMMA OverIsFull ==
  ASSUME NEW c \in FullFrames, NEW new, DOMAIN new \subseteq FrameFields, Fits(new)
  PROVE  Over(new, c) \in FullFrames
<1> DEFINE V == UNION {DomainOf(f) : f \in FrameFields}
           r == [f \in FrameFields |-> IF f \in DOMAIN new THEN new[f] ELSE c[f]]
<1>1. DOMAIN c = FrameFields /\ \A f \in FrameFields : c[f] \in DomainOf(f)  BY DEF FullFrames, Fits
<1>2. Over(new, c) = r
  <2>1. DOMAIN new \cup DOMAIN c = FrameFields  BY <1>1
  <2> QED  BY <2>1 DEF Over
<1>3. \A f \in FrameFields : r[f] \in DomainOf(f)  BY <1>1 DEF Fits
<1>4. r \in [FrameFields -> V] /\ DOMAIN r = FrameFields  BY <1>3
<1> HIDE DEF r, V
<1> QED  BY <1>2, <1>3, <1>4 DEF FullFrames, Fits, V

(* Inputs of a plan change a planned frame into a planned frame.           *)
LEMMA OverIsPlanned ==
  ASSUME NEW c \in PlannedFrames, NEW new, DOMAIN new \subseteq FrameFields,
         \A f \in DOMAIN new : new[f] \in Planned(f)
  PROVE  Over(new, c) \in PlannedFrames
<1> DEFINE V == UNION {Planned(f) : f \in FrameFields}
           r == [f \in FrameFields |-> IF f \in DOMAIN new THEN new[f] ELSE c[f]]
<1>1. DOMAIN c = FrameFields /\ \A f \in FrameFields : c[f] \in Planned(f)  BY DEF PlannedFrames
<1>2. Over(new, c) = r
  <2>1. DOMAIN new \cup DOMAIN c = FrameFields  BY <1>1
  <2> QED  BY <2>1 DEF Over
<1>3. \A f \in FrameFields : r[f] \in Planned(f)  BY <1>1
<1>4. r \in [FrameFields -> V] /\ DOMAIN r = FrameFields  BY <1>3
<1> HIDE DEF r, V
<1> QED  BY <1>2, <1>3, <1>4 DEF PlannedFrames, V

(* So does a pulse.                                                        *)
LEMMA PulseIsPlanned ==
  ASSUME NEW c \in PlannedFrames, NEW b \in BoolFields, NEW v \in {"0", "1"}
  PROVE  [c EXCEPT ![b] = v] \in PlannedFrames
<1> DEFINE V == UNION {Planned(f) : f \in FrameFields}
           r == [c EXCEPT ![b] = v]
<1>1. c \in [FrameFields -> V] /\ \A f \in FrameFields : c[f] \in Planned(f)  BY DEF PlannedFrames
<1>2. b \in FrameFields /\ v \in Planned(b)  BY FieldAssumption DEF Planned
<1>3. v \in V  BY <1>2
<1> HIDE DEF V
<1>4. r \in [FrameFields -> V]  BY <1>1, <1>2, <1>3
<1>5. \A f \in FrameFields : r[f] \in Planned(f)  BY <1>1, <1>2
<1> HIDE DEF r
<1>6. r \in PlannedFrames  BY <1>4, <1>5 DEF PlannedFrames, V
<1> QED  BY <1>6 DEF r

(* The default frame is whole.                                             *)
LEMMA DefaultIsFull == DefaultFrame \in FullFrames
<1> DEFINE V == UNION {DomainOf(f) : f \in FrameFields}
<1>1. \A f \in FrameFields : DefaultFrame[f] \in DomainOf(f)  BY FieldAssumption DEF DefaultFrame
<1>2. DefaultFrame \in [FrameFields -> V] /\ DOMAIN DefaultFrame = FrameFields  BY FieldAssumption DEF DefaultFrame
<1> QED  BY <1>1, <1>2 DEF FullFrames, Fits

(* A whole frame may be planned; a planned frame that fits is whole.       *)
LEMMA FullIsPlanned == \A r : r \in FullFrames <=> r \in PlannedFrames /\ Fits(r)
<1>1. ASSUME NEW r \in FullFrames PROVE r \in PlannedFrames /\ Fits(r)
  <2>1. Fits(r) /\ DOMAIN r = FrameFields /\ r = [f \in FrameFields |-> r[f]]  BY DEF FullFrames
  <2>2. \A f \in FrameFields : r[f] \in Planned(f)  BY <2>1 DEF Fits, Planned
  <2> QED  BY <2>1, <2>2 DEF PlannedFrames
<1>2. ASSUME NEW r \in PlannedFrames, Fits(r) PROVE r \in FullFrames
  <2>1. DOMAIN r = FrameFields /\ r = [f \in FrameFields |-> r[f]]  BY DEF PlannedFrames
  <2>2. \A f \in FrameFields : r[f] \in DomainOf(f)  BY <1>2, <2>1 DEF Fits
  <2> QED  BY <1>2, <2>1, <2>2 DEF FullFrames
<1> QED  BY <1>1, <1>2

(* A simple action adds as many frames as it costs.                        *)
LEMMA ApplyIs ==
  ASSUME NEW x \in DoneKind, NEW act, LegalSimple(act)
  PROVE  /\ Apply(x, act) \in DoneKind
         /\ SimpleCost(act) \in Nat \ {0}
         /\ Len(Apply(x, act).frames) = Len(x.frames) + SimpleCost(act)
<1>1. x.frames \in Seq(PlannedFrames) /\ x.current \in PlannedFrames  BY DEF DoneKind
<1>2. SimpleCost(act) \in Nat \ {0}  BY DEF SimpleCost, LegalSimple
<1> DEFINE now == IF act.op \in {"set", "hold"} THEN Over(InText(act.inputs), x.current) ELSE x.current
<1>3. now \in PlannedFrames
  <2> SUFFICES ASSUME act.op \in {"set", "hold"} PROVE Over(InText(act.inputs), x.current) \in PlannedFrames
    BY <1>1
  <2>1. DOMAIN act.inputs \subseteq FrameFields /\ \A f \in DOMAIN act.inputs : act.inputs[f] \in AcceptedOf(f)
    BY DEF LegalSimple
  <2>2. PICK new : new = InText(act.inputs)  OBVIOUS
  <2>3. DOMAIN new \subseteq FrameFields /\ \A f \in DOMAIN new : new[f] \in Planned(f)
    BY <2>1, <2>2 DEF InText, Planned
  <2> QED  BY <1>1, <2>2, <2>3, OverIsPlanned
<1>4. PICK frames0 : frames0 = x.frames  OBVIOUS
<1>5. PICK k : k = SimpleCost(act)  OBVIOUS
<1>6. \A more \in Seq(PlannedFrames) : frames0 \o more \in Seq(PlannedFrames) /\ Len(frames0 \o more) = Len(frames0) + Len(more)
  BY <1>1, <1>4, ConcatProperties
<1>7. CASE act.op = "pulse"
  <2>1. act.input \in BoolFields /\ k = 2  BY <1>5, <1>7 DEF LegalSimple, SimpleCost
  <2> HIDE DEF now
  <2>2. PICK lo, hi : lo = [now EXCEPT ![act.input] = "0"] /\ hi = [now EXCEPT ![act.input] = "1"]  OBVIOUS
  <2>3. lo \in PlannedFrames /\ hi \in PlannedFrames  BY <1>3, <2>1, <2>2, PulseIsPlanned
  <2>4. <<lo, hi>> \in Seq(PlannedFrames) /\ Len(<<lo, hi>>) = 2  BY <2>3
  <2>5. Apply(x, act) = [frames |-> frames0 \o <<lo, hi>>, current |-> hi]  BY <1>4, <1>7, <2>2 DEF Apply, now
  <2>6. PICK w : w = frames0 \o <<lo, hi>>  OBVIOUS
  <2>7. w \in Seq(PlannedFrames) /\ Len(w) = Len(frames0) + 2  BY <1>6, <2>4, <2>6
  <2>8. Apply(x, act) = [frames |-> w, current |-> hi]  BY <2>5, <2>6
  <2>9. Apply(x, act) \in DoneKind /\ Apply(x, act).frames = w  BY <2>8, <2>7, <2>3 DEF DoneKind
  <2> QED  BY <1>2, <1>4, <1>5, <2>1, <2>7, <2>9
<1>8. CASE act.op # "pulse"
  <2> HIDE DEF now
  <2>1. PICK more : more = [j \in 1 .. k |-> now]  OBVIOUS
  <2>2. more \in Seq(PlannedFrames) /\ Len(more) = k
    <3>1. more \in [1 .. k -> PlannedFrames]  BY <1>3, <2>1
    <3> QED  BY <1>2, <1>5, <3>1, FunctionIsSeq
  <2>3. Apply(x, act) = [frames |-> frames0 \o more, current |-> now]  BY <1>4, <1>5, <1>8, <2>1 DEF Apply, now
  <2>4. PICK w : w = frames0 \o more  OBVIOUS
  <2>5. w \in Seq(PlannedFrames) /\ Len(w) = Len(frames0) + k  BY <1>6, <2>2, <2>4
  <2>6. Apply(x, act) = [frames |-> w, current |-> now]  BY <2>3, <2>4
  <2>7. Apply(x, act) \in DoneKind /\ Apply(x, act).frames = w  BY <2>6, <2>5, <1>3 DEF DoneKind
  <2> QED  BY <1>2, <1>4, <1>5, <2>5, <2>7
<1> QED  BY <1>7, <1>8

(* A total is reached by adding one cost after the other.                  *)
LEMMA TotalRuns ==
  ASSUME NEW costs, Len(costs) \in Nat, \A i \in 1 .. Len(costs) : costs[i] \in Nat
  PROVE  \E u \in [0 .. Len(costs) -> Nat] :
           /\ u[0] = 0
           /\ \A i \in 1 .. Len(costs) : u[i] = u[i - 1] + costs[i]
           /\ Total(costs) = u[Len(costs)]
<1> DEFINE D == Nat
           a == 0
           m == Len(costs)
           following(i, y) == y + costs[i]
           g == [q \in Nat \X D |-> IF q[1] \in 1 .. m THEN following(q[1], q[2]) ELSE q[2]]
           R(f) == f = [i \in 0 .. m |-> IF i = 0 THEN a ELSE f[i - 1] + costs[i]]
           upto == CHOOSE f : R(f)
<1>1. m \in Nat /\ a \in D /\ \A i \in 1 .. m : \A y \in D : following(i, y) \in D
  OBVIOUS
<1>2. Total(costs) = upto[m]  BY DEF Total, Iterate
<1> HIDE DEF following, D, a, m
<1>3. g \in [Nat \X D -> D]
  <2>1. ASSUME NEW q \in Nat \X D PROVE (IF q[1] \in 1 .. m THEN following(q[1], q[2]) ELSE q[2]) \in D
    <3>1. q[2] \in D  OBVIOUS
    <3> QED  BY <3>1, <1>1
  <2> QED  BY <2>1
<1>4. PICK f : IsIteration(f, D, a, g, m)
  <2> HIDE DEF g
  <2> QED  BY <1>1, <1>3, Iterates
<1>5. R(f)
  <2>1. ASSUME NEW i \in 0 .. m, i # 0 PROVE f[i] = following(i, f[i - 1])
    <3>1. i \in 1 .. m /\ i \in Nat /\ i - 1 \in 0 .. m  BY <1>1, <2>1
    <3>2. f[i - 1] \in D  BY <3>1, <1>4 DEF IsIteration
    <3>3. <<i, f[i - 1]>> \in Nat \X D /\ <<i, f[i - 1]>>[1] = i /\ <<i, f[i - 1]>>[2] = f[i - 1]  BY <3>1, <3>2
    <3>4. g[<<i, f[i - 1]>>] = following(i, f[i - 1])  BY <3>1, <3>3
    <3> HIDE DEF g
    <3> QED  BY <1>4, <3>1, <3>4 DEF IsIteration
  <2>2. f \in [0 .. m -> D] /\ f[0] = a  BY <1>4 DEF IsIteration
  <2>3. f = [i \in 0 .. m |-> IF i = 0 THEN a ELSE following(i, f[i - 1])]  BY <2>1, <2>2
  <2> QED  BY <2>3 DEF following
<1>6. R(upto)
  <2> HIDE DEF R
  <2> QED  BY <1>5
<1> HIDE DEF upto, g
<1>7. upto = [i \in 0 .. m |-> IF i = 0 THEN a ELSE following(i, upto[i - 1])]  BY <1>6 DEF following
<1>8. upto[0] = a /\ \A i \in 1 .. m : upto[i] = following(i, upto[i - 1])
  <2>1. 0 \in 0 .. m /\ \A i \in 1 .. m : i \in 0 .. m /\ i # 0  BY <1>1
  <2> QED  BY <1>7, <2>1
<1> DEFINE Good == {i \in Nat : i <= m => upto[i] \in D}
<1>9. 0 \in Good  BY <1>1, <1>8
<1>10. ASSUME NEW i \in Nat, i \in Good PROVE i + 1 \in Good
  <2> SUFFICES ASSUME i + 1 <= m PROVE upto[i + 1] \in D  OBVIOUS
  <2>1. i + 1 \in 1 .. m /\ (i + 1) - 1 = i /\ i <= m  BY <1>1
  <2>2. upto[i] \in D  BY <1>10, <2>1
  <2> QED  BY <1>1, <1>8, <2>1, <2>2
<1>11. \A i \in Nat : i \in Good
  <2> HIDE DEF Good
  <2> QED  BY <1>9, <1>10, SetInduction
<1>12. upto \in [0 .. m -> D]
  <2>1. \A i \in 0 .. m : upto[i] \in D  BY <1>1, <1>11
  <2>2. DOMAIN upto = 0 .. m  BY <1>7
  <2> QED  BY <2>1, <2>2, <1>7
<1> QED  BY <1>2, <1>8, <1>12 DEF following, a, D, m

(* A list of simple actions is applied one after the other.                *)
LEMMA ApplyAllRuns ==
  ASSUME NEW x \in DoneKind, NEW acts, Len(acts) \in Nat, \A i \in 1 .. Len(acts) : LegalSimple(acts[i])
  PROVE  \E u \in [0 .. Len(acts) -> DoneKind] :
           /\ u[0] = x
           /\ \A i \in 1 .. Len(acts) : u[i] = Apply(u[i - 1], acts[i])
           /\ ApplyAll(x, acts) = u[Len(acts)]
<1> DEFINE D == DoneKind
           a == x
           m == Len(acts)
           following(i, y) == Apply(y, acts[i])
           g == [q \in Nat \X D |-> IF q[1] \in 1 .. m THEN following(q[1], q[2]) ELSE q[2]]
           R(f) == f = [i \in 0 .. m |-> IF i = 0 THEN a ELSE Apply(f[i - 1], acts[i])]
           upto == CHOOSE f : R(f)
<1>1. m \in Nat /\ a \in D /\ \A i \in 1 .. m : \A y \in D : following(i, y) \in D
  BY ApplyIs
<1>2. ApplyAll(x, acts) = upto[m]  BY DEF ApplyAll, Iterate
<1> HIDE DEF following, D, a, m
<1>3. g \in [Nat \X D -> D]
  <2>1. ASSUME NEW q \in Nat \X D PROVE (IF q[1] \in 1 .. m THEN following(q[1], q[2]) ELSE q[2]) \in D
    <3>1. q[2] \in D  OBVIOUS
    <3> QED  BY <3>1, <1>1
  <2> QED  BY <2>1
<1>4. PICK f : IsIteration(f, D, a, g, m)
  <2> HIDE DEF g
  <2> QED  BY <1>1, <1>3, Iterates
<1>5. R(f)
  <2>1. ASSUME NEW i \in 0 .. m, i # 0 PROVE f[i] = following(i, f[i - 1])
    <3>1. i \in 1 .. m /\ i \in Nat /\ i - 1 \in 0 .. m  BY <1>1, <2>1
    <3>2. f[i - 1] \in D  BY <3>1, <1>4 DEF IsIteration
    <3>3. <<i, f[i - 1]>> \in Nat \X D /\ <<i, f[i - 1]>>[1] = i /\ <<i, f[i - 1]>>[2] = f[i - 1]  BY <3>1, <3>2
    <3>4. g[<<i, f[i - 1]>>] = following(i, f[i - 1])  BY <3>1, <3>3
    <3> HIDE DEF g
    <3> QED  BY <1>4, <3>1, <3>4 DEF IsIteration
  <2>2. f \in [0 .. m -> D] /\ f[0] = a  BY <1>4 DEF IsIteration
  <2>3. f = [i \in 0 .. m |-> IF i = 0 THEN a ELSE following(i, f[i - 1])]  BY <2>1, <2>2
  <2> QED  BY <2>3 DEF following
<1>6. R(upto)
  <2> HIDE DEF R
  <2> QED  BY <1>5
<1> HIDE DEF upto, g
<1>7. upto = [i \in 0 .. m |-> IF i = 0 THEN a ELSE following(i, upto[i - 1])]  BY <1>6 DEF following
<1>8. upto[0] = a /\ \A i \in 1 .. m : upto[i] = following(i, upto[i - 1])
  <2>1. 0 \in 0 .. m /\ \A i \in 1 .. m : i \in 0 .. m /\ i # 0  BY <1>1
  <2> QED  BY <1>7, <2>1
<1> DEFINE Good == {i \in Nat : i <= m => upto[i] \in D}
<1>9. 0 \in Good  BY <1>1, <1>8
<1>10. ASSUME NEW i \in Nat, i \in Good PROVE i + 1 \in Good
  <2> SUFFICES ASSUME i + 1 <= m PROVE upto[i + 1] \in D  OBVIOUS
  <2>1. i + 1 \in 1 .. m /\ (i + 1) - 1 = i /\ i <= m  BY <1>1
  <2>2. upto[i] \in D  BY <1>10, <2>1
  <2> QED  BY <1>1, <1>8, <2>1, <2>2
<1>11. \A i \in Nat : i \in Good
  <2> HIDE DEF Good
  <2> QED  BY <1>9, <1>10, SetInduction
<1>12. upto \in [0 .. m -> D]
  <2>1. \A i \in 0 .. m : upto[i] \in D  BY <1>1, <1>11
  <2>2. DOMAIN upto = 0 .. m  BY <1>7
  <2> QED  BY <2>1, <2>2, <1>7
<1> QED  BY <1>2, <1>8, <1>12 DEF following, a, D, m

(* The lengths l grow by the costs c that are added up to the total t.     *)
Growing(m, c, l, t) ==
  /\ m \in Nat /\ t[0] = 0
  /\ \A i \in 1 .. m : c[i] \in Nat \ {0}
  /\ \A i \in 0 .. m : l[i] \in Nat
  /\ \A i \in 0 .. m : t[i] \in Nat
  /\ \A i \in 1 .. m : t[i] = t[i - 1] + c[i] /\ l[i] = l[i - 1] + c[i]

(* The last length is the first one and the total.                         *)
LEMMA Sums ==
  ASSUME NEW m, NEW c, NEW l, NEW t, Growing(m, c, l, t)
  PROVE  l[m] = l[0] + t[m] /\ (m # 0 => t[m] # 0)
<1> USE DEF Growing
<1> DEFINE Good == {i \in Nat : i <= m => l[i] = l[0] + t[i]}
<1>1. 0 \in Good
  <2>1. 0 \in 0 .. m  OBVIOUS
  <2>2. l[0] \in Nat  BY <2>1
  <2> QED  BY <2>2
<1>2. ASSUME NEW i \in Nat, i \in Good PROVE i + 1 \in Good
  <2> SUFFICES ASSUME i + 1 <= m PROVE l[i + 1] = l[0] + t[i + 1]  OBVIOUS
  <2>1. i + 1 \in 1 .. m /\ (i + 1) - 1 = i /\ i <= m /\ i \in 0 .. m /\ 0 \in 0 .. m  OBVIOUS
  <2>2. l[i] = l[0] + t[i]  BY <1>2, <2>1
  <2>3. t[i + 1] = t[i] + c[i + 1] /\ l[i + 1] = l[i] + c[i + 1]  BY <2>1
  <2>4. l[0] \in Nat /\ t[i] \in Nat /\ c[i + 1] \in Nat  BY <2>1
  <2> QED  BY <2>2, <2>3, <2>4
<1>3. \A i \in Nat : i \in Good
  <2> HIDE DEF Good
  <2> QED  BY <1>1, <1>2, SetInduction
<1>4. m # 0 => t[m] # 0
  <2> SUFFICES ASSUME m # 0 PROVE t[m] # 0  OBVIOUS
  <2>1. m \in 1 .. m /\ m - 1 \in 0 .. m  OBVIOUS
  <2>2. t[m] = t[m - 1] + c[m] /\ c[m] \in Nat \ {0} /\ t[m - 1] \in Nat  BY <2>1
  <2> QED  BY <2>2
<1> QED  BY <1>3, <1>4

(* A list of simple actions adds as many frames as it costs.               *)
LEMMA ApplyAllIs ==
  ASSUME NEW x \in DoneKind, NEW acts, IsList(acts), acts # <<>>, \A b \in Range(acts) : LegalSimple(b)
  PROVE  LET cost == Total([i \in DOMAIN acts |-> SimpleCost(acts[i])]) IN
         /\ ApplyAll(x, acts) \in DoneKind
         /\ cost \in Nat \ {0}
         /\ Len(ApplyAll(x, acts).frames) = Len(x.frames) + cost
<1>1. PICK m : m = Len(acts)  OBVIOUS
<1>2. m \in Nat /\ m # 0 /\ DOMAIN acts = 1 .. m  BY <1>1 DEF IsList
<1>3. \A i \in 1 .. m : LegalSimple(acts[i])  BY <1>2 DEF Range
<1>4. PICK c : c = [i \in DOMAIN acts |-> SimpleCost(acts[i])]  OBVIOUS
<1>5. \A i \in 1 .. m : c[i] = SimpleCost(acts[i]) /\ c[i] \in Nat \ {0}
  <2> SUFFICES ASSUME NEW i \in 1 .. m PROVE c[i] = SimpleCost(acts[i]) /\ c[i] \in Nat \ {0}  OBVIOUS
  <2>1. c[i] = SimpleCost(acts[i])  BY <1>2, <1>4
  <2>2. SimpleCost(acts[i]) \in Nat \ {0}  BY <1>3, ApplyIs
  <2> QED  BY <2>1, <2>2
<1>6. Len(c) = m
  <2>1. c \in [1 .. m -> Nat]  BY <1>2, <1>4, <1>5
  <2> QED  BY <1>2, <2>1, FunctionIsSeq
<1>7. PICK t \in [0 .. m -> Nat] : /\ t[0] = 0
                                   /\ \A i \in 1 .. m : t[i] = t[i - 1] + c[i]
                                   /\ Total(c) = t[m]
  BY <1>2, <1>5, <1>6, TotalRuns
<1>8. PICK u \in [0 .. m -> DoneKind] : /\ u[0] = x
                                        /\ \A i \in 1 .. m : u[i] = Apply(u[i - 1], acts[i])
                                        /\ ApplyAll(x, acts) = u[m]
  BY <1>1, <1>2, <1>3, ApplyAllRuns
<1> DEFINE l == [i \in 0 .. m |-> Len(u[i].frames)]
<1>9. \A i \in 0 .. m : l[i] \in Nat
  <2> SUFFICES ASSUME NEW i \in 0 .. m PROVE l[i] \in Nat  OBVIOUS
  <2>1. u[i] \in DoneKind  BY <1>8
  <2>2. u[i].frames \in Seq(PlannedFrames)  BY <2>1 DEF DoneKind
  <2>3. Len(u[i].frames) \in Nat  BY <2>2, LenProperties
  <2> QED  BY <2>3
<1>10. \A i \in 1 .. m : l[i] = l[i - 1] + c[i]
  <2> SUFFICES ASSUME NEW i \in 1 .. m PROVE l[i] = l[i - 1] + c[i]  OBVIOUS
  <2>1. i - 1 \in 0 .. m /\ i \in 0 .. m  BY <1>2
  <2>2. u[i - 1] \in DoneKind /\ u[i] = Apply(u[i - 1], acts[i])  BY <1>8, <2>1
  <2>3. Len(u[i].frames) = Len(u[i - 1].frames) + SimpleCost(acts[i])  BY <1>3, <2>2, ApplyIs
  <2> QED  BY <1>5, <2>1, <2>3
<1>11. l[0] = Len(x.frames) /\ l[m] = Len(ApplyAll(x, acts).frames)  BY <1>2, <1>8
<1> HIDE DEF l
<1>12. l[m] = l[0] + t[m] /\ t[m] # 0
  <2>1. \A i \in 0 .. m : t[i] \in Nat  BY <1>7
  <2>2. \A i \in 1 .. m : t[i] = t[i - 1] + c[i] /\ l[i] = l[i - 1] + c[i]  BY <1>7, <1>10
  <2>3. t[0] = 0 /\ \A i \in 1 .. m : c[i] \in Nat \ {0}  BY <1>5, <1>7
  <2>4. Growing(m, c, l, t)  BY <1>2, <1>9, <2>1, <2>2, <2>3 DEF Growing
  <2> QED  BY <1>2, <2>4, Sums
<1>13. ApplyAll(x, acts) \in DoneKind /\ t[m] \in Nat  BY <1>2, <1>7, <1>8
<1> QED  BY <1>4, <1>7, <1>11, <1>12, <1>13

(* A list of actions is repeated.                                          *)
LEMMA RepeatRuns ==
  ASSUME NEW x \in DoneKind, NEW act, act.op = "repeat", act.times \in Nat,
         IsList(act.actions), act.actions # <<>>, \A b \in Range(act.actions) : LegalSimple(b)
  PROVE  \E u \in [0 .. act.times -> DoneKind] :
           /\ u[0] = x
           /\ \A i \in 1 .. act.times : u[i] = ApplyAll(u[i - 1], act.actions)
           /\ ApplyAny(x, act) = u[act.times]
<1> DEFINE D == DoneKind
           a == x
           m == act.times
           following(i, y) == ApplyAll(y, act.actions)
           g == [q \in Nat \X D |-> IF q[1] \in 1 .. m THEN following(q[1], q[2]) ELSE q[2]]
           R(f) == f = [i \in 0 .. m |-> IF i = 0 THEN a ELSE ApplyAll(f[i - 1], act.actions)]
           upto == CHOOSE f : R(f)
<1>1. m \in Nat /\ a \in D /\ \A i \in 1 .. m : \A y \in D : following(i, y) \in D
  BY ApplyAllIs
<1>2. ApplyAny(x, act) = upto[m]  BY DEF ApplyAny, Iterate
<1> HIDE DEF following, D, a, m
<1>3. g \in [Nat \X D -> D]
  <2>1. ASSUME NEW q \in Nat \X D PROVE (IF q[1] \in 1 .. m THEN following(q[1], q[2]) ELSE q[2]) \in D
    <3>1. q[2] \in D  OBVIOUS
    <3> QED  BY <3>1, <1>1
  <2> QED  BY <2>1
<1>4. PICK f : IsIteration(f, D, a, g, m)
  <2> HIDE DEF g
  <2> QED  BY <1>1, <1>3, Iterates
<1>5. R(f)
  <2>1. ASSUME NEW i \in 0 .. m, i # 0 PROVE f[i] = following(i, f[i - 1])
    <3>1. i \in 1 .. m /\ i \in Nat /\ i - 1 \in 0 .. m  BY <1>1, <2>1
    <3>2. f[i - 1] \in D  BY <3>1, <1>4 DEF IsIteration
    <3>3. <<i, f[i - 1]>> \in Nat \X D /\ <<i, f[i - 1]>>[1] = i /\ <<i, f[i - 1]>>[2] = f[i - 1]  BY <3>1, <3>2
    <3>4. g[<<i, f[i - 1]>>] = following(i, f[i - 1])  BY <3>1, <3>3
    <3> HIDE DEF g
    <3> QED  BY <1>4, <3>1, <3>4 DEF IsIteration
  <2>2. f \in [0 .. m -> D] /\ f[0] = a  BY <1>4 DEF IsIteration
  <2>3. f = [i \in 0 .. m |-> IF i = 0 THEN a ELSE following(i, f[i - 1])]  BY <2>1, <2>2
  <2> QED  BY <2>3 DEF following
<1>6. R(upto)
  <2> HIDE DEF R
  <2> QED  BY <1>5
<1> HIDE DEF upto, g
<1>7. upto = [i \in 0 .. m |-> IF i = 0 THEN a ELSE following(i, upto[i - 1])]  BY <1>6 DEF following
<1>8. upto[0] = a /\ \A i \in 1 .. m : upto[i] = following(i, upto[i - 1])
  <2>1. 0 \in 0 .. m /\ \A i \in 1 .. m : i \in 0 .. m /\ i # 0  BY <1>1
  <2> QED  BY <1>7, <2>1
<1> DEFINE Good == {i \in Nat : i <= m => upto[i] \in D}
<1>9. 0 \in Good  BY <1>1, <1>8
<1>10. ASSUME NEW i \in Nat, i \in Good PROVE i + 1 \in Good
  <2> SUFFICES ASSUME i + 1 <= m PROVE upto[i + 1] \in D  OBVIOUS
  <2>1. i + 1 \in 1 .. m /\ (i + 1) - 1 = i /\ i <= m  BY <1>1
  <2>2. upto[i] \in D  BY <1>10, <2>1
  <2> QED  BY <1>1, <1>8, <2>1, <2>2
<1>11. \A i \in Nat : i \in Good
  <2> HIDE DEF Good
  <2> QED  BY <1>9, <1>10, SetInduction
<1>12. upto \in [0 .. m -> D]
  <2>1. \A i \in 0 .. m : upto[i] \in D  BY <1>1, <1>11
  <2>2. DOMAIN upto = 0 .. m  BY <1>7
  <2> QED  BY <2>1, <2>2, <1>7
<1> QED  BY <1>2, <1>8, <1>12 DEF following, a, D, m

(* So does any action.                                                     *)
LEMMA ApplyAnyIs ==
  ASSUME NEW x \in DoneKind, NEW act, Legal(act), act.op = "repeat" => IsList(act.actions)
  PROVE  /\ ApplyAny(x, act) \in DoneKind
         /\ Cost(act) \in Nat \ {0}
         /\ Len(ApplyAny(x, act).frames) = Len(x.frames) + Cost(act)
<1>1. CASE act.op # "repeat"
  <2>1. LegalSimple(act) /\ ApplyAny(x, act) = Apply(x, act) /\ Cost(act) = SimpleCost(act)
    BY <1>1 DEF Legal, ApplyAny, Cost
  <2> QED  BY <2>1, ApplyIs
<1>2. CASE act.op = "repeat"
  <2> DEFINE acts == act.actions
  <2>1. PICK n : n = act.times  OBVIOUS
  <2>2. n \in Nat /\ n # 0 /\ acts # <<>> /\ IsList(acts) /\ \A b \in Range(acts) : LegalSimple(b)
    <3>1. act.times \in 1 .. 64 /\ acts # <<>> /\ \A b \in Range(acts) : LegalSimple(b)  BY <1>2 DEF Legal
    <3>2. n \in 1 .. 64  BY <2>1, <3>1
    <3>3. n \in Nat /\ n # 0  BY <3>2
    <3> QED  BY <1>2, <3>1, <3>3
  <2>3. PICK each : each = Total([i \in DOMAIN acts |-> SimpleCost(acts[i])])  OBVIOUS
  <2>4. Cost(act) = n * each  BY <1>2, <2>1, <2>3 DEF Cost
  <2>5. PICK u \in [0 .. n -> DoneKind] : /\ u[0] = x
                                          /\ \A i \in 1 .. n : u[i] = ApplyAll(u[i - 1], acts)
                                          /\ ApplyAny(x, act) = u[n]
    BY <1>2, <2>1, <2>2, RepeatRuns
  <2>6. ApplyAny(x, act) = u[n]  BY <2>5
  <2>7. each \in Nat /\ each # 0 /\ \A y \in DoneKind : Len(ApplyAll(y, acts).frames) = Len(y.frames) + each
    BY <2>2, <2>3, ApplyAllIs
  <2>8. \A i \in 0 .. n : Len(u[i].frames) \in Nat
    <3> SUFFICES ASSUME NEW i \in 0 .. n PROVE Len(u[i].frames) \in Nat  OBVIOUS
    <3>1. u[i] \in DoneKind  BY <2>5
    <3>2. u[i].frames \in Seq(PlannedFrames)  BY <3>1 DEF DoneKind
    <3> QED  BY <3>2, LenProperties
  <2> HIDE DEF acts
  <2> DEFINE Good == {i \in Nat : i <= n => Len(u[i].frames) = Len(x.frames) + i * each}
  <2>9. 0 \in Good
    <3>1. 0 \in 0 .. n /\ 0 * each = 0  BY <2>2, <2>7
    <3>2. Len(x.frames) \in Nat  BY <2>5, <2>8, <3>1
    <3> QED  BY <2>5, <3>1, <3>2
  <2>10. ASSUME NEW i \in Nat, i \in Good PROVE i + 1 \in Good
    <3> SUFFICES ASSUME i + 1 <= n PROVE Len(u[i + 1].frames) = Len(x.frames) + (i + 1) * each  OBVIOUS
    <3>1. i + 1 \in 1 .. n /\ (i + 1) - 1 = i /\ i <= n /\ i \in 0 .. n /\ 0 \in 0 .. n  BY <2>2
    <3>2. Len(u[i].frames) = Len(x.frames) + i * each  BY <2>10, <3>1
    <3>3. u[i] \in DoneKind /\ u[i + 1] = ApplyAll(u[i], acts)  BY <2>5, <3>1
    <3>4. Len(u[i + 1].frames) = Len(u[i].frames) + each  BY <2>7, <3>3
    <3>5. PICK a, b : a = Len(x.frames) /\ b = i * each  OBVIOUS
    <3>6. a \in Nat  BY <2>5, <2>8, <3>1, <3>5
    <3>7. b \in Nat /\ (i + 1) * each = b + each  BY <2>7, <3>5
    <3>8. Len(u[i + 1].frames) = (a + b) + each  BY <3>2, <3>4, <3>5
    <3>9. (a + b) + each = a + (b + each)  BY <2>7, <3>6, <3>7
    <3> QED  BY <3>5, <3>7, <3>8, <3>9
  <2>11. n \in Good
    <3> HIDE DEF Good
    <3> QED  BY <2>2, <2>9, <2>10, SetInduction
  <2>12. u[n] \in DoneKind
    <3>1. n \in 0 .. n  BY <2>2
    <3> QED  BY <3>1, <2>5
  <2>13. n * each \in Nat \ {0}  BY <2>2, <2>7
  <2> QED  BY <2>2, <2>4, <2>6, <2>11, <2>12, <2>13
<1> QED  BY <1>1, <1>2

(* A plan is expanded action by action.                                    *)
LEMMA ExpandRuns ==
  ASSUME NEW body, Len(body) \in Nat,
         \A i \in 1 .. Len(body) : Legal(body[i]) /\ (body[i].op = "repeat" => IsList(body[i].actions))
  PROVE  \E u \in [0 .. Len(body) -> DoneKind] :
           /\ u[0] = [frames |-> <<>>, current |-> DefaultFrame]
           /\ \A i \in 1 .. Len(body) : u[i] = ApplyAny(u[i - 1], body[i])
           /\ Expand(body) = u[Len(body)].frames
<1> DEFINE D == DoneKind
           a == [frames |-> <<>>, current |-> DefaultFrame]
           m == Len(body)
           following(i, y) == ApplyAny(y, body[i])
           g == [q \in Nat \X D |-> IF q[1] \in 1 .. m THEN following(q[1], q[2]) ELSE q[2]]
           R(f) == f = [i \in 0 .. m |-> IF i = 0 THEN a ELSE ApplyAny(f[i - 1], body[i])]
           upto == CHOOSE f : R(f)
<1>1. m \in Nat /\ a \in D /\ \A i \in 1 .. m : \A y \in D : following(i, y) \in D
  <2>1. a \in D
    <3>1. <<>> \in Seq(PlannedFrames)  OBVIOUS
    <3> QED  BY <3>1, DefaultIsFull, FullIsPlanned DEF DoneKind
  <2> HIDE DEF a
  <2> QED  BY <2>1, ApplyAnyIs
<1>2. Expand(body) = upto[m].frames  BY DEF Expand, Iterate
<1> HIDE DEF following, D, a, m
<1>3. g \in [Nat \X D -> D]
  <2>1. ASSUME NEW q \in Nat \X D PROVE (IF q[1] \in 1 .. m THEN following(q[1], q[2]) ELSE q[2]) \in D
    <3>1. q[2] \in D  OBVIOUS
    <3> QED  BY <3>1, <1>1
  <2> QED  BY <2>1
<1>4. PICK f : IsIteration(f, D, a, g, m)
  <2> HIDE DEF g
  <2> QED  BY <1>1, <1>3, Iterates
<1>5. R(f)
  <2>1. ASSUME NEW i \in 0 .. m, i # 0 PROVE f[i] = following(i, f[i - 1])
    <3>1. i \in 1 .. m /\ i \in Nat /\ i - 1 \in 0 .. m  BY <1>1, <2>1
    <3>2. f[i - 1] \in D  BY <3>1, <1>4 DEF IsIteration
    <3>3. <<i, f[i - 1]>> \in Nat \X D /\ <<i, f[i - 1]>>[1] = i /\ <<i, f[i - 1]>>[2] = f[i - 1]  BY <3>1, <3>2
    <3>4. g[<<i, f[i - 1]>>] = following(i, f[i - 1])  BY <3>1, <3>3
    <3> HIDE DEF g
    <3> QED  BY <1>4, <3>1, <3>4 DEF IsIteration
  <2>2. f \in [0 .. m -> D] /\ f[0] = a  BY <1>4 DEF IsIteration
  <2>3. f = [i \in 0 .. m |-> IF i = 0 THEN a ELSE following(i, f[i - 1])]  BY <2>1, <2>2
  <2> QED  BY <2>3 DEF following
<1>6. R(upto)
  <2> HIDE DEF R
  <2> QED  BY <1>5
<1> HIDE DEF upto, g
<1>7. upto = [i \in 0 .. m |-> IF i = 0 THEN a ELSE following(i, upto[i - 1])]  BY <1>6 DEF following
<1>8. upto[0] = a /\ \A i \in 1 .. m : upto[i] = following(i, upto[i - 1])
  <2>1. 0 \in 0 .. m /\ \A i \in 1 .. m : i \in 0 .. m /\ i # 0  BY <1>1
  <2> QED  BY <1>7, <2>1
<1> DEFINE Good == {i \in Nat : i <= m => upto[i] \in D}
<1>9. 0 \in Good  BY <1>1, <1>8
<1>10. ASSUME NEW i \in Nat, i \in Good PROVE i + 1 \in Good
  <2> SUFFICES ASSUME i + 1 <= m PROVE upto[i + 1] \in D  OBVIOUS
  <2>1. i + 1 \in 1 .. m /\ (i + 1) - 1 = i /\ i <= m  BY <1>1
  <2>2. upto[i] \in D  BY <1>10, <2>1
  <2> QED  BY <1>1, <1>8, <2>1, <2>2
<1>11. \A i \in Nat : i \in Good
  <2> HIDE DEF Good
  <2> QED  BY <1>9, <1>10, SetInduction
<1>12. upto \in [0 .. m -> D]
  <2>1. \A i \in 0 .. m : upto[i] \in D  BY <1>1, <1>11
  <2>2. DOMAIN upto = 0 .. m  BY <1>7
  <2> QED  BY <2>1, <2>2, <1>7
<1> QED  BY <1>2, <1>8, <1>12 DEF following, a, D, m

(* A legal plan expands to as many frames as it costs.                     *)
LEMMA ExpandIs ==
  ASSUME NEW body, IsList(body), body # <<>>, \A b \in Range(body) : Legal(b),
         \A b \in Range(body) : b.op = "repeat" => IsList(b.actions)
  PROVE  LET cost == Total([i \in DOMAIN body |-> Cost(body[i])]) IN
         /\ Expand(body) \in Seq(PlannedFrames)
         /\ cost \in Nat \ {0}
         /\ Len(Expand(body)) = cost
<1>1. PICK m : m = Len(body)  OBVIOUS
<1>2. m \in Nat /\ m # 0 /\ DOMAIN body = 1 .. m  BY <1>1 DEF IsList
<1>3. \A i \in 1 .. m : Legal(body[i]) /\ (body[i].op = "repeat" => IsList(body[i].actions))  BY <1>2 DEF Range
<1>4. PICK c : c = [i \in DOMAIN body |-> Cost(body[i])]  OBVIOUS
<1>0. PICK x : x = [frames |-> <<>>, current |-> DefaultFrame]  OBVIOUS
<1>x. x \in DoneKind /\ Len(x.frames) = 0
  <2>1. <<>> \in Seq(PlannedFrames) /\ Len(<<>>) = 0  OBVIOUS
  <2> QED  BY <1>0, <2>1, DefaultIsFull, FullIsPlanned DEF DoneKind
<1>5. \A i \in 1 .. m : c[i] = Cost(body[i]) /\ c[i] \in Nat \ {0}
  <2> SUFFICES ASSUME NEW i \in 1 .. m PROVE c[i] = Cost(body[i]) /\ c[i] \in Nat \ {0}  OBVIOUS
  <2>1. c[i] = Cost(body[i])  BY <1>2, <1>4
  <2>2. Cost(body[i]) \in Nat \ {0}  BY <1>3, <1>x, ApplyAnyIs
  <2> QED  BY <2>1, <2>2
<1>6. Len(c) = m
  <2>1. c \in [1 .. m -> Nat]  BY <1>2, <1>4, <1>5
  <2> QED  BY <1>2, <2>1, FunctionIsSeq
<1>7. PICK t \in [0 .. m -> Nat] : /\ t[0] = 0
                                   /\ \A i \in 1 .. m : t[i] = t[i - 1] + c[i]
                                   /\ Total(c) = t[m]
  BY <1>2, <1>5, <1>6, TotalRuns
<1>8. PICK u \in [0 .. m -> DoneKind] : /\ u[0] = x
                                        /\ \A i \in 1 .. m : u[i] = ApplyAny(u[i - 1], body[i])
                                        /\ Expand(body) = u[m].frames
  BY <1>0, <1>1, <1>2, <1>3, ExpandRuns
<1>e. Expand(body) = u[m].frames  BY <1>8
<1> DEFINE l == [i \in 0 .. m |-> Len(u[i].frames)]
<1>9. \A i \in 0 .. m : l[i] \in Nat
  <2> SUFFICES ASSUME NEW i \in 0 .. m PROVE l[i] \in Nat  OBVIOUS
  <2>1. u[i] \in DoneKind  BY <1>8
  <2>2. u[i].frames \in Seq(PlannedFrames)  BY <2>1 DEF DoneKind
  <2>3. Len(u[i].frames) \in Nat  BY <2>2, LenProperties
  <2> QED  BY <2>3
<1>10. \A i \in 1 .. m : l[i] = l[i - 1] + c[i]
  <2> SUFFICES ASSUME NEW i \in 1 .. m PROVE l[i] = l[i - 1] + c[i]  OBVIOUS
  <2>1. i - 1 \in 0 .. m /\ i \in 0 .. m  BY <1>2
  <2>2. u[i - 1] \in DoneKind /\ u[i] = ApplyAny(u[i - 1], body[i])  BY <1>8, <2>1
  <2>3. Len(u[i].frames) = Len(u[i - 1].frames) + Cost(body[i])  BY <1>3, <2>2, ApplyAnyIs
  <2> QED  BY <1>5, <2>1, <2>3
<1>11. l[0] = 0 /\ l[m] = Len(Expand(body))
  <2>1. 0 \in 0 .. m /\ m \in 0 .. m  BY <1>2
  <2>2. l[0] = Len(u[0].frames) /\ l[m] = Len(u[m].frames)  BY <2>1
  <2> HIDE DEF l
  <2> QED  BY <2>2, <1>8, <1>e, <1>x
<1> HIDE DEF l
<1>12. l[m] = l[0] + t[m] /\ t[m] # 0
  <2>1. \A i \in 0 .. m : t[i] \in Nat  BY <1>7
  <2>2. \A i \in 1 .. m : t[i] = t[i - 1] + c[i] /\ l[i] = l[i - 1] + c[i]  BY <1>7, <1>10
  <2>3. t[0] = 0 /\ \A i \in 1 .. m : c[i] \in Nat \ {0}  BY <1>5, <1>7
  <2>4. Growing(m, c, l, t)  BY <1>2, <1>9, <2>1, <2>2, <2>3 DEF Growing
  <2> QED  BY <1>2, <2>4, Sums
<1>13. u[m] \in DoneKind /\ t[m] \in Nat
  <2>1. m \in 0 .. m  BY <1>2
  <2> QED  BY <2>1, <1>7, <1>8
<1>14. Expand(body) \in Seq(PlannedFrames)  BY <1>13, <1>e DEF DoneKind
<1>15. Len(Expand(body)) = t[m]  BY <1>11, <1>12, <1>13
<1> QED  BY <1>4, <1>7, <1>12, <1>13, <1>14, <1>15

(* The values before the first frame are those of a whole frame.           *)
LEMMA BeforeIsFull ==
  ASSUME NEW sh, Fits(sh)
  PROVE  Before(sh) \in FullFrames
<1> DEFINE new == Only(sh, FrameFields)
<1>1. DOMAIN new \subseteq FrameFields /\ Fits(new)  BY DEF Only, Fits
<1> HIDE DEF new
<1>2. Over(new, DefaultFrame) \in FullFrames  BY <1>1, DefaultIsFull, OverIsFull
<1> QED  BY <1>2 DEF Before, DefaultFrame, new

(* Or those of a planned one.                                              *)
LEMMA BeforeIsPlanned ==
  ASSUME NEW sh, \A f \in DOMAIN sh : sh[f] \in Planned(f)
  PROVE  Before(sh) \in PlannedFrames
<1> DEFINE new == Only(sh, FrameFields)
<1>1. DOMAIN new \subseteq FrameFields /\ \A f \in DOMAIN new : new[f] \in Planned(f)  BY DEF Only
<1> HIDE DEF new
<1>2. Over(new, DefaultFrame) \in PlannedFrames  BY <1>1, DefaultIsFull, FullIsPlanned, OverIsPlanned
<1> QED  BY <1>2 DEF Before, DefaultFrame, new

(* What is read of a whole frame is a whole frame.                         *)
LEMMA ReadIsFull ==
  ASSUME NEW r \in FullFrames
  PROVE  ReadRecord(r) \in FullFrames
<1>1. Fits(r) /\ DOMAIN r = FrameFields  BY DEF FullFrames
<1>2. PICK x : x = ReadRecord(r)  OBVIOUS
<1>3. x = [f \in FrameFields |-> Trimmed(r[f])]  BY <1>1, <1>2 DEF ReadRecord
<1>4. \A f \in FrameFields : x[f] \in DomainOf(f)
  <2> SUFFICES ASSUME NEW f \in FrameFields PROVE x[f] \in DomainOf(f)  OBVIOUS
  <2>1. r[f] \in DomainOf(f)  BY <1>1 DEF Fits
  <2> QED  BY <1>3, <2>1, FieldAssumption
<1>5. DOMAIN x = FrameFields /\ x \in [FrameFields -> UNION {DomainOf(f) : f \in FrameFields}]  BY <1>3, <1>4
<1>6. x \in FullFrames  BY <1>4, <1>5 DEF FullFrames, Fits
<1> QED  BY <1>2, <1>6

(* A planned frame takes nothing from the frame before it.                 *)
LEMMA FullOver ==
  ASSUME NEW r \in PlannedFrames, NEW y \in PlannedFrames
  PROVE  Over(r, y) = r /\ Merge(r, y) = r
<1>1. DOMAIN r = FrameFields /\ DOMAIN y = FrameFields /\ \A f \in FrameFields : r[f] \in Planned(f)
  BY DEF PlannedFrames
<1>2. r = [f \in FrameFields |-> r[f]]  BY <1>1 DEF PlannedFrames
<1>3. Over(r, y) = r
  <2>1. Over(r, y) = [f \in FrameFields |-> r[f]]
    <3>1. DOMAIN r \cup DOMAIN y = FrameFields  BY <1>1
    <3> QED  BY <1>1, <3>1 DEF Over
  <2> QED  BY <1>2, <2>1
<1>4. {f \in FrameFields : f \in DOMAIN r => r[f] # Unset} = FrameFields
  <2>1. \A f \in FrameFields : Unset \notin Planned(f)  BY FieldAssumption, AnswerAssumption DEF Planned
  <2>2. \A f \in FrameFields : r[f] # Unset  BY <1>1, <2>1
  <2> QED  BY <2>2
<1>5. Only(r, FrameFields) = r  BY <1>1, <1>2 DEF Only
<1> QED  BY <1>3, <1>4, <1>5 DEF Merge

(* A testcase is built frame by frame.                                     *)
LEMMA BuildRuns ==
  ASSUME NEW fs \in Seq(PlannedFrames), NEW sh, \A f \in DOMAIN sh : sh[f] \in Planned(f)
  PROVE  \E u \in [0 .. Len(fs) -> PlannedFrames] :
           /\ u[0] = Before(sh)
           /\ \A i \in 1 .. Len(fs) : u[i] = Merge(fs[i], u[i - 1])
           /\ BuildTestcase(fs, sh) =
                IF /\ \A i \in DOMAIN fs : DOMAIN fs[i] \subseteq FrameFields
                   /\ Fits(sh) /\ \A i \in DOMAIN fs : Fits(u[i])
                THEN [error |-> FALSE, shared |-> sh, frames |-> [i \in DOMAIN fs |-> u[i]]]
                ELSE FormatError
<1> DEFINE D == PlannedFrames
           a == Before(sh)
           m == Len(fs)
           following(i, y) == Merge(fs[i], y)
           g == [q \in Nat \X D |-> IF q[1] \in 1 .. m THEN following(q[1], q[2]) ELSE q[2]]
           R(f) == f = [i \in 0 .. m |-> IF i = 0 THEN a ELSE Merge(fs[i], f[i - 1])]
           upto == CHOOSE f : R(f)
<1>1. m \in Nat /\ a \in D /\ \A i \in 1 .. m : \A y \in D : following(i, y) \in D
  <2>1. m \in Nat /\ \A i \in 1 .. m : fs[i] \in PlannedFrames
    BY ElementOfSeq, LenProperties
  <2>2. a \in D  BY BeforeIsPlanned
  <2> QED  BY <2>1, <2>2, FullOver
<1>2. BuildTestcase(fs, sh) =
                IF /\ \A i \in DOMAIN fs : DOMAIN fs[i] \subseteq FrameFields
                   /\ Fits(sh) /\ \A i \in DOMAIN fs : Fits(upto[i])
                THEN [error |-> FALSE, shared |-> sh, frames |-> [i \in DOMAIN fs |-> upto[i]]]
                ELSE FormatError  BY DEF BuildTestcase
<1> HIDE DEF following, D, a, m
<1>3. g \in [Nat \X D -> D]
  <2>1. ASSUME NEW q \in Nat \X D PROVE (IF q[1] \in 1 .. m THEN following(q[1], q[2]) ELSE q[2]) \in D
    <3>1. q[2] \in D  OBVIOUS
    <3> QED  BY <3>1, <1>1
  <2> QED  BY <2>1
<1>4. PICK f : IsIteration(f, D, a, g, m)
  <2> HIDE DEF g
  <2> QED  BY <1>1, <1>3, Iterates
<1>5. R(f)
  <2>1. ASSUME NEW i \in 0 .. m, i # 0 PROVE f[i] = following(i, f[i - 1])
    <3>1. i \in 1 .. m /\ i \in Nat /\ i - 1 \in 0 .. m  BY <1>1, <2>1
    <3>2. f[i - 1] \in D  BY <3>1, <1>4 DEF IsIteration
    <3>3. <<i, f[i - 1]>> \in Nat \X D /\ <<i, f[i - 1]>>[1] = i /\ <<i, f[i - 1]>>[2] = f[i - 1]  BY <3>1, <3>2
    <3>4. g[<<i, f[i - 1]>>] = following(i, f[i - 1])  BY <3>1, <3>3
    <3> HIDE DEF g
    <3> QED  BY <1>4, <3>1, <3>4 DEF IsIteration
  <2>2. f \in [0 .. m -> D] /\ f[0] = a  BY <1>4 DEF IsIteration
  <2>3. f = [i \in 0 .. m |-> IF i = 0 THEN a ELSE following(i, f[i - 1])]  BY <2>1, <2>2
  <2> QED  BY <2>3 DEF following
<1>6. R(upto)
  <2> HIDE DEF R
  <2> QED  BY <1>5
<1> HIDE DEF upto, g
<1>7. upto = [i \in 0 .. m |-> IF i = 0 THEN a ELSE following(i, upto[i - 1])]  BY <1>6 DEF following
<1>8. upto[0] = a /\ \A i \in 1 .. m : upto[i] = following(i, upto[i - 1])
  <2>1. 0 \in 0 .. m /\ \A i \in 1 .. m : i \in 0 .. m /\ i # 0  BY <1>1
  <2> QED  BY <1>7, <2>1
<1> DEFINE Good == {i \in Nat : i <= m => upto[i] \in D}
<1>9. 0 \in Good  BY <1>1, <1>8
<1>10. ASSUME NEW i \in Nat, i \in Good PROVE i + 1 \in Good
  <2> SUFFICES ASSUME i + 1 <= m PROVE upto[i + 1] \in D  OBVIOUS
  <2>1. i + 1 \in 1 .. m /\ (i + 1) - 1 = i /\ i <= m  BY <1>1
  <2>2. upto[i] \in D  BY <1>10, <2>1
  <2> QED  BY <1>1, <1>8, <2>1, <2>2
<1>11. \A i \in Nat : i \in Good
  <2> HIDE DEF Good
  <2> QED  BY <1>9, <1>10, SetInduction
<1>12. upto \in [0 .. m -> D]
  <2>1. \A i \in 0 .. m : upto[i] \in D  BY <1>1, <1>11
  <2>2. DOMAIN upto = 0 .. m  BY <1>7
  <2> QED  BY <2>1, <2>2, <1>7
<1> QED  BY <1>2, <1>8, <1>12 DEF following, a, D, m

(* What parse_testcase makes of frames with their values in u.             *)
ReadAs(fs, rs, u) ==
  IF /\ DOMAIN rs \subseteq SharedFields /\ Fits(rs)
     /\ \A i \in DOMAIN fs : DOMAIN fs[i] \subseteq FrameFields
     /\ \A i \in DOMAIN (IF fs = <<>> THEN <<u[0]>> ELSE [k \in DOMAIN fs |-> u[k]]) :
          Fits((IF fs = <<>> THEN <<u[0]>> ELSE [k \in DOMAIN fs |-> u[k]])[i])
  THEN [error |-> FALSE, shared |-> rs, frames |-> IF fs = <<>> THEN <<u[0]>> ELSE [k \in DOMAIN fs |-> u[k]]]
  ELSE FormatError

(* A testcase is read frame by frame.                                      *)
LEMMA ParseRuns ==
  ASSUME NEW fs \in Seq(FullFrames), NEW sh, NEW rs, rs = ReadRecord(sh), Fits(rs),
         NEW text, text = [error |-> FALSE, shared |-> sh, frames |-> fs], OneLine(text)
  PROVE  \E u \in [0 .. Len(fs) -> FullFrames] :
           /\ u[0] = Before(rs)
           /\ \A i \in 1 .. Len(fs) : u[i] = Over(ReadRecord(fs[i]), u[i - 1])
           /\ ParseTestcase(text) = ReadAs(fs, rs, u)
<1> DEFINE D == FullFrames
           a == Before(rs)
           m == Len(fs)
           following(i, y) == Over(ReadRecord(fs[i]), y)
           g == [q \in Nat \X D |-> IF q[1] \in 1 .. m THEN following(q[1], q[2]) ELSE q[2]]
           R(f) == f = [i \in 0 .. m |-> IF i = 0 THEN a ELSE Over(ReadRecord(fs[i]), f[i - 1])]
           upto == CHOOSE f : R(f)
<1>1. m \in Nat /\ a \in D /\ \A i \in 1 .. m : \A y \in D : following(i, y) \in D
  <2>1. m \in Nat /\ \A i \in 1 .. m : fs[i] \in FullFrames
    BY ElementOfSeq, LenProperties
  <2>2. a \in D  BY BeforeIsFull
  <2>3. \A i \in 1 .. m : ReadRecord(fs[i]) \in FullFrames  BY <2>1, ReadIsFull
  <2>4. ASSUME NEW r \in FullFrames, NEW y \in FullFrames PROVE Over(r, y) \in FullFrames
    BY <2>4, FullOver, FullIsPlanned
  <2> QED  BY <2>2, <2>3, <2>4
<1>2. ParseTestcase(text) = ReadAs(fs, rs, upto)  BY DEF ParseTestcase, ReadAs
<1> HIDE DEF following, D, a, m
<1>3. g \in [Nat \X D -> D]
  <2>1. ASSUME NEW q \in Nat \X D PROVE (IF q[1] \in 1 .. m THEN following(q[1], q[2]) ELSE q[2]) \in D
    <3>1. q[2] \in D  OBVIOUS
    <3> QED  BY <3>1, <1>1
  <2> QED  BY <2>1
<1>4. PICK f : IsIteration(f, D, a, g, m)
  <2> HIDE DEF g
  <2> QED  BY <1>1, <1>3, Iterates
<1>5. R(f)
  <2>1. ASSUME NEW i \in 0 .. m, i # 0 PROVE f[i] = following(i, f[i - 1])
    <3>1. i \in 1 .. m /\ i \in Nat /\ i - 1 \in 0 .. m  BY <1>1, <2>1
    <3>2. f[i - 1] \in D  BY <3>1, <1>4 DEF IsIteration
    <3>3. <<i, f[i - 1]>> \in Nat \X D /\ <<i, f[i - 1]>>[1] = i /\ <<i, f[i - 1]>>[2] = f[i - 1]  BY <3>1, <3>2
    <3>4. g[<<i, f[i - 1]>>] = following(i, f[i - 1])  BY <3>1, <3>3
    <3> HIDE DEF g
    <3> QED  BY <1>4, <3>1, <3>4 DEF IsIteration
  <2>2. f \in [0 .. m -> D] /\ f[0] = a  BY <1>4 DEF IsIteration
  <2>3. f = [i \in 0 .. m |-> IF i = 0 THEN a ELSE following(i, f[i - 1])]  BY <2>1, <2>2
  <2> QED  BY <2>3 DEF following
<1>6. R(upto)
  <2> HIDE DEF R
  <2> QED  BY <1>5
<1> HIDE DEF upto, g
<1>7. upto = [i \in 0 .. m |-> IF i = 0 THEN a ELSE following(i, upto[i - 1])]  BY <1>6 DEF following
<1>8. upto[0] = a /\ \A i \in 1 .. m : upto[i] = following(i, upto[i - 1])
  <2>1. 0 \in 0 .. m /\ \A i \in 1 .. m : i \in 0 .. m /\ i # 0  BY <1>1
  <2> QED  BY <1>7, <2>1
<1> DEFINE Good == {i \in Nat : i <= m => upto[i] \in D}
<1>9. 0 \in Good  BY <1>1, <1>8
<1>10. ASSUME NEW i \in Nat, i \in Good PROVE i + 1 \in Good
  <2> SUFFICES ASSUME i + 1 <= m PROVE upto[i + 1] \in D  OBVIOUS
  <2>1. i + 1 \in 1 .. m /\ (i + 1) - 1 = i /\ i <= m  BY <1>1
  <2>2. upto[i] \in D  BY <1>10, <2>1
  <2> QED  BY <1>1, <1>8, <2>1, <2>2
<1>11. \A i \in Nat : i \in Good
  <2> HIDE DEF Good
  <2> QED  BY <1>9, <1>10, SetInduction
<1>12. upto \in [0 .. m -> D]
  <2>1. \A i \in 0 .. m : upto[i] \in D  BY <1>1, <1>11
  <2>2. DOMAIN upto = 0 .. m  BY <1>7
  <2> QED  BY <2>1, <2>2, <1>7
<1> QED  BY <1>2, <1>8, <1>12 DEF following, a, D, m

(* A testcase that is built holds the frames it is built of, and they fit. *)
LEMMA BuiltAre ==
  ASSUME NEW fs \in Seq(PlannedFrames), fs # <<>>, ~ModelBuild(fs).error
  PROVE  /\ ModelBuild(fs) = [error |-> FALSE, shared |-> Only(fs[1], SharedFields), frames |-> fs]
         /\ fs \in Seq(FullFrames)
<1> DEFINE sh == Only(fs[1], SharedFields)
           only == [i \in DOMAIN fs |-> Only(fs[i], FrameFields)]
<1>1. /\ Len(fs) \in Nat /\ DOMAIN fs = 1 .. Len(fs) /\ 1 \in 1 .. Len(fs)
      /\ \A i \in 1 .. Len(fs) : fs[i] \in PlannedFrames
  BY ElementOfSeq, LenProperties, EmptySeq
<1>2. \A r \in PlannedFrames : /\ DOMAIN r = FrameFields /\ Only(r, FrameFields) = r
                               /\ \A f \in FrameFields : r[f] \in Planned(f)
  <2> SUFFICES ASSUME NEW r \in PlannedFrames
               PROVE  /\ DOMAIN r = FrameFields /\ Only(r, FrameFields) = r
                      /\ \A f \in FrameFields : r[f] \in Planned(f)
    OBVIOUS
  <2>1. DOMAIN r = FrameFields /\ r = [f \in FrameFields |-> r[f]] /\ \A f \in FrameFields : r[f] \in Planned(f)
    BY DEF PlannedFrames
  <2> QED  BY <2>1 DEF Only
<1>3. only = fs
  <2>1. \A i \in DOMAIN fs : Only(fs[i], FrameFields) = fs[i]  BY <1>1, <1>2
  <2>2. fs = [i \in DOMAIN fs |-> fs[i]]  OBVIOUS
  <2> QED  BY <2>1, <2>2
<1>4. \A f \in DOMAIN sh : sh[f] \in Planned(f)
  <2>1. DOMAIN fs[1] = FrameFields /\ \A f \in FrameFields : fs[1][f] \in Planned(f)  BY <1>1, <1>2
  <2> QED  BY <2>1 DEF Only
<1>5. ModelBuild(fs) = BuildTestcase(fs, sh)  BY <1>3 DEF ModelBuild
<1> HIDE DEF sh, only
<1>6. PICK u \in [0 .. Len(fs) -> PlannedFrames] :
        /\ u[0] = Before(sh)
        /\ \A i \in 1 .. Len(fs) : u[i] = Merge(fs[i], u[i - 1])
        /\ BuildTestcase(fs, sh) =
                IF /\ \A i \in DOMAIN fs : DOMAIN fs[i] \subseteq FrameFields
                   /\ Fits(sh) /\ \A i \in DOMAIN fs : Fits(u[i])
                THEN [error |-> FALSE, shared |-> sh, frames |-> [i \in DOMAIN fs |-> u[i]]]
                ELSE FormatError
  BY <1>4, BuildRuns
<1>7. \A i \in 1 .. Len(fs) : u[i] = fs[i]
  <2> SUFFICES ASSUME NEW i \in 1 .. Len(fs) PROVE u[i] = fs[i]  OBVIOUS
  <2>1. i - 1 \in 0 .. Len(fs)  BY <1>1
  <2>2. u[i - 1] \in PlannedFrames /\ fs[i] \in PlannedFrames  BY <1>1, <1>6, <2>1
  <2> QED  BY <1>6, <2>2, FullOver
<1>8. [i \in DOMAIN fs |-> u[i]] = fs
  <2>1. fs = [i \in DOMAIN fs |-> fs[i]]  OBVIOUS
  <2> QED  BY <1>1, <1>7, <2>1
<1>9. /\ \A i \in DOMAIN fs : Fits(u[i])
      /\ BuildTestcase(fs, sh) = [error |-> FALSE, shared |-> sh, frames |-> [i \in DOMAIN fs |-> u[i]]]
  <2>1. FormatError.error = TRUE  BY DEF FormatError
  <2> QED  BY <1>5, <1>6, <2>1
<1>10. \A i \in 1 .. Len(fs) : fs[i] \in FullFrames
  <2> SUFFICES ASSUME NEW i \in 1 .. Len(fs) PROVE fs[i] \in FullFrames  OBVIOUS
  <2>1. Fits(fs[i]) /\ DOMAIN fs[i] = FrameFields /\ fs[i] \in PlannedFrames  BY <1>1, <1>2, <1>7, <1>9
  <2>2. PICK r : r = fs[i]  OBVIOUS
  <2>3. r = [f \in FrameFields |-> r[f]]  BY <2>1, <2>2 DEF PlannedFrames
  <2>4. \A f \in FrameFields : r[f] \in DomainOf(f)  BY <2>1, <2>2 DEF Fits
  <2>5. r \in [FrameFields -> UNION {DomainOf(f) : f \in FrameFields}]  BY <2>3, <2>4
  <2> QED  BY <2>1, <2>2, <2>5 DEF FullFrames
<1>11. fs \in Seq(FullFrames)
  <2>1. fs \in [1 .. Len(fs) -> FullFrames]
    <3>1. fs = [i \in 1 .. Len(fs) |-> fs[i]]  BY <1>1
    <3> QED  BY <1>10, <3>1
  <2> QED  BY <1>1, <2>1
<1> QED  BY <1>5, <1>8, <1>9, <1>11 DEF sh

(* What is read of a testcase with a value on each line are the records of *)
(* the frames it was built of.                                             *)
LEMMA ReadsBack ==
  ASSUME NEW fs \in Seq(FullFrames), fs # <<>>,
         NEW text, text = [error |-> FALSE, shared |-> Only(fs[1], SharedFields), frames |-> fs], OneLine(text)
  PROVE  ParseTestcase(text).frames = [k \in DOMAIN fs |-> ReadRecord(fs[k])]
<1>0. PICK sh, rs : sh = Only(fs[1], SharedFields) /\ rs = ReadRecord(sh)  OBVIOUS
<1> DEFINE read == [k \in DOMAIN fs |-> ReadRecord(fs[k])]
<1>1. /\ Len(fs) \in Nat /\ DOMAIN fs = 1 .. Len(fs) /\ 1 \in 1 .. Len(fs)
      /\ \A i \in 1 .. Len(fs) : fs[i] \in FullFrames
  BY ElementOfSeq, LenProperties, EmptySeq
<1>2. \A r \in FullFrames : DOMAIN r = FrameFields /\ Fits(r)  BY DEF FullFrames
<1>3. \A i \in 1 .. Len(fs) : ReadRecord(fs[i]) \in FullFrames  BY <1>1, ReadIsFull
<1>4. Fits(rs) /\ DOMAIN rs \subseteq SharedFields
  <2>1. Fits(fs[1]) /\ DOMAIN fs[1] = FrameFields  BY <1>1, <1>2
  <2>2. DOMAIN sh = FrameFields \cap SharedFields /\ \A f \in DOMAIN sh : sh[f] \in DomainOf(f)
    BY <1>0, <2>1 DEF Only, Fits
  <2>3. DOMAIN rs = DOMAIN sh /\ \A f \in DOMAIN sh : rs[f] = Trimmed(sh[f])  BY <1>0 DEF ReadRecord
  <2>4. \A f \in DOMAIN sh : rs[f] \in DomainOf(f)  BY <2>2, <2>3, FieldAssumption
  <2> QED  BY <2>2, <2>3, <2>4 DEF Fits
<1>5. PICK v \in [0 .. Len(fs) -> FullFrames] :
        /\ v[0] = Before(rs)
        /\ \A i \in 1 .. Len(fs) : v[i] = Over(ReadRecord(fs[i]), v[i - 1])
        /\ ParseTestcase(text) = ReadAs(fs, rs, v)
  BY <1>0, <1>4, ParseRuns
<1>6. \A i \in 1 .. Len(fs) : v[i] = ReadRecord(fs[i])
  <2> SUFFICES ASSUME NEW i \in 1 .. Len(fs) PROVE v[i] = ReadRecord(fs[i])  OBVIOUS
  <2>1. i - 1 \in 0 .. Len(fs)  BY <1>1
  <2>2. v[i - 1] \in PlannedFrames /\ ReadRecord(fs[i]) \in PlannedFrames  BY <1>3, <1>5, <2>1, FullIsPlanned
  <2> QED  BY <1>5, <2>2, FullOver
<1>7. [k \in DOMAIN fs |-> v[k]] = read  BY <1>1, <1>6
<1>8. \A i \in DOMAIN read : Fits(read[i])  BY <1>1, <1>2, <1>3
<1>9. \A i \in DOMAIN fs : DOMAIN fs[i] \subseteq FrameFields  BY <1>1, <1>2
<1> HIDE DEF read
<1>10. PICK fr : fr = IF fs = <<>> THEN <<v[0]>> ELSE [k \in DOMAIN fs |-> v[k]]  OBVIOUS
<1>11. ParseTestcase(text) =
         IF /\ DOMAIN rs \subseteq SharedFields /\ Fits(rs)
            /\ \A i \in DOMAIN fs : DOMAIN fs[i] \subseteq FrameFields
            /\ \A i \in DOMAIN fr : Fits(fr[i])
         THEN [error |-> FALSE, shared |-> rs, frames |-> fr]
         ELSE FormatError
  BY <1>5, <1>10 DEF ReadAs
<1>12. fr = read  BY <1>7, <1>10
<1> QED  BY <1>4, <1>8, <1>9, <1>11, <1>12 DEF read

(* A plan is put among the accepted ones.                                  *)
LEMMA InsertKeeps ==
  ASSUME NEW X, NEW ps \in Seq(X), NEW p \in X
  PROVE  Insert(ps, p) \in Seq(X)
<1>1. PICK n : n = Len(ps)  OBVIOUS
<1>2. n \in Nat /\ DOMAIN ps = 1 .. n /\ \A i \in 1 .. n : ps[i] \in X  BY <1>1, ElementOfSeq, LenProperties
<1>3. PICK T : T = {i \in DOMAIN ps : ps[i].priority <= p.priority}  OBVIOUS
<1>4. PICK k : k = Cardinality(T)  OBVIOUS
<1>5. k \in Nat /\ k <= n
  <2>1. T \in SUBSET (1 .. n)  BY <1>2, <1>3
  <2>2. IsFiniteSet(1 .. n) /\ Cardinality(1 .. n) = n
    <3>1. 1 \in Int /\ n \in Int /\ (IF 1 > n THEN 0 ELSE n - 1 + 1) = n  BY <1>2
    <3> QED  BY <3>1, FS_Interval
  <2>3. IsFiniteSet(T) /\ Cardinality(T) <= n  BY <2>1, <2>2, FS_Subset
  <2> QED  BY <1>4, <2>3, FS_CardinalityType
<1>6. PICK front, back : front = SubSeq(ps, 1, (1 + k) - 1) /\ back = SubSeq(ps, 1 + k, n)  OBVIOUS
<1>7. Insert(ps, p) = (front \o <<p>>) \o back  BY <1>1, <1>3, <1>4, <1>6 DEF Insert, InsertAt
<1>8. front \in Seq(X)
  <2>1. 1 \in Int /\ (1 + k) - 1 \in Int /\ \A i \in 1 .. (1 + k) - 1 : i \in 1 .. n  BY <1>2, <1>5
  <2>2. \A i \in 1 .. (1 + k) - 1 : ps[i] \in X  BY <1>2, <2>1
  <2> QED  BY <1>6, <2>1, <2>2, SubSeqProperties
<1>9. back \in Seq(X)
  <2>1. 1 + k \in Int /\ n \in Int /\ \A i \in 1 + k .. n : i \in 1 .. n  BY <1>2, <1>5
  <2>2. \A i \in 1 + k .. n : ps[i] \in X  BY <1>2, <2>1
  <2> QED  BY <1>6, <2>1, <2>2, SubSeqProperties
<1>10. <<p>> \in Seq(X)  OBVIOUS
<1>11. front \o <<p>> \in Seq(X)  BY <1>8, <1>10, ConcatProperties
<1> QED  BY <1>7, <1>9, <1>11, ConcatProperties

(* So the accepted plans are sorted one by one.                            *)
LEMMA ByPriorityKeeps ==
  ASSUME NEW X, NEW ps \in Seq(X)
  PROVE  ByPriority(ps) \in Seq(X)
<1> SUFFICES ASSUME ~(Len(ps) <= 1) PROVE ByPriority(ps) \in Seq(X)  BY DEF ByPriority
<1> DEFINE D == Seq(X)
           a == <<>>
           m == Len(ps)
           following(i, y) == Insert(y, ps[i])
           g == [q \in Nat \X D |-> IF q[1] \in 1 .. m THEN following(q[1], q[2]) ELSE q[2]]
           R(f) == f = [i \in 0 .. m |-> IF i = 0 THEN a ELSE Insert(f[i - 1], ps[i])]
           upto == CHOOSE f : R(f)
<1>1. m \in Nat /\ a \in D /\ \A i \in 1 .. m : \A y \in D : following(i, y) \in D
  <2>1. m \in Nat /\ \A i \in 1 .. m : ps[i] \in X  BY ElementOfSeq, LenProperties
  <2>2. a \in D  OBVIOUS
  <2>3. ASSUME NEW i \in 1 .. m, NEW y \in D PROVE following(i, y) \in D  BY <2>1, InsertKeeps
  <2> QED  BY <2>1, <2>2, <2>3
<1>2. ByPriority(ps) = upto[m]  BY DEF ByPriority, Iterate
<1> HIDE DEF following, D, a, m
<1>3. g \in [Nat \X D -> D]
  <2>1. ASSUME NEW q \in Nat \X D PROVE (IF q[1] \in 1 .. m THEN following(q[1], q[2]) ELSE q[2]) \in D
    <3>1. q[2] \in D  OBVIOUS
    <3> QED  BY <3>1, <1>1
  <2> QED  BY <2>1
<1>4. PICK f : IsIteration(f, D, a, g, m)
  <2> HIDE DEF g
  <2> QED  BY <1>1, <1>3, Iterates
<1>5. R(f)
  <2>1. ASSUME NEW i \in 0 .. m, i # 0 PROVE f[i] = following(i, f[i - 1])
    <3>1. i \in 1 .. m /\ i \in Nat /\ i - 1 \in 0 .. m  BY <1>1, <2>1
    <3>2. f[i - 1] \in D  BY <3>1, <1>4 DEF IsIteration
    <3>3. <<i, f[i - 1]>> \in Nat \X D /\ <<i, f[i - 1]>>[1] = i /\ <<i, f[i - 1]>>[2] = f[i - 1]  BY <3>1, <3>2
    <3>4. g[<<i, f[i - 1]>>] = following(i, f[i - 1])  BY <3>1, <3>3
    <3> HIDE DEF g
    <3> QED  BY <1>4, <3>1, <3>4 DEF IsIteration
  <2>2. f \in [0 .. m -> D] /\ f[0] = a  BY <1>4 DEF IsIteration
  <2>3. f = [i \in 0 .. m |-> IF i = 0 THEN a ELSE following(i, f[i - 1])]  BY <2>1, <2>2
  <2> QED  BY <2>3 DEF following
<1>6. R(upto)
  <2> HIDE DEF R
  <2> QED  BY <1>5
<1> HIDE DEF upto, g
<1>7. upto = [i \in 0 .. m |-> IF i = 0 THEN a ELSE following(i, upto[i - 1])]  BY <1>6 DEF following
<1>8. upto[0] = a /\ \A i \in 1 .. m : upto[i] = following(i, upto[i - 1])
  <2>1. 0 \in 0 .. m /\ \A i \in 1 .. m : i \in 0 .. m /\ i # 0  BY <1>1
  <2> QED  BY <1>7, <2>1
<1> DEFINE Good == {i \in Nat : i <= m => upto[i] \in D}
<1>9. 0 \in Good  BY <1>1, <1>8
<1>10. ASSUME NEW i \in Nat, i \in Good PROVE i + 1 \in Good
  <2> SUFFICES ASSUME i + 1 <= m PROVE upto[i + 1] \in D  OBVIOUS
  <2>1. i + 1 \in 1 .. m /\ (i + 1) - 1 = i /\ i <= m  BY <1>1
  <2>2. upto[i] \in D  BY <1>10, <2>1
  <2> QED  BY <1>1, <1>8, <2>1, <2>2
<1>11. \A i \in Nat : i \in Good
  <2> HIDE DEF Good
  <2> QED  BY <1>9, <1>10, SetInduction
<1>12. upto \in [0 .. m -> D]
  <2>1. \A i \in 0 .. m : upto[i] \in D  BY <1>1, <1>11
  <2>2. DOMAIN upto = 0 .. m  BY <1>7
  <2> QED  BY <2>1, <2>2, <1>7
<1>13. m \in 0 .. m  BY <1>1
<1> QED  BY <1>2, <1>12, <1>13 DEF D

(* The plans of an answer are judged one after the other.                  *)
LEMMA JudgedRuns ==
  ASSUME NEW batch, IsList(batch)
  PROVE  \E u \in [0 .. Len(batch) -> [seen : SUBSET (seen \cup {<<z.task, z.body>> : z \in Range(batch)}),
   accepted : Seq({z \in Range(batch) : Valid(z)}), ended : BOOLEAN]] :
           /\ u[0] = [seen |-> seen, accepted |-> <<>>, ended |-> FALSE]
           /\ \A i \in 1 .. Len(batch) : u[i] = Judge(u[i - 1], batch[i])
           /\ Judged(batch) = u[Len(batch)]
<1> DEFINE D == [seen : SUBSET (seen \cup {<<z.task, z.body>> : z \in Range(batch)}),
   accepted : Seq({z \in Range(batch) : Valid(z)}), ended : BOOLEAN]
           a == [seen |-> seen, accepted |-> <<>>, ended |-> FALSE]
           m == Len(batch)
           following(i, y) == Judge(y, batch[i])
           g == [q \in Nat \X D |-> IF q[1] \in 1 .. m THEN following(q[1], q[2]) ELSE q[2]]
           R(f) == f = [i \in 0 .. m |-> IF i = 0 THEN a ELSE Judge(f[i - 1], batch[i])]
           upto == CHOOSE f : R(f)
<1>1. m \in Nat /\ a \in D /\ \A i \in 1 .. m : \A y \in D : following(i, y) \in D
  <2>1. m \in Nat /\ \A i \in 1 .. m : batch[i] \in Range(batch)
    <3>1. m \in Nat /\ DOMAIN batch = 1 .. m  BY DEF IsList
    <3> QED  BY <3>1 DEF Range
  <2>2. a \in D  OBVIOUS
  <2>3. ASSUME NEW i \in 1 .. m, NEW y \in D PROVE following(i, y) \in D
    <3>1. PICK p : p = batch[i]  OBVIOUS
    <3>2. p \in Range(batch)  BY <2>1, <3>1
    <3>3. CASE y.ended
      <4>1. Judge(y, p) = y  BY <3>3 DEF Judge
      <4> QED  BY <3>1, <4>1
    <3>4. CASE ~y.ended /\ p.task \in PlanTasks /\ ~p.named
      <4>1. Judge(y, p) = [y EXCEPT !.accepted = <<>>, !.ended = TRUE]  BY <3>4 DEF Judge
      <4>2. <<>> \in Seq({z \in Range(batch) : Valid(z)})  OBVIOUS
      <4> QED  BY <3>1, <4>1, <4>2
    <3>5. CASE ~y.ended /\ ~(p.task \in PlanTasks /\ ~p.named) /\ Valid(p) /\ FreshPlan(p, y.seen)
      <4>1. Append(y.accepted, p) \in Seq({z \in Range(batch) : Valid(z)})
        <5>1. p \in {z \in Range(batch) : Valid(z)}  BY <3>2, <3>5
        <5> QED  BY <5>1, AppendProperties
      <4>2. y.seen \cup {<<p.task, p.body>>} \in SUBSET (seen \cup {<<z.task, z.body>> : z \in Range(batch)})  BY <3>2
      <4>3. Judge(y, p) = [seen |-> y.seen \cup {<<p.task, p.body>>}, accepted |-> Append(y.accepted, p), ended |-> FALSE]
        BY <3>5 DEF Judge
      <4> QED  BY <3>1, <4>1, <4>2, <4>3
    <3>6. CASE ~y.ended /\ ~(p.task \in PlanTasks /\ ~p.named) /\ ~(Valid(p) /\ FreshPlan(p, y.seen))
      <4>1. Judge(y, p) = y  BY <3>6 DEF Judge
      <4> QED  BY <3>1, <4>1
    <3> QED  BY <3>3, <3>4, <3>5, <3>6
  <2> QED  BY <2>1, <2>2, <2>3
<1>2. Judged(batch) = upto[m]  BY DEF Judged, Iterate
<1> HIDE DEF following, D, a, m
<1>3. g \in [Nat \X D -> D]
  <2>1. ASSUME NEW q \in Nat \X D PROVE (IF q[1] \in 1 .. m THEN following(q[1], q[2]) ELSE q[2]) \in D
    <3>1. q[2] \in D  OBVIOUS
    <3> QED  BY <3>1, <1>1
  <2> QED  BY <2>1
<1>4. PICK f : IsIteration(f, D, a, g, m)
  <2> HIDE DEF g
  <2> QED  BY <1>1, <1>3, Iterates
<1>5. R(f)
  <2>1. ASSUME NEW i \in 0 .. m, i # 0 PROVE f[i] = following(i, f[i - 1])
    <3>1. i \in 1 .. m /\ i \in Nat /\ i - 1 \in 0 .. m  BY <1>1, <2>1
    <3>2. f[i - 1] \in D  BY <3>1, <1>4 DEF IsIteration
    <3>3. <<i, f[i - 1]>> \in Nat \X D /\ <<i, f[i - 1]>>[1] = i /\ <<i, f[i - 1]>>[2] = f[i - 1]  BY <3>1, <3>2
    <3>4. g[<<i, f[i - 1]>>] = following(i, f[i - 1])  BY <3>1, <3>3
    <3> HIDE DEF g
    <3> QED  BY <1>4, <3>1, <3>4 DEF IsIteration
  <2>2. f \in [0 .. m -> D] /\ f[0] = a  BY <1>4 DEF IsIteration
  <2>3. f = [i \in 0 .. m |-> IF i = 0 THEN a ELSE following(i, f[i - 1])]  BY <2>1, <2>2
  <2> QED  BY <2>3 DEF following
<1>6. R(upto)
  <2> HIDE DEF R
  <2> QED  BY <1>5
<1> HIDE DEF upto, g
<1>7. upto = [i \in 0 .. m |-> IF i = 0 THEN a ELSE following(i, upto[i - 1])]  BY <1>6 DEF following
<1>8. upto[0] = a /\ \A i \in 1 .. m : upto[i] = following(i, upto[i - 1])
  <2>1. 0 \in 0 .. m /\ \A i \in 1 .. m : i \in 0 .. m /\ i # 0  BY <1>1
  <2> QED  BY <1>7, <2>1
<1> DEFINE Good == {i \in Nat : i <= m => upto[i] \in D}
<1>9. 0 \in Good  BY <1>1, <1>8
<1>10. ASSUME NEW i \in Nat, i \in Good PROVE i + 1 \in Good
  <2> SUFFICES ASSUME i + 1 <= m PROVE upto[i + 1] \in D  OBVIOUS
  <2>1. i + 1 \in 1 .. m /\ (i + 1) - 1 = i /\ i <= m  BY <1>1
  <2>2. upto[i] \in D  BY <1>10, <2>1
  <2> QED  BY <1>1, <1>8, <2>1, <2>2
<1>11. \A i \in Nat : i \in Good
  <2> HIDE DEF Good
  <2> QED  BY <1>9, <1>10, SetInduction
<1>12. upto \in [0 .. m -> D]
  <2>1. \A i \in 0 .. m : upto[i] \in D  BY <1>1, <1>11
  <2>2. DOMAIN upto = 0 .. m  BY <1>7
  <2> QED  BY <2>1, <2>2, <1>7
<1> QED  BY <1>2, <1>8, <1>12 DEF following, a, D, m

(* Only valid plans of the answer are accepted.                            *)
LEMMA JudgedAre ==
  ASSUME NEW batch \in Batches
  PROVE  Judged(batch).accepted \in Seq({z \in Range(batch) : Valid(z)})
<1>1. IsList(batch) /\ Len(batch) \in Nat  BY AnswerAssumption DEF IsList
<1> DEFINE D == [seen : SUBSET (seen \cup {<<z.task, z.body>> : z \in Range(batch)}),
                 accepted : Seq({z \in Range(batch) : Valid(z)}), ended : BOOLEAN]
<1>2. \E u \in [0 .. Len(batch) -> D] : Judged(batch) = u[Len(batch)]
  BY <1>1, JudgedRuns
<1>3. Judged(batch) \in D
  <2> HIDE DEF D
  <2>1. PICK u \in [0 .. Len(batch) -> D] : Judged(batch) = u[Len(batch)]  BY <1>2
  <2>2. Len(batch) \in 0 .. Len(batch)  BY <1>1
  <2> QED  BY <2>1, <2>2
<1> QED  BY <1>3

(* What the run of a seed file shows.                                      *)
ShownBy(sd) == Run(sd.task, sd.text.frames)

(* What a seed showed is in the books: probes h, states q and best         *)
(* distances b.                                                            *)
KnownTo(sd, h, q, b) ==
  /\ ShownBy(sd).hits \subseteq h /\ ShownBy(sd).state \subseteq q
  /\ \A d \in ShownBy(sd).distance : d \in Int /\ sd.task \in DOMAIN b /\ b[sd.task] \in Int /\ b[sd.task] <= d

(* A distance is that of the default frame or of a seed.                   *)
Reached(ss, t, d) ==
  \/ d \in Run(t, DefaultFrames).distance
  \/ \E j \in DOMAIN ss : ss[j].task = t /\ d \in ShownBy(ss[j]).distance

(* Closer for a list of seeds.                                             *)
CloserIn(ss, i, d) ==
  /\ \A j \in 1 .. (i - 1) : ss[j].task = ss[i].task => \A e \in ShownBy(ss[j]).distance : d < e
  /\ \/ \E e \in Run(ss[i].task, DefaultFrames).distance : d < e
     \/ \E j \in 1 .. (i - 1) : ss[j].task = ss[i].task /\ ShownBy(ss[j]).distance # {}

(* The i-th seed of a list earned its place.                               *)
EarnedAt(ss, i) ==
  \/ ShownBy(ss[i]).goal
  \/ \E h \in ShownBy(ss[i]).hits : \A j \in 1 .. (i - 1) : h \notin ShownBy(ss[j]).hits
  \/ \E q \in ShownBy(ss[i]).state : \A j \in 1 .. (i - 1) : q \notin ShownBy(ss[j]).state
  \/ \E d \in ShownBy(ss[i]).distance : CloserIn(ss, i, d)

(* The books after a list of seeds.                                        *)
Books(ss, h, q, b) ==
  /\ \A i \in DOMAIN ss : KnownTo(ss[i], h, q, b)
  /\ \A t \in DOMAIN b : b[t] \in Int /\ Reached(ss, t, b[t])
  /\ \A i \in DOMAIN ss : EarnedAt(ss, i)

(* A seed that is new to the books.                                        *)
IsGain(sd, h, q, b) ==
  \/ ShownBy(sd).goal
  \/ ShownBy(sd).hits \ h # {}
  \/ ShownBy(sd).state \ q # {}
  \/ \E d \in ShownBy(sd).distance : sd.task \in DOMAIN b /\ d < b[sd.task]

(* The best distances with those of a seed.                                *)
Bettered(sd, b) ==
  IF ShownBy(sd).distance = {} THEN b
  ELSE Over([t \in {sd.task} |->
               LET d == CHOOSE d \in ShownBy(sd).distance : TRUE IN
               IF t \in DOMAIN b /\ b[t] < d THEN b[t] ELSE d], b)

(* An earlier seed earned its place whatever comes later.                  *)
LEMMA EarnedStays ==
  ASSUME NEW ss, NEW s2, NEW i \in Nat, \A j \in 1 .. i : s2[j] = ss[j], i # 0, EarnedAt(ss, i)
  PROVE  EarnedAt(s2, i)
<1>1. s2[i] = ss[i] /\ \A j \in 1 .. (i - 1) : s2[j] = ss[j]
  <2>1. i \in 1 .. i /\ \A j \in 1 .. (i - 1) : j \in 1 .. i  OBVIOUS
  <2> QED  BY <2>1
<1>2. \A d : CloserIn(ss, i, d) => CloserIn(s2, i, d)  BY <1>1 DEF CloserIn
<1> QED  BY <1>1, <1>2 DEF EarnedAt

(* The books are kept when a seed is added.                                *)
LEMMA GainKeeps ==
  ASSUME NEW X, NEW ss \in Seq(X), NEW sd \in X, NEW h, NEW q, NEW b,
         Books(ss, h, q, b), IsGain(sd, h, q, b),
         \A x, y \in ShownBy(sd).distance : x = y /\ x \in Int
  PROVE  Books(Append(ss, sd), h \cup ShownBy(sd).hits, q \cup ShownBy(sd).state, Bettered(sd, b))
<1>1. PICK n, s2 : n = Len(ss) /\ s2 = Append(ss, sd)  OBVIOUS
<1>2. /\ n \in Nat /\ DOMAIN ss = 1 .. n /\ DOMAIN s2 = 1 .. (n + 1)
      /\ s2[n + 1] = sd /\ \A j \in 1 .. n : s2[j] = ss[j]
  <2>1. /\ s2 \in Seq(X) /\ Len(s2) = n + 1 /\ n \in Nat
        /\ \A j \in 1 .. n : s2[j] = ss[j]
        /\ s2[n + 1] = sd
    BY <1>1, AppendProperties
  <2>2. DOMAIN s2 = 1 .. Len(s2) /\ DOMAIN ss = 1 .. Len(ss)  BY <2>1, LenProperties
  <2> QED  BY <1>1, <2>1, <2>2
<1>3. PICK r : r = ShownBy(sd)  OBVIOUS
<1>4. PICK c : c = Bettered(sd, b)  OBVIOUS
<1>5. /\ \A i \in 1 .. n : KnownTo(ss[i], h, q, b)
      /\ \A t \in DOMAIN b : b[t] \in Int /\ Reached(ss, t, b[t])
      /\ \A i \in 1 .. n : EarnedAt(ss, i)
  BY <1>2 DEF Books
<1>6. /\ DOMAIN b \subseteq DOMAIN c
      /\ \A t \in DOMAIN b : t # sd.task => c[t] = b[t]
      /\ DOMAIN c \subseteq DOMAIN b \cup {sd.task}
      /\ \A t \in DOMAIN b : c[t] \in Int /\ c[t] <= b[t]
      /\ \A d \in r.distance : sd.task \in DOMAIN c /\ c[sd.task] \in Int /\ c[sd.task] <= d
      /\ sd.task \in DOMAIN c => \/ sd.task \in DOMAIN b /\ c[sd.task] = b[sd.task]
                                 \/ c[sd.task] \in r.distance
  <2>1. CASE r.distance = {}
    <3>1. c = b  BY <1>3, <1>4, <2>1 DEF Bettered
    <3>2. \A t \in DOMAIN b : b[t] <= b[t]  BY <1>5
    <3> QED  BY <1>5, <2>1, <3>1, <3>2
  <2>2. CASE r.distance # {}
    <3>1. PICK d : d = CHOOSE e \in r.distance : TRUE  OBVIOUS
    <3>2. d \in r.distance /\ d \in Int /\ \A e \in r.distance : e = d  BY <1>3, <2>2, <3>1
    <3>3. PICK v : v = IF sd.task \in DOMAIN b /\ b[sd.task] < d THEN b[sd.task] ELSE d  OBVIOUS
    <3>4. c = Over([t \in {sd.task} |-> IF t \in DOMAIN b /\ b[t] < d THEN b[t] ELSE d], b)
      BY <1>3, <1>4, <2>2, <3>1 DEF Bettered
    <3>5. [t \in {sd.task} |-> IF t \in DOMAIN b /\ b[t] < d THEN b[t] ELSE d] = [t \in {sd.task} |-> v]  BY <3>3
    <3>6. c = Over([t \in {sd.task} |-> v], b)  BY <3>4, <3>5
    <3>7. /\ DOMAIN c = {sd.task} \cup DOMAIN b /\ c[sd.task] = v
          /\ \A t \in DOMAIN b : t # sd.task => c[t] = b[t]
      BY <3>6 DEF Over
    <3>8. v \in Int /\ v <= d /\ (sd.task \in DOMAIN b => v <= b[sd.task])
      <4>1. CASE sd.task \in DOMAIN b
        <5>1. PICK w : w = b[sd.task]  OBVIOUS
        <5>2. w \in Int  BY <1>5, <4>1, <5>1
        <5> QED  BY <3>2, <3>3, <4>1, <5>1, <5>2
      <4>2. CASE sd.task \notin DOMAIN b  BY <3>2, <3>3, <4>2
      <4> QED  BY <4>1, <4>2
    <3>9. (sd.task \in DOMAIN b /\ v = b[sd.task]) \/ v = d  BY <3>3
    <3>10. \A t \in DOMAIN b : c[t] \in Int /\ c[t] <= b[t]
      <4> SUFFICES ASSUME NEW t \in DOMAIN b PROVE c[t] \in Int /\ c[t] <= b[t]  OBVIOUS
      <4>1. CASE t = sd.task  BY <3>7, <3>8, <4>1
      <4>2. CASE t # sd.task
        <5>1. b[t] \in Int /\ c[t] = b[t]  BY <1>5, <3>7, <4>2
        <5> QED  BY <5>1
      <4> QED  BY <4>1, <4>2
    <3> QED  BY <3>2, <3>7, <3>8, <3>9, <3>10
  <2> QED  BY <2>1, <2>2
<1>7. \A i \in DOMAIN s2 : KnownTo(s2[i], h \cup r.hits, q \cup r.state, c)
  <2> SUFFICES ASSUME NEW i \in 1 .. (n + 1) PROVE KnownTo(s2[i], h \cup r.hits, q \cup r.state, c)  BY <1>2
  <2>1. CASE i \in 1 .. n
    <3>1. PICK o : o = s2[i]  OBVIOUS
    <3>2. KnownTo(o, h, q, b)  BY <1>2, <1>5, <2>1, <3>1
    <3>3. ASSUME NEW d \in ShownBy(o).distance
          PROVE  d \in Int /\ o.task \in DOMAIN c /\ c[o.task] \in Int /\ c[o.task] <= d
      <4>1. d \in Int /\ o.task \in DOMAIN b /\ b[o.task] \in Int /\ b[o.task] <= d  BY <3>2 DEF KnownTo
      <4>2. PICK x, y : x = c[o.task] /\ y = b[o.task]  OBVIOUS
      <4>3. o.task \in DOMAIN c /\ x \in Int /\ x <= y  BY <1>6, <4>1, <4>2
      <4>4. x <= d  BY <4>1, <4>2, <4>3
      <4> QED  BY <4>1, <4>2, <4>3, <4>4
    <3> QED  BY <3>1, <3>2, <3>3 DEF KnownTo
  <2>2. CASE i = n + 1
    <3>1. s2[i] = sd  BY <1>2, <2>2
    <3>2. \A d \in r.distance : d \in Int  BY <1>3
    <3> QED  BY <1>3, <1>6, <3>1, <3>2 DEF KnownTo
  <2>3. i \in 1 .. n \/ i = n + 1  BY <1>2
  <2> QED  BY <2>1, <2>2, <2>3
<1>8. \A t \in DOMAIN c : c[t] \in Int /\ Reached(s2, t, c[t])
  <2> SUFFICES ASSUME NEW t \in DOMAIN c PROVE c[t] \in Int /\ Reached(s2, t, c[t])  OBVIOUS
  <2>1. \A d : Reached(ss, t, d) => Reached(s2, t, d)
    <3>1. \A j \in 1 .. n : j \in 1 .. (n + 1)  BY <1>2
    <3> QED  BY <1>2, <3>1 DEF Reached
  <2>2. CASE t \in DOMAIN b /\ c[t] = b[t]  BY <1>5, <2>1, <2>2
  <2>3. CASE ~(t \in DOMAIN b /\ c[t] = b[t])
    <3>1. t = sd.task /\ c[t] \in r.distance  BY <1>6, <2>3
    <3>2. c[t] \in Int  BY <1>3, <3>1
    <3>3. n + 1 \in DOMAIN s2 /\ s2[n + 1] = sd  BY <1>2
    <3> QED  BY <1>3, <3>1, <3>2, <3>3 DEF Reached
  <2> QED  BY <2>2, <2>3
<1>9. \A i \in DOMAIN s2 : EarnedAt(s2, i)
  <2> SUFFICES ASSUME NEW i \in 1 .. (n + 1) PROVE EarnedAt(s2, i)  BY <1>2
  <2>1. CASE i \in 1 .. n
    <3>1. i \in Nat /\ i # 0 /\ \A j \in 1 .. i : j \in 1 .. n  BY <1>2, <2>1
    <3>2. EarnedAt(ss, i) /\ \A j \in 1 .. i : s2[j] = ss[j]  BY <1>2, <1>5, <2>1, <3>1
    <3> QED  BY <3>1, <3>2, EarnedStays
  <2>2. CASE i = n + 1
    <3>1. s2[i] = sd /\ i - 1 = n  BY <1>2, <2>2
    <3>2. \A j \in 1 .. n : KnownTo(s2[j], h, q, b)  BY <1>2, <1>5
    <3>3. CASE r.goal  BY <1>3, <3>1, <3>3 DEF EarnedAt
    <3>4. CASE r.hits \ h # {}
      <4>1. PICK p \in r.hits : p \notin h  BY <3>4
      <4>2. \A j \in 1 .. n : p \notin ShownBy(s2[j]).hits  BY <3>2, <4>1 DEF KnownTo
      <4> QED  BY <1>3, <3>1, <4>1, <4>2 DEF EarnedAt
    <3>5. CASE r.state \ q # {}
      <4>1. PICK p \in r.state : p \notin q  BY <3>5
      <4>2. \A j \in 1 .. n : p \notin ShownBy(s2[j]).state  BY <3>2, <4>1 DEF KnownTo
      <4> QED  BY <1>3, <3>1, <4>1, <4>2 DEF EarnedAt
    <3>6. CASE \E d \in r.distance : sd.task \in DOMAIN b /\ d < b[sd.task]
      <4>1. PICK d \in r.distance : sd.task \in DOMAIN b /\ d < b[sd.task]  BY <3>6
      <4>2. PICK w : w = b[sd.task]  OBVIOUS
      <4>3. d \in Int /\ w \in Int /\ d < w /\ Reached(ss, sd.task, w)  BY <1>3, <1>5, <4>1, <4>2
      <4>4. ASSUME NEW j \in 1 .. n, s2[j].task = sd.task, NEW e \in ShownBy(s2[j]).distance PROVE d < e
        <5>1. e \in Int /\ w <= e  BY <3>2, <4>2, <4>4 DEF KnownTo
        <5> QED  BY <4>3, <5>1
      <4>5. \/ \E e \in Run(sd.task, DefaultFrames).distance : d < e
            \/ \E j \in 1 .. n : s2[j].task = sd.task /\ ShownBy(s2[j]).distance # {}
        <5>1. CASE w \in Run(sd.task, DefaultFrames).distance  BY <4>3, <5>1
        <5>2. CASE \E j \in DOMAIN ss : ss[j].task = sd.task /\ w \in ShownBy(ss[j]).distance
          <6>1. PICK j \in DOMAIN ss : ss[j].task = sd.task /\ w \in ShownBy(ss[j]).distance  BY <5>2
          <6> QED  BY <1>2, <6>1
        <5> QED  BY <4>3, <5>1, <5>2 DEF Reached
      <4>6. CloserIn(s2, i, d)  BY <3>1, <4>4, <4>5 DEF CloserIn
      <4> QED  BY <1>3, <3>1, <4>1, <4>6 DEF EarnedAt
    <3> QED  BY <1>3, <3>3, <3>4, <3>5, <3>6 DEF IsGain
  <2>3. i \in 1 .. n \/ i = n + 1  BY <1>2
  <2> QED  BY <2>1, <2>2, <2>3
<1> QED  BY <1>1, <1>3, <1>4, <1>7, <1>8, <1>9 DEF Books

(* The plans of all answers.                                               *)
AllPlans == UNION {Range(x) : x \in Batches}

(* The seed file that is made of a plan.                                   *)
MadeOf(p) == [task |-> p.task, body |-> p.body, text |-> ModelBuild(Expand(p.body))]

(* A seed that holds what its plan expands to, and reads back as that.     *)
SeedOk(sd) ==
  /\ sd.task \in PlanTasks
  /\ sd.text.frames = Expand(sd.body)
  /\ sd.text.frames \in Seq(FullFrames) /\ Len(sd.text.frames) \in 1 .. ManyFrames
  /\ OneLine(sd.text) =>
       ParseTestcase(sd.text).frames = [k \in DOMAIN sd.text.frames |-> ReadRecord(sd.text.frames[k])]

(* What is kept for SeedsAreGains.                                         *)
GainInv ==
  /\ maxFrames \in 0 .. ManyFrames
  /\ todo \in Seq({p \in AllPlans : Valid(p)})
  /\ seeds \in Seq({MadeOf(p) : p \in AllPlans})
  /\ \A i \in DOMAIN seeds : SeedOk(seeds[i])
  /\ Books(seeds, hits, states, best)
  /\ (stage # "batches" \/ step = "start") => seeds = <<>> /\ todo = <<>> /\ best = <<>>

(* A valid plan expands to some frames, within the limit.                  *)
LEMMA ValidExpands ==
  ASSUME NEW p \in AllPlans, Valid(p), maxFrames \in Nat
  PROVE  p.task \in PlanTasks /\ Expand(p.body) \in Seq(PlannedFrames) /\ Len(Expand(p.body)) \in 1 .. maxFrames
<1>1. PICK x \in Batches : p \in Range(x)  BY DEF AllPlans
<1>2. IsList(p.body) /\ \A b \in Range(p.body) : b.op = "repeat" => IsList(b.actions)  BY <1>1, AnswerAssumption
<1>3. PICK cost : cost = Total([i \in DOMAIN p.body |-> Cost(p.body[i])])  OBVIOUS
<1>4. p.task \in PlanTasks /\ p.body # <<>> /\ cost <= maxFrames /\ \A b \in Range(p.body) : Legal(b)  BY <1>3 DEF Valid
<1>5. Expand(p.body) \in Seq(PlannedFrames) /\ cost \in Nat \ {0} /\ Len(Expand(p.body)) = cost
  BY <1>2, <1>3, <1>4, ExpandIs
<1> QED  BY <1>4, <1>5

(* Distances of runs of whole frames.                                      *)
LEMMA Distances ==
  ASSUME NEW t \in PlanTasks, NEW fs \in Seq(FullFrames), Len(fs) \in 1 .. ManyFrames
  PROVE  \A x, y \in Run(t, fs).distance : x = y /\ x \in Int
<1>1. fs \in [1 .. Len(fs) -> FullFrames]  BY LenProperties
<1> QED  BY <1>1, RunAssumption

(* The invariant gives the property.                                       *)
LEMMA GainInvGives ==
  ASSUME GainInv PROVE SeedsAreGains
<1>1. \A p \in Range(todo) : Len(Expand(p.body)) \in 1 .. maxFrames
  <2>1. maxFrames \in Nat  BY PlanLimits DEF GainInv
  <2>2. \A p \in Range(todo) : p \in AllPlans /\ Valid(p)
    <3>1. todo \in Seq({p \in AllPlans : Valid(p)})  BY DEF GainInv
    <3>2. \A k \in DOMAIN todo : todo[k] \in {p \in AllPlans : Valid(p)}
      <4>1. \A k \in 1 .. Len(todo) : todo[k] \in {p \in AllPlans : Valid(p)}  BY <3>1, ElementOfSeq
      <4>2. DOMAIN todo = 1 .. Len(todo)  BY <3>1, LenProperties
      <4> QED  BY <4>1, <4>2
    <3> QED  BY <3>2 DEF Range
  <2> QED  BY <2>1, <2>2, ValidExpands
<1>2. \A i : Shown(i) = ShownBy(seeds[i])  BY DEF Shown, ShownBy
<1>3. \A i, d : Closer(i, d) <=> CloserIn(seeds, i, d)  BY <1>2 DEF Closer, CloserIn
<1>4. ASSUME NEW i \in DOMAIN seeds
      PROVE  LET text == seeds[i].text IN
             /\ text.frames = Expand(seeds[i].body)
             /\ \A k \in DOMAIN text.frames : Fits(text.frames[k])
             /\ OneLine(text) =>
                  ParseTestcase(text).frames = [k \in DOMAIN text.frames |-> ReadRecord(text.frames[k])]
             /\ \/ Shown(i).goal
                \/ \E h \in Shown(i).hits : \A j \in 1..(i - 1) : h \notin Shown(j).hits
                \/ \E q \in Shown(i).state : \A j \in 1..(i - 1) : q \notin Shown(j).state
                \/ \E d \in Shown(i).distance : Closer(i, d)
  <2>1. SeedOk(seeds[i]) /\ EarnedAt(seeds, i)  BY DEF GainInv, Books
  <2>2. PICK fs : fs = seeds[i].text.frames  OBVIOUS
  <2>3. \A k \in DOMAIN fs : Fits(fs[k])
    <3>1. fs \in Seq(FullFrames)  BY <2>1, <2>2 DEF SeedOk
    <3>2. \A k \in DOMAIN fs : fs[k] \in FullFrames  BY <3>1, ElementOfSeq, LenProperties
    <3> QED  BY <3>2 DEF FullFrames
  <2>4. \/ Shown(i).goal
        \/ \E h \in Shown(i).hits : \A j \in 1..(i - 1) : h \notin Shown(j).hits
        \/ \E q \in Shown(i).state : \A j \in 1..(i - 1) : q \notin Shown(j).state
        \/ \E d \in Shown(i).distance : Closer(i, d)
    BY <1>2, <1>3, <2>1 DEF EarnedAt
  <2> QED  BY <2>1, <2>2, <2>3, <2>4 DEF SeedOk
<1> QED  BY <1>1, <1>4 DEF SeedsAreGains

(* No seeds, no books.                                                     *)
LEMMA NoBooks ==
  ASSUME NEW h, NEW q PROVE Books(<<>>, h, q, <<>>)
  BY DEF Books

(* What leaves the planning alone keeps it.                                *)
LEMMA GainSame ==
  ASSUME GainInv, UNCHANGED pvars, stage' = "batches" <=> stage = "batches"
  PROVE  GainInv'
<1>1. /\ maxFrames' = maxFrames /\ todo' = todo /\ seeds' = seeds /\ hits' = hits
      /\ states' = states /\ best' = best /\ step' = step
  BY DEF pvars
<1>2. \A p : Valid(p)' <=> Valid(p)  BY <1>1 DEF Valid
<1>3. {p \in AllPlans : Valid(p)}' = {p \in AllPlans : Valid(p)}  BY <1>2
<1>4. Books(seeds, hits, states, best)'  BY <1>1 DEF GainInv
<1>5. todo' \in Seq({p \in AllPlans : Valid(p)'})
  <2>1. todo \in Seq({p \in AllPlans : Valid(p)})  BY DEF GainInv
  <2> QED  BY <1>1, <1>3, <2>1
<1>6. seeds' \in Seq({MadeOf(p) : p \in AllPlans}) /\ \A i \in DOMAIN seeds' : SeedOk(seeds'[i])  BY <1>1 DEF GainInv
<1> QED  BY <1>1, <1>4, <1>5, <1>6 DEF GainInv

(* The planning starts with nothing.                                       *)
LEMMA GainStarts ==
  ASSUME GainInv, GoalsWritten PROVE GainInv'
<1>1. /\ stage = "goals" /\ step' = "start" /\ maxFrames' = Limit(Head(goals).mode)
      /\ todo' = todo /\ seeds' = seeds /\ hits' = hits /\ states' = states /\ best' = best
  BY DEF GoalsWritten
<1>2. seeds = <<>> /\ todo = <<>> /\ best = <<>>  BY <1>1 DEF GainInv
<1>3. Limit(Head(goals).mode) \in 0 .. ManyFrames  BY PlanLimits DEF Limit
<1>4. <<>> \in Seq({p \in AllPlans : Valid(p)'}) /\ <<>> \in Seq({MadeOf(p) : p \in AllPlans}) /\ DOMAIN <<>> = {}  OBVIOUS
<1>5. Books(seeds', hits', states', best')  BY <1>1, <1>2, NoBooks
<1> QED  BY <1>1, <1>2, <1>3, <1>4, <1>5 DEF GainInv

(* The books after the run of the default frame.                           *)
LEMMA BaselineBooks ==
  ASSUME NEW h, NEW q,
         NEW b, b = [t \in {u \in PlanTasks : Run(u, DefaultFrames).distance # {}} |->
                       CHOOSE d \in Run(t, DefaultFrames).distance : TRUE]
  PROVE  Books(<<>>, h, q, b)
<1>1. DefaultFrames \in Seq(FullFrames) /\ Len(DefaultFrames) = 1  BY DefaultIsFull DEF DefaultFrames
<1>2. 1 \in 1 .. ManyFrames  BY PlanLimits
<1>3. ASSUME NEW t \in DOMAIN b PROVE b[t] \in Int /\ Reached(<<>>, t, b[t])
  <2>1. t \in PlanTasks /\ Run(t, DefaultFrames).distance # {} /\ b[t] = CHOOSE d \in Run(t, DefaultFrames).distance : TRUE
    OBVIOUS
  <2>2. b[t] \in Run(t, DefaultFrames).distance  BY <2>1
  <2>3. \A x, y \in Run(t, DefaultFrames).distance : x = y /\ x \in Int  
    <3>1. PICK fs : fs = DefaultFrames  OBVIOUS
    <3>2. fs \in Seq(FullFrames) /\ Len(fs) \in 1 .. ManyFrames  BY <1>1, <1>2, <3>1
    <3> QED  BY <2>1, <3>1, <3>2, Distances
  <2> QED  BY <2>2, <2>3 DEF Reached
<1>4. DOMAIN <<>> = {}  OBVIOUS
<1> QED  BY <1>3, <1>4 DEF Books

(* An answer puts valid plans before the run.                              *)
LEMMA AnswerAre ==
  ASSUME GainInv, NEW batch \in Batches, Answer(batch)
  PROVE  step' \in {"run", "done"} /\ todo' \in Seq({p \in AllPlans : Valid(p)})
<1> DEFINE X == {p \in AllPlans : Valid(p)}
<1>1. PICK judged : judged = IF Len(batch) \in 1..BatchSize THEN Judged(batch)
                             ELSE [seen |-> seen, accepted |-> <<>>]
  OBVIOUS
<1>2. judged.accepted \in Seq(X)
  <2>1. CASE Len(batch) \in 1 .. BatchSize
    <3>1. Judged(batch).accepted \in Seq({z \in Range(batch) : Valid(z)})  BY JudgedAre
    <3>2. {z \in Range(batch) : Valid(z)} \subseteq X  BY DEF AllPlans
    <3>3. \A A, B : A \subseteq B => \A w \in Seq(A) : w \in Seq(B)  OBVIOUS
    <3>4. judged.accepted = Judged(batch).accepted  BY <1>1, <2>1
    <3> QED  BY <3>1, <3>2, <3>3, <3>4, Zenon
  <2>2. CASE ~(Len(batch) \in 1 .. BatchSize)  BY <1>1, <2>2
  <2> QED  BY <2>1, <2>2
<1>3. IF Comparable(judged.accepted)
      THEN step' = "run" /\ todo' = ByPriority(judged.accepted)
      ELSE step' = "done" /\ todo' = todo
  BY <1>1 DEF Answer
<1>4. todo \in Seq(X)  BY DEF GainInv
<1>5. ByPriority(judged.accepted) \in Seq(X)  BY <1>2, ByPriorityKeeps
<1> QED  BY <1>3, <1>4, <1>5

(* What the run of a plan does to the books.                               *)
LEMMA RunPlanKeeps ==
  ASSUME GainInv, stage = "batches", stage' = stage, RunPlan PROVE GainInv'
<1> DEFINE X == {p \in AllPlans : Valid(p)}
           Y == {MadeOf(p) : p \in AllPlans}
<1>1. PICK plan : plan = Head(todo)  OBVIOUS
<1>2. todo # <<>> /\ todo' = Tail(todo) /\ maxFrames' = maxFrames /\ step = "run" /\ step' = step  BY DEF RunPlan
<1>3. todo \in Seq(X)  BY DEF GainInv
<1>4. plan \in X /\ todo' \in Seq(X)  BY <1>1, <1>2, <1>3, HeadTailProperties
<1>5. maxFrames \in Nat /\ maxFrames <= ManyFrames /\ ManyFrames \in Nat  BY PlanLimits DEF GainInv
<1>6. plan.task \in PlanTasks /\ Expand(plan.body) \in Seq(PlannedFrames) /\ Len(Expand(plan.body)) \in 1 .. maxFrames
  BY <1>4, <1>5, ValidExpands
<1>7. PICK sd : sd = MadeOf(plan)  OBVIOUS
<1>8. sd.task = plan.task /\ sd.body = plan.body /\ sd.text = ModelBuild(Expand(plan.body)) /\ sd \in Y
  BY <1>4, <1>7 DEF MadeOf
<1>9. ~sd.text.error  BY <1>1, <1>8 DEF RunPlan
<1>10. SeedOk(sd)
  <2>1. PICK fs : fs = Expand(plan.body)  OBVIOUS
  <2>2. fs \in Seq(PlannedFrames) /\ Len(fs) \in 1 .. maxFrames /\ sd.text = ModelBuild(fs)  BY <1>6, <1>8, <2>1
  <2>3. fs # <<>>
    <3>1. Len(<<>>) = 0 /\ ~(0 \in 1 .. maxFrames)  BY <1>5
    <3> QED  BY <2>2, <3>1
  <2>4. /\ sd.text = [error |-> FALSE, shared |-> Only(fs[1], SharedFields), frames |-> fs]
        /\ fs \in Seq(FullFrames)
    BY <1>9, <2>2, <2>3, BuiltAre
  <2>5. Len(fs) \in 1 .. ManyFrames  BY <1>5, <2>2
  <2>6. OneLine(sd.text) => ParseTestcase(sd.text).frames = [k \in DOMAIN fs |-> ReadRecord(fs[k])]
    BY <2>3, <2>4, ReadsBack
  <2>7. sd.text.frames = fs  BY <2>4
  <2> QED  BY <1>6, <1>8, <2>1, <2>4, <2>5, <2>6, <2>7 DEF SeedOk
<1>11. \A x, y \in ShownBy(sd).distance : x = y /\ x \in Int
  <2>1. PICK fs : fs = sd.text.frames  OBVIOUS
  <2>2. fs \in Seq(FullFrames) /\ Len(fs) \in 1 .. ManyFrames /\ sd.task \in PlanTasks /\ ShownBy(sd) = Run(sd.task, fs)
    BY <1>10, <2>1 DEF SeedOk, ShownBy
  <2> QED  BY <2>2, Distances
<1>12. seeds \in Seq(Y) /\ Books(seeds, hits, states, best)  BY DEF GainInv
<1>13. \/ /\ IsGain(sd, hits, states, best)
          /\ seeds' = Append(seeds, sd)
          /\ hits' = hits \cup ShownBy(sd).hits
          /\ states' = states \cup ShownBy(sd).state
          /\ best' = Bettered(sd, best)
       \/ UNCHANGED <<seeds, hits, states, best>>
  <2>1. ShownBy(sd) = Run(plan.task, ModelBuild(Expand(plan.body)).frames)  BY <1>8 DEF ShownBy
  <2>2. PICK r : r = ShownBy(sd)  OBVIOUS
  <2>3. \/ /\ Gain(plan.task, r)
           /\ seeds' = Append(seeds, MadeOf(plan))
           /\ hits' = hits \cup r.hits
           /\ states' = states \cup r.state
           /\ best' = IF r.distance = {} THEN best
                      ELSE Over([t \in {plan.task} |-> Nearest(t, CHOOSE d \in r.distance : TRUE)], best)
        \/ UNCHANGED <<seeds, hits, states, best>>
    BY <1>1, <2>1, <2>2 DEF RunPlan, MadeOf
  <2>4. Gain(plan.task, r) => IsGain(sd, hits, states, best)  BY <1>8, <2>2 DEF Gain, IsGain
  <2>5. (IF r.distance = {} THEN best
         ELSE Over([t \in {plan.task} |-> Nearest(t, CHOOSE d \in r.distance : TRUE)], best)) = Bettered(sd, best)
    BY <1>8, <2>2 DEF Bettered, Nearest
  <2> QED  BY <1>7, <2>2, <2>3, <2>4, <2>5
<1> HIDE DEF Y
<1>14. seeds' \in Seq(Y) /\ Books(seeds', hits', states', best') /\ \A i \in DOMAIN seeds' : SeedOk(seeds'[i])
  <2>1. CASE UNCHANGED <<seeds, hits, states, best>>  BY <1>12, <2>1 DEF GainInv
  <2>2. CASE /\ IsGain(sd, hits, states, best)
             /\ seeds' = Append(seeds, sd)
             /\ hits' = hits \cup ShownBy(sd).hits
             /\ states' = states \cup ShownBy(sd).state
             /\ best' = Bettered(sd, best)
    <3>1. Books(Append(seeds, sd), hits \cup ShownBy(sd).hits, states \cup ShownBy(sd).state, Bettered(sd, best))
      BY <1>8, <1>11, <1>12, <2>2, GainKeeps
    <3>2. Books(seeds', hits', states', best')  BY <2>2, <3>1
    <3>3. PICK n : n = Len(seeds)  OBVIOUS
    <3>4. /\ seeds' \in Seq(Y) /\ Len(seeds') = n + 1 /\ n \in Nat
          /\ \A j \in 1 .. n : seeds'[j] = seeds[j]
          /\ seeds'[n + 1] = sd
      BY <1>8, <1>12, <2>2, <3>3, AppendProperties
    <3>5. DOMAIN seeds' = 1 .. (n + 1) /\ DOMAIN seeds = 1 .. n  BY <1>12, <3>3, <3>4, LenProperties
    <3>6. \A i \in 1 .. (n + 1) : i \in 1 .. n \/ i = n + 1  BY <3>4
    <3>7. \A i \in 1 .. n : SeedOk(seeds[i])  BY <3>5 DEF GainInv
    <3>8. \A i \in DOMAIN seeds' : SeedOk(seeds'[i])  BY <1>10, <3>4, <3>5, <3>6, <3>7
    <3> QED  BY <3>2, <3>4, <3>8
  <2> QED  BY <1>13, <2>1, <2>2
<1>15. \A p : Valid(p)' <=> Valid(p)  BY <1>2 DEF Valid
<1>16. todo' \in Seq({p \in AllPlans : Valid(p)'})
  <2>1. {p \in AllPlans : Valid(p)'} = X  BY <1>15
  <2> QED  BY <1>4, <2>1
<1> QED  BY <1>2, <1>5, <1>14, <1>16 DEF GainInv, Y

(* The initial state and every step keep it.                               *)
LEMMA GainInit ==
  ASSUME PrepareInit PROVE GainInv
<1>1. maxFrames = 0 /\ todo = <<>> /\ seeds = <<>> /\ best = <<>>  BY DEF PrepareInit, InitBatches
<1>2. 0 \in 0 .. ManyFrames  BY PlanLimits
<1>3. <<>> \in Seq({p \in AllPlans : Valid(p)}) /\ <<>> \in Seq({MadeOf(p) : p \in AllPlans}) /\ DOMAIN <<>> = {}  OBVIOUS
<1>4. Books(seeds, hits, states, best)  BY <1>1, NoBooks
<1> QED  BY <1>1, <1>2, <1>3, <1>4 DEF GainInv

(* Every step of the planning keeps it.                                    *)
LEMMA AskingKeeps ==
  ASSUME GainInv, Asking PROVE GainInv'
<1>1. stage = "batches" /\ stage' = stage /\ NextBatches  BY DEF Asking
<1> DEFINE X == {p \in AllPlans : Valid(p)}
<1>2. ASSUME maxFrames' = maxFrames, todo' \in Seq(X), seeds' = seeds, Books(seeds, hits', states', best'),
             step' = "start" => seeds = <<>> /\ todo' = <<>> /\ best' = <<>>
      PROVE  GainInv'
  <2>1. \A p : Valid(p)' <=> Valid(p)  BY <1>2 DEF Valid
  <2>2. {p \in AllPlans : Valid(p)'} = X  BY <2>1
  <2>3. todo' \in Seq({p \in AllPlans : Valid(p)'})  BY <1>2, <2>2
  <2>4. Books(seeds', hits', states', best')  BY <1>2
  <2> QED  BY <1>1, <1>2, <2>3, <2>4 DEF GainInv
<1>3. todo \in Seq(X) /\ Books(seeds, hits, states, best)  BY DEF GainInv
<1>4. CASE Unavailable
  <2>1. /\ step' = "done" /\ maxFrames' = maxFrames /\ todo' = todo /\ seeds' = seeds
        /\ hits' = hits /\ states' = states /\ best' = best
    BY <1>4 DEF Unavailable
  <2> QED  BY <1>2, <1>3, <2>1
<1>5. ASSUME NEW ok \in BOOLEAN, Baseline(ok) PROVE GainInv'
  <2>1. step = "start" /\ step' = "ask" /\ maxFrames' = maxFrames /\ todo' = todo /\ seeds' = seeds  BY <1>5 DEF Baseline
  <2>2. seeds = <<>>  BY <2>1 DEF GainInv
  <2>3. CASE ok
    <3>1. best' = [t \in {u \in PlanTasks : Run(u, DefaultFrames).distance # {}} |->
                     CHOOSE d \in Run(t, DefaultFrames).distance : TRUE]
      BY <1>5, <2>3 DEF Baseline
    <3>2. PICK h, q, b : h = hits' /\ q = states' /\ b = best'  OBVIOUS
    <3>3. Books(<<>>, h, q, b)  BY <3>1, <3>2, BaselineBooks
    <3>4. Books(seeds, hits', states', best')  BY <2>2, <3>2, <3>3
    <3> QED  BY <1>2, <1>3, <2>1, <3>4
  <2>4. CASE ~ok
    <3>1. hits' = hits /\ states' = states /\ best' = best  BY <1>5, <2>4 DEF Baseline
    <3> QED  BY <1>2, <1>3, <2>1, <3>1
  <2> QED  BY <2>3, <2>4
<1>6. ASSUME NEW batch \in Batches, NEW used \in 0 .. MaxTokens, AskCached(batch, used) \/ AskService(batch, used)
      PROVE  GainInv'
  <2>1. /\ maxFrames' = maxFrames /\ Answer(batch) /\ seeds' = seeds
        /\ hits' = hits /\ states' = states /\ best' = best
    BY <1>6 DEF AskCached, AskService
  <2>2. step' \in {"run", "done"} /\ todo' \in Seq(X)  BY <2>1, AnswerAre
  <2> QED  BY <1>2, <1>3, <2>1, <2>2
<1>7. CASE AskFails
  <2>1. /\ step' = "run" /\ maxFrames' = maxFrames /\ todo' = todo /\ seeds' = seeds
        /\ hits' = hits /\ states' = states /\ best' = best
    BY <1>7 DEF AskFails
  <2> QED  BY <1>2, <1>3, <2>1
<1>8. CASE RunPlan  BY <1>1, <1>8, RunPlanKeeps
<1>9. CASE RunPlanFails
  <2>1. /\ step = "run" /\ step' = step /\ maxFrames' = maxFrames /\ todo # <<>> /\ todo' = Tail(todo) /\ seeds' = seeds
        /\ hits' = hits /\ states' = states /\ best' = best
    BY <1>9 DEF RunPlanFails
  <2>2. todo' \in Seq(X)  BY <1>3, <2>1, HeadTailProperties
  <2> QED  BY <1>2, <1>3, <2>1, <2>2
<1>10. CASE EndRound
  <2>1. /\ step' = "ask" /\ maxFrames' = maxFrames /\ todo' = todo /\ seeds' = seeds
        /\ hits' = hits /\ states' = states /\ best' = best
    BY <1>10 DEF EndRound
  <2> QED  BY <1>2, <1>3, <2>1
<1>11. CASE EndPlanning
  <2>1. /\ step' = "done" /\ maxFrames' = maxFrames /\ todo' = todo /\ seeds' = seeds
        /\ hits' = hits /\ states' = states /\ best' = best
    BY <1>11 DEF EndPlanning
  <2> QED  BY <1>2, <1>3, <2>1
<1>12. CASE DeadlinePasses
  <2>1. /\ step \in {"ask", "run"} /\ step' = step /\ maxFrames' = maxFrames /\ todo' = todo /\ seeds' = seeds
        /\ hits' = hits /\ states' = states /\ best' = best
    BY <1>12 DEF DeadlinePasses
  <2> QED  BY <1>2, <1>3, <2>1
<1> QED  BY <1>1, <1>4, <1>5, <1>6, <1>7, <1>8, <1>9, <1>10, <1>11, <1>12 DEF NextBatches

(* Every step of the preparation keeps it.                                 *)
LEMMA PrepareKeepsGains ==
  ASSUME GainInv, [PrepareNext]_all PROVE GainInv'
<1>1. CASE UNCHANGED all
  <2>1. UNCHANGED pvars /\ stage' = stage  BY <1>1 DEF all
  <2> QED  BY <2>1, GainSame
<1>2. CASE Planning
  <2>1. UNCHANGED pvars /\ stage' = stage  BY <1>2 DEF Planning
  <2> QED  BY <2>1, GainSame
<1>3. CASE PlanWritten
  <2>1. UNCHANGED pvars /\ stage = "plan" /\ stage' = "goals"  BY <1>3 DEF PlanWritten
  <2> QED  BY <2>1, GainSame
<1>4. CASE Deriving
  <2>1. UNCHANGED pvars /\ stage' = stage  BY <1>4 DEF Deriving
  <2> QED  BY <2>1, GainSame
<1>5. CASE GoalsWritten  BY <1>5, GainStarts
<1>6. CASE Asking  BY <1>6, AskingKeeps
<1>7. CASE PrepareRest
  <2>1. UNCHANGED all  BY <1>7 DEF PrepareRest
  <2> QED  BY <1>1, <2>1
<1> QED  BY <1>1, <1>2, <1>3, <1>4, <1>5, <1>6, <1>7 DEF PrepareNext

(* Every accepted plan expands within the frame limit; every seed file     *)
(* holds what its plan expands to, with values that fit, and reads back as *)
(* that up to the blanks at the ends of values, unless one spans lines;    *)
(* and each showed something that no seed before it did (plan_batches.py,  *)
(* plan.py, model.py, frames.py).                                          *)
THEOREM SeedsHold == PrepareSpec => []SeedsAreGains
<1>1. PrepareInit => GainInv  BY GainInit
<1>2. GainInv /\ [PrepareNext]_all => GainInv'  BY PrepareKeepsGains
<1>3. GainInv => SeedsAreGains  BY GainInvGives
<1> QED  BY <1>1, <1>2, <1>3, PTL DEF PrepareSpec
=============================================================================
