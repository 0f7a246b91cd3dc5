--------------------------- MODULE Compiler_proofs ---------------------------
(***************************************************************************)
(* That executions are cold and aborts are owed, for every IR, every frame *)
(* and histories of any length.  Cold is a fold over the events of a       *)
(* history: it is unfolded one event at a time first.  What a scan does is *)
(* then put into one form, and the memories that it can produce are        *)
(* described by their shape.  The invariant says of every process that its *)
(* memory is the cold one of its own history, of a checkpoint that it is   *)
(* of the history stored with it, and that an event over the limit is the  *)
(* last one of a process aborted for it.                                   *)
(***************************************************************************)
EXTENDS Harness, Intake, NaturalsInduction, WellFoundedInduction, SequenceTheorems, FiniteSetTheorems, TLAPS

(* The order of the natural numbers, as a set of pairs. *)
Below == {ss \in Nat \X Nat : ss[1] < ss[2]}
(* It is well-founded. *)
LEMMA BelowWF == IsWellFoundedOn(Below, Nat)
  BY NatLessThanWellFounded, Zenon DEF OpToRel, Below

(* A set with 0 that is closed under successor has every number. *)
LEMMA SetInduction ==
  ASSUME NEW S, 0 \in S, \A n \in Nat : n \in S => n + 1 \in S
  PROVE  \A n \in Nat : n \in S
<1> DEFINE T == Nat \ S
<1>1. SUFFICES ASSUME T # {} PROVE FALSE OBVIOUS
<1>2. \E x \in T : \A y \in T : ~ (<<y, x>> \in Below)
  <2> HIDE DEF T
  <2>1. T \subseteq Nat BY DEF T
  <2> QED BY <1>1, BelowWF, <2>1, WFMin, Zenon
<1>3. PICK x \in T : \A y \in T : ~ (<<y, x>> \in Below) BY <1>2
<1>4. \A y \in T : ~(y < x) BY <1>3 DEF Below
<1>5. x # 0 /\ x - 1 \in Nat /\ x - 1 \notin T BY <1>4
<1> QED BY <1>5

-----------------------------------------------------------------------------
(* One event of an execution, and the recursion by which Cold runs over    *)
(* the first events of a sequence.                                         *)
Event(m, p, e) == IF e.op = "io" THEN WriteInOut(m, e.io) ELSE SemantistStep(m, p, e.frame, e.dt)
Start(p, shared) == SemantistInit(Image, NoRecord, p, shared)
Turn(it, p, h, s) ==
  IF s = {} THEN Start(p, h.shared) ELSE Event(it[s \ {Max(s)}], p, h.events[Max(s)])

Solves(f, p, h, n) == f = [s \in SUBSET (1 .. n) |-> Turn(f, p, h, s)]
Fits(f, p, h, n) == \A s \in SUBSET (1 .. n) : f[s] = Turn(f, p, h, s)
Agree(h, i, n) == h.shared = i.shared /\ \A j \in 1 .. n : h.events[j] = i.events[j]

(* The largest element of a set of numbers up to n. *)
LEMMA MaxIs ==
  ASSUME NEW n \in Nat, NEW s \in SUBSET (1 .. n), n \in s
  PROVE  Max(s) = n
<1>1. \A x \in s : (\A y \in s : x >= y) => x = n OBVIOUS
<1>2. n \in s /\ \A y \in s : n >= y OBVIOUS
<1> QED BY <1>1, <1>2 DEF Max

(* Cold is that recursion. *)
LEMMA ColdIs ==
  ASSUME NEW p, NEW h
  PROVE  LET it == CHOOSE f : f = [s \in SUBSET (DOMAIN h.events) |-> Turn(f, p, h, s)]
         IN  Cold(p, h) = it[DOMAIN h.events]
BY DEF Cold, FoldLeft, MapThenFoldSet, Turn, Event, Start

(* The recursion has a solution over the first n events. *)
LEMMA TurnExists ==
  ASSUME NEW p, NEW h, NEW n \in Nat
  PROVE  \E f : Solves(f, p, h, n)
<1> DEFINE Good == {k \in Nat : \E f : Solves(f, p, h, k)}
<1>1. 0 \in Good
  <2> DEFINE f == [s \in {{}} |-> Start(p, h.shared)]
  <2>1. SUBSET (1 .. 0) = {{}} OBVIOUS
  <2>2. \A s \in {{}} : Turn(f, p, h, s) = Start(p, h.shared) BY DEF Turn
  <2>3. Solves(f, p, h, 0) BY <2>1, <2>2 DEF Solves
  <2> HIDE DEF f
  <2> QED BY <2>3
<1>2. ASSUME NEW k \in Nat, k \in Good PROVE k + 1 \in Good
  <2>1. PICK f : Solves(f, p, h, k) BY <1>2
  <2> DEFINE g == [s \in SUBSET (1 .. k + 1) |-> Turn(f, p, h, s)]
  <2>2. \A s \in SUBSET (1 .. k) : s \in SUBSET (1 .. k + 1) OBVIOUS
  <2>3. \A s \in SUBSET (1 .. k) : g[s] = f[s] BY <2>1, <2>2 DEF Solves
  <2>4. \A s \in SUBSET (1 .. k + 1) : s # {} => s \ {Max(s)} \in SUBSET (1 .. k)
    <3> TAKE s \in SUBSET (1 .. k + 1)
    <3>1. CASE k + 1 \in s
      <4>1. Max(s) = k + 1 BY <3>1, MaxIs
      <4>2. 1 .. k = (1 .. k + 1) \ {k + 1} OBVIOUS
      <4> QED BY <4>1, <4>2
    <3>2. CASE k + 1 \notin s
      <4>1. 1 .. k = (1 .. k + 1) \ {k + 1} OBVIOUS
      <4> QED BY <3>2, <4>1
    <3> QED BY <3>1, <3>2
  <2>5. \A s \in SUBSET (1 .. k + 1) : Turn(g, p, h, s) = Turn(f, p, h, s)
    <3> HIDE DEF g
    <3> QED BY <2>3, <2>4 DEF Turn
  <2>6. Solves(g, p, h, k + 1) BY <2>5 DEF Solves
  <2> HIDE DEF g
  <2> QED BY <2>6
<1>3. \A k \in Nat : k \in Good
  <2> HIDE DEF Good
  <2> QED BY <1>1, <1>2, SetInduction
<1> QED BY <1>3

(* Two solutions agree wherever they have been given the same events. *)
LEMMA TurnUnique ==
  ASSUME NEW p, NEW h, NEW i, NEW n \in Nat, NEW f, NEW g,
         Agree(h, i, n), Fits(f, p, h, n), Fits(g, p, i, n)
  PROVE  \A s \in SUBSET (1 .. n) : f[s] = g[s]
<1> DEFINE Good == {k \in Nat : k <= n => \A s \in SUBSET (1 .. k) : f[s] = g[s]}
<1>1. 0 \in Good
  <2>1. \A s \in SUBSET (1 .. 0) : s = {} /\ s \in SUBSET (1 .. n) OBVIOUS
  <2>2. \A s \in SUBSET (1 .. 0) : f[s] = g[s] BY <2>1 DEF Turn, Fits, Agree
  <2> QED BY <2>2
<1>2. ASSUME NEW k \in Nat, k \in Good PROVE k + 1 \in Good
  <2> SUFFICES ASSUME k + 1 <= n, NEW s \in SUBSET (1 .. k + 1) PROVE f[s] = g[s] OBVIOUS
  <2>1. CASE k + 1 \notin s
    <3>1. s \in SUBSET (1 .. k) BY <2>1
    <3> QED BY <1>2, <3>1
  <2>2. CASE k + 1 \in s
    <3>1. Max(s) = k + 1 BY <2>2, MaxIs
    <3>2. s \ {k + 1} \in SUBSET (1 .. k) OBVIOUS
    <3>3. f[s \ {k + 1}] = g[s \ {k + 1}] BY <1>2, <3>2
    <3>4. h.events[k + 1] = i.events[k + 1] BY DEF Agree
    <3>5. s \in SUBSET (1 .. n) /\ s # {} BY <2>2
    <3>6. Turn(f, p, h, s) = Turn(g, p, i, s) BY <3>1, <3>3, <3>4, <3>5 DEF Turn
    <3> QED BY <3>5, <3>6 DEF Fits
  <2> QED BY <2>1, <2>2
<1>3. n \in Good
  <2> HIDE DEF Good
  <2> QED BY <1>1, <1>2, SetInduction
<1> QED BY <1>3

(* The history of an execution that has been given the events of s.        *)
History(shared, s) == [shared |-> shared, events |-> s]

(* What Cold makes of no event, and of one more. *)
LEMMA ColdUnfold ==
  ASSUME NEW p, NEW shared, NEW S, NEW past \in Seq(S), NEW e \in S
  PROVE  /\ Cold(p, History(shared, <<>>)) = Start(p, shared)
         /\ Cold(p, History(shared, Append(past, e))) = Event(Cold(p, History(shared, past)), p, e)
<1> DEFINE h == [shared |-> shared, events |-> past]
           i == [shared |-> shared, events |-> Append(past, e)]
           z == [shared |-> shared, events |-> <<>>]
           n == Len(past)
           It(k, q) == CHOOSE f : Solves(f, p, q, k)
<1>0. n \in Nat /\ DOMAIN past = 1 .. n BY LenProperties
<1>1. \A k \in Nat : \A q : Solves(It(k, q), p, q, k) BY TurnExists
<1>2. Cold(p, z) = It(0, z)[1 .. 0]
  <2>1. DOMAIN z.events = 1 .. 0 OBVIOUS
  <2> QED BY <2>1, ColdIs DEF Solves
<1>3. Cold(p, h) = It(n, h)[1 .. n]
  <2>1. DOMAIN h.events = 1 .. n BY <1>0
  <2> QED BY <2>1, ColdIs DEF Solves
<1>4. Cold(p, i) = It(n + 1, i)[1 .. n + 1]
  <2>1. DOMAIN i.events = 1 .. n + 1 BY <1>0
  <2> QED BY <2>1, ColdIs DEF Solves
<1> DEFINE f == It(n, h)
           g == It(n + 1, i)
           y == It(0, z)
<1>5. \A s \in SUBSET (1 .. n) : f[s] = Turn(f, p, h, s)
  <2>1. Solves(f, p, h, n) BY <1>0, <1>1
  <2> HIDE DEF f
  <2> QED BY <2>1 DEF Solves
<1>6. \A s \in SUBSET (1 .. n + 1) : g[s] = Turn(g, p, i, s)
  <2>1. n + 1 \in Nat BY <1>0
  <2>2. Solves(g, p, i, n + 1) BY <2>1, <1>1
  <2> HIDE DEF g
  <2> QED BY <2>2 DEF Solves
<1>7. \A s \in SUBSET (1 .. 0) : y[s] = Turn(y, p, z, s)
  <2>1. Solves(y, p, z, 0) BY <1>1
  <2> HIDE DEF y
  <2> QED BY <2>1 DEF Solves
<1> HIDE DEF f, g, y, It
<1>8. Cold(p, z) = Start(p, shared)
  <2>1. 1 .. 0 = {} OBVIOUS
  <2>2. z.shared = shared OBVIOUS
  <2> QED BY <1>2, <1>7, <2>1, <2>2 DEF Turn, y
<1>9. h.shared = i.shared /\ h.shared = shared /\ i.events[n + 1] = e
      /\ \A j \in 1 .. n : h.events[j] = i.events[j]
  BY <1>0
<1>10. \A s \in SUBSET (1 .. n) : f[s] = g[s]
  <2>1. \A s \in SUBSET (1 .. n) : s \in SUBSET (1 .. n + 1) BY <1>0
  <2>2. Fits(f, p, h, n) BY <1>5 DEF Fits
  <2>3. Fits(g, p, i, n) BY <1>6, <2>1 DEF Fits
  <2>4. Agree(h, i, n) BY <1>9 DEF Agree
  <2>5. n \in Nat BY <1>0
  <2> HIDE DEF h, i, n
  <2>6. \A hh, ii, ff, gg : \A k \in Nat :
          Agree(hh, ii, k) /\ Fits(ff, p, hh, k) /\ Fits(gg, p, ii, k)
            => \A s \in SUBSET (1 .. k) : ff[s] = gg[s]
    BY TurnUnique
  <2> QED BY <2>2, <2>3, <2>4, <2>5, <2>6
<1>11. Cold(p, i) = Event(g[1 .. n], p, e)
  <2>1. Max(1 .. n + 1) = n + 1 BY <1>0, MaxIs
  <2>0. n + 1 \in 1 .. n + 1 BY <1>0
  <2>2. (1 .. n + 1) \ {n + 1} = 1 .. n /\ 1 .. n + 1 # {}
    <3> HIDE DEF n
    <3>1. (1 .. n + 1) \ {n + 1} = 1 .. n BY <1>0
    <3> QED BY <3>1, <2>0
  <2>3. g[1 .. n + 1] = Turn(g, p, i, 1 .. n + 1) BY <1>0, <1>6
  <2>4. Cold(p, i) = g[1 .. n + 1] BY <1>4 DEF g
  <2> HIDE DEF i, h, n
  <2> QED BY <2>1, <2>2, <2>3, <2>4, <1>9 DEF Turn
<1>12. g[1 .. n] = Cold(p, h) BY <1>10, <1>3 DEF f
<1> QED BY <1>8, <1>11, <1>12 DEF History

(* What Cold says does not change with a step that leaves the kind of the  *)
(* target alone.                                                           *)
LEMMA ColdStays ==
  ASSUME UNCHANGED kind, NEW p, NEW h
  PROVE  Cold(p, h)' = Cold(p, h)
<1>1. \A m, v : WriteInOut(m, v)' = WriteInOut(m, v) BY DEF WriteInOut
<1>2. \A m, f, d : SemantistStep(m, p, f, d)' = SemantistStep(m, p, f, d)
  BY DEF SemantistStep, Target, Arguments, ApplyFrame, ScanTicks, Address, Number
<1>3. Start(p, h.shared)' = Start(p, h.shared)
  <2>1. \A r : Refused(r)' <=> Refused(r) BY DEF Refused
  <2>2. \A s : Accepted(s)' = Accepted(s) BY <2>1 DEF Accepted
  <2>3. Construct(p)' = Construct(p) BY DEF Construct
  <2>4. \A state, s : ApplyShared(state, s)' = ApplyShared(state, s)
    <3> TAKE state, s
    <3> DEFINE bad == {i \in DOMAIN s : Refused(s[i])}
               good(b) == IF b = {} THEN s
                          ELSE SubSeq(s, 1, (CHOOSE i \in b : \A j \in b : i <= j) - 1)
               value(b) == SelectSeq(good(b), OfInOut)
    <3>1. bad' = bad BY <2>1
    <3>2. ApplyShared(state, s) = IF kind = "FUNCTION" \/ value(bad) = <<>> THEN state
                                  ELSE [state EXCEPT !.ioStore = Last(value(bad)).value]
      BY DEF ApplyShared
    <3>3. ApplyShared(state, s)' = IF kind' = "FUNCTION" \/ value(bad)' = <<>> THEN state
                                   ELSE [state EXCEPT !.ioStore = Last(value(bad)').value]
      BY DEF ApplyShared
    <3>4. good(bad)' = good(bad)
      <4>1. good(bad)' = IF bad' = {} THEN s
                         ELSE SubSeq(s, 1, (CHOOSE i \in bad' : \A j \in bad' : i <= j) - 1)
        OBVIOUS
      <4>2. good(bad) = IF bad = {} THEN s
                        ELSE SubSeq(s, 1, (CHOOSE i \in bad : \A j \in bad : i <= j) - 1)
        OBVIOUS
      <4> HIDE DEF bad, good
      <4> QED BY <3>1, <4>1, <4>2
    <3>5. value(bad)' = SelectSeq(good(bad)', OfInOut) OBVIOUS
    <3>6. value(bad) = SelectSeq(good(bad), OfInOut) OBVIOUS
    <3>7. value(bad)' = value(bad)
      <4> HIDE DEF bad, good, value
      <4> QED BY <3>4, <3>5, <3>6
    <3> HIDE DEF bad, value, good
    <3> QED BY <3>2, <3>3, <3>7
  <2>5. \A m, r : StateReset(m, r)' = StateReset(m, r) BY DEF StateReset, Put, NoRecord
  <2> QED BY <2>2, <2>3, <2>4, <2>5 DEF Start, SemantistInit
<1>4. \A f, s : Turn(f, p, h, s)' = Turn(f, p, h, s) BY <1>1, <1>2, <1>3 DEF Turn, Event
<1> DEFINE D == DOMAIN h.events
           Now(f) == f = [s \in SUBSET D |-> Turn(f, p, h, s)]
           Then(f) == f = [s \in SUBSET D |-> Turn(f, p, h, s)']
<1>5. Cold(p, h) = (CHOOSE f : Now(f))[D] BY ColdIs
<1>6. Cold(p, h)' = (CHOOSE f : Then(f))[D]
  BY DEF Cold, FoldLeft, MapThenFoldSet, Turn, Event, Start
<1>7. \A f : Now(f) <=> Then(f) BY <1>4
<1> HIDE DEF Now, Then
<1>8. (CHOOSE f : Now(f)) = (CHOOSE f : Then(f)) BY <1>7
<1> QED BY <1>5, <1>6, <1>8

-----------------------------------------------------------------------------
(* The two globals that the target writes.                                 *)
SumAt == <<"sum">>
LinkAt == <<"link">>

(* A state object has its fields and no others.                            *)
IsState(s) ==
  s = [in |-> s.in, acc |-> s.acc, vtable |-> s.vtable, io |-> s.io, buf |-> s.buf,
       ioStore |-> s.ioStore, bufStore |-> s.bufStore, result |-> s.result, clock |-> s.clock,
       index |-> s.index, ticks |-> s.ticks, initialized |-> s.initialized,
       exceeded |-> s.exceeded]

(* The addresses in the state object of process p.                         *)
Pointers(p, s) ==
  IF kind = "FUNCTION" THEN s.vtable = Null /\ s.io = Null /\ s.buf = Null
  ELSE /\ s.vtable = Address(p, <<"vtable">>)
       /\ s.io = Address(p, <<"store", "io">>) /\ s.buf = Address(p, <<"store", "buf">>)

Links(p) == {Null, Address(p, <<"store", "io">>), Address(p, <<"outside">>)}

(* The globals of process p: only what the target writes is ever not Null. *)
Globals(p, glob) ==
  /\ glob = [n \in Names |-> glob[n]]
  /\ \A n \in Names : n # SumAt /\ n # LinkAt => glob[n] = Null
  /\ glob[SumAt].home = "none" /\ glob[SumAt].place = <<>>
  /\ glob[LinkAt] \in Links(p)

Shape(m, p) ==
  /\ m = [glob |-> m.glob, state |-> m.state]
  /\ IsState(m.state) /\ Pointers(p, m.state) /\ Globals(p, m.glob)

(* One scan, without the detours: the state object after it, and the two   *)
(* globals.                                                                *)
NewSum(m, f) == (m.glob[SumAt].value + f.in + f.buf) % 2
NewSeen(m, f) == (m.state.ioStore + NewSum(m, f)) % 2
NewLink(m, p, f) ==
  IF f.in = 1 THEN Address(p, <<"store", "io">>)
  ELSE IF f.buf = 1 THEN Address(p, <<"outside">>) ELSE m.glob[LinkAt]
Given(s, f, dt) ==
  [in |-> IF kind = "FUNCTION" THEN s.in ELSE f.in, acc |-> s.acc, vtable |-> s.vtable,
   io |-> s.io, buf |-> s.buf, ioStore |-> s.ioStore, bufStore |-> f.buf, result |-> s.result,
   clock |-> s.clock + dt, index |-> s.index + 1, ticks |-> s.ticks,
   initialized |-> s.initialized, exceeded |-> s.exceeded]
Cut(s, f, dt) == [Given(s, f, dt) EXCEPT !.ticks = Limit + 1, !.exceeded = TRUE]
Done(m, f, dt) ==
  [Given(m.state, f, dt) EXCEPT
     !.ticks = f.in, !.ioStore = NewSeen(m, f),
     !.acc = IF kind = "FUNCTION" THEN 0 ELSE (@ + NewSeen(m, f)) % 2,
     !.result = IF kind = "FUNCTION" THEN NewSeen(m, f) ELSE 0]

Applied(m, p, f, dt) == ApplyFrame([m.state EXCEPT !.clock = @ + dt, !.index = @ + 1], p, f)

(* The target is called with the frame, and with addresses of its own      *)
(* process.                                                                *)
LEMMA CalledWith ==
  ASSUME NEW m, NEW p, Shape(m, p), NEW f, NEW dt
  PROVE  LET args == Arguments(Applied(m, p, f, dt), p, f) IN
         /\ Applied(m, p, f, dt) = Given(m.state, f, dt)
         /\ args.in = f.in /\ args.io = Address(p, <<"store", "io">>)
<1> DEFINE begun == [m.state EXCEPT !.clock = @ + dt, !.index = @ + 1]
           applied == Applied(m, p, f, dt)
           args == Arguments(applied, p, f)
           s == m.state
<1>1. IsState(s) /\ Pointers(p, s) BY DEF Shape
<1> HIDE DEF s
<1>2. begun = [s EXCEPT !.clock = @ + dt, !.index = @ + 1] BY DEF s
<1>3. applied = Given(s, f, dt)
  <2>1. CASE kind = "FUNCTION" BY <1>1, <1>2, <2>1 DEF s, IsState, Pointers, Applied, ApplyFrame, Given
  <2>2. CASE kind # "FUNCTION" BY <1>1, <1>2, <2>2 DEF s, IsState, Pointers, Applied, ApplyFrame, Given
  <2> QED BY <2>1, <2>2
<1> HIDE DEF applied
<1>4. args.in = f.in /\ args.io = Address(p, <<"store", "io">>)
  <2>1. CASE kind = "FUNCTION" BY <2>1 DEF Arguments
  <2>2. CASE kind # "FUNCTION" BY <1>1, <1>3, <2>2 DEF Arguments, Given, Pointers
  <2> QED BY <2>1, <2>2
<1> QED BY <1>3, <1>4 DEF applied, s

(* One scan is what NewSum and the others say. *)
LEMMA StepForm ==
  ASSUME NEW m, NEW p, Shape(m, p), NEW f, f.in \in Nat, NEW dt
  PROVE  SemantistStep(m, p, f, dt) =
           IF f.in > Limit THEN [glob |-> m.glob, state |-> Cut(m.state, f, dt)]
           ELSE [glob |-> [m.glob EXCEPT ![SumAt] = Number(NewSum(m, f)), ![LinkAt] = NewLink(m, p, f)],
                 state |-> Done(m, f, dt)]
<1> DEFINE applied == Applied(m, p, f, dt)
           args == Arguments(applied, p, f)
           given == Given(m.state, f, dt)
           x == [m EXCEPT !.state = applied]
<1>1. applied = given /\ args.in = f.in /\ args.io = Address(p, <<"store", "io">>)
  BY CalledWith
<1>2. m = [glob |-> m.glob, state |-> m.state] BY DEF Shape
<1>3. SemantistStep(m, p, f, dt) = Target(x, p, args) BY DEF SemantistStep, Applied
<1> HIDE DEF applied, args, given
<1>4. x = [glob |-> m.glob, state |-> given] BY <1>1, <1>2
<1>5. given.bufStore = f.buf /\ given.ioStore = m.state.ioStore BY DEF given, Given
<1> HIDE DEF x
<1>6. CASE f.in > Limit
  <2>1. Target(x, p, args) = [x EXCEPT !.state = [x.state EXCEPT !.ticks = Limit + 1, !.exceeded = TRUE]]
    BY <1>1, <1>6 DEF Target, ScanTicks
  <2>2. @ = [glob |-> m.glob, state |-> [given EXCEPT !.ticks = Limit + 1, !.exceeded = TRUE]]
    BY <1>4
  <2> QED BY <1>3, <1>6, <2>1, <2>2 DEF Cut, given
<1>7. CASE ~(f.in > Limit)
  <2> DEFINE sum == NewSum(m, f)
             seen == NewSeen(m, f)
             kept == NewLink(m, p, f)
             y == [glob |-> [m.glob EXCEPT ![SumAt] = Number(sum), ![LinkAt] = kept],
                   state |-> [given EXCEPT !.ticks = f.in, !.ioStore = seen,
                             !.acc = IF kind = "FUNCTION" THEN 0 ELSE (@ + seen) % 2,
                             !.result = IF kind = "FUNCTION" THEN seen ELSE 0]]
  <2>1. x.glob = m.glob /\ x.state = given BY <1>4
  <2>2. (x.glob[<<"sum">>].value + args.in + x.state.bufStore) % 2 = sum
    BY <1>1, <1>5, <2>1 DEF NewSum, SumAt
  <2>3. (x.state.ioStore + sum) % 2 = seen BY <1>5, <2>1 DEF NewSeen
  <2>4. (IF args.in = 1 THEN args.io
         ELSE IF x.state.bufStore = 1 THEN Address(p, <<"outside">>) ELSE x.glob[<<"link">>]) = kept
    BY <1>1, <1>5, <2>1 DEF NewLink, LinkAt
  <2>5. 0 + args.in = f.in BY <1>1
  <2> HIDE DEF sum, seen, kept
  <2>6. Target(x, p, args) = y
    BY <1>1, <1>7, <2>1, <2>2, <2>3, <2>4, <2>5 DEF Target, ScanTicks, SumAt, LinkAt
  <2>7. y.state = Done(m, f, dt) BY DEF Done, given, seen
  <2> QED BY <1>3, <1>7, <2>6, <2>7 DEF sum, kept
<1> QED BY <1>6, <1>7

(* A set of sequences with the empty one that is closed under Append.      *)
LEMMA SeqInduction ==
  ASSUME NEW S, NEW T, <<>> \in T, \A s \in Seq(S) : \A e \in S : s \in T => Append(s, e) \in T
  PROVE  \A s \in Seq(S) : s \in T
<1> DEFINE Good == {n \in Nat : \A s \in Seq(S) : Len(s) = n => s \in T}
<1>1. 0 \in Good
  <2>1. \A s \in Seq(S) : Len(s) = 0 => s = <<>> BY EmptySeq
  <2> QED BY <2>1
<1>2. ASSUME NEW n \in Nat, n \in Good PROVE n + 1 \in Good
  <2> SUFFICES ASSUME NEW s \in Seq(S), Len(s) = n + 1 PROVE s \in T OBVIOUS
  <2>1. s # <<>> BY EmptySeq
  <2>2. PICK t \in Seq(S), e \in S : s = Append(t, e) BY <2>1, SequenceEmptyOrAppend
  <2>3. Len(s) = Len(t) + 1 BY <2>2, AppendProperties
  <2>4. Len(t) = n BY <2>3, LenProperties
  <2>5. t \in T BY <1>2, <2>4
  <2> QED BY <2>2, <2>5
<1>3. \A n \in Nat : n \in Good
  <2> HIDE DEF Good
  <2> QED BY <1>1, <1>2, SetInduction
<1> QED BY <1>3, LenProperties

(* The globals of the target are in the prepared IR. *)
LEMMA WrittenAreNames == SumAt \in Names /\ LinkAt \in Names /\ SumAt # LinkAt
<1>1. SumAt # LinkAt BY DEF SumAt, LinkAt
<1>2. SumAt \in Written /\ LinkAt \in Written BY WrittenAssumption DEF SumAt, LinkAt
<1> QED BY <1>1, <1>2, WrittenAssumption DEF Names

(* Shared records change the storage of an IN_OUT parameter and no more.   *)
LEMMA SharedGoesToStore ==
  ASSUME NEW s, IsState(s), NEW shared
  PROVE  ApplyShared(s, shared) = [s EXCEPT !.ioStore = ApplyShared(s, shared).ioStore]
<1>1. ApplyShared(s, shared) = s \/ \E v : ApplyShared(s, shared) = [s EXCEPT !.ioStore = v]
  BY DEF ApplyShared
<1>2. s = [s EXCEPT !.ioStore = s.ioStore] BY DEF IsState
<1>3. \A v : [s EXCEPT !.ioStore = v].ioStore = v BY DEF IsState
<1> QED BY <1>1, <1>2, <1>3

(* The state object of an execution that is begun. *)
Begun(p, shared) ==
  [ApplyShared(Construct(p), shared) EXCEPT !.initialized = Accepted(shared)]

(* It has the shape of one. *)
LEMMA BegunShape ==
  ASSUME NEW p, NEW shared
  PROVE  LET s == Begun(p, shared) IN
         /\ IsState(s) /\ Pointers(p, s) /\ s.exceeded = FALSE
         /\ s.initialized = Accepted(shared)
<1> DEFINE c == Construct(p)
           v == ApplyShared(c, shared).ioStore
           s == Begun(p, shared)
<1>1. IsState(c) /\ Pointers(p, c) /\ c.exceeded = FALSE
  <2>1. CASE kind = "FUNCTION" BY <2>1 DEF Construct, Zeroed, IsState, Pointers
  <2>2. CASE kind # "FUNCTION" BY <2>2 DEF Construct, Zeroed, IsState, Pointers
  <2> QED BY <2>1, <2>2
<1> HIDE DEF c
<1>2. ApplyShared(c, shared) = [c EXCEPT !.ioStore = v] BY <1>1, SharedGoesToStore
<1> HIDE DEF v
<1>3. s = [[c EXCEPT !.ioStore = v] EXCEPT !.initialized = Accepted(shared)]
  BY <1>2 DEF Begun, c
<1> HIDE DEF s
<1> QED BY <1>1, <1>3 DEF IsState, Pointers, s

(* Start is the image with such a state object. *)
LEMMA StartIs ==
  ASSUME NEW p, NEW shared
  PROVE  Start(p, shared) = [glob |-> Image.glob, state |-> Begun(p, shared)]
BY DEF Start, SemantistInit, StateReset, NoRecord, Image, Begun

(* The image has Null everywhere. *)
LEMMA ImageGlobals ==
  ASSUME NEW p
  PROVE  Globals(p, Image.glob) /\ \A n \in Names : Image.glob[n] = Null
<1>1. \A n \in Names : Image.glob[n] = Null BY DEF Image
<1>2. Image.glob[SumAt] = Null /\ Image.glob[LinkAt] = Null BY <1>1, WrittenAreNames
<1>3. Image.glob = [n \in Names |-> Image.glob[n]] BY DEF Image
<1> QED BY <1>1, <1>2, <1>3 DEF Globals, Links, Null, Number

(* So the start of an execution has the shape. *)
LEMMA StartShape ==
  ASSUME NEW p, NEW shared
  PROVE  Shape(Start(p, shared), p)
BY StartIs, BegunShape, ImageGlobals DEF Shape

(* An IN_OUT write keeps it. *)
LEMMA InOutShape ==
  ASSUME NEW m, NEW p, Shape(m, p), NEW v
  PROVE  LET x == WriteInOut(m, v) IN
         /\ Shape(x, p) /\ x.state.exceeded = m.state.exceeded
         /\ x.state.initialized = m.state.initialized
<1> DEFINE s == m.state
           t == [s EXCEPT !.ioStore = v]
<1>1. m = [glob |-> m.glob, state |-> s] /\ IsState(s) /\ Pointers(p, s) /\ Globals(p, m.glob)
  BY DEF Shape
<1>2. CASE kind = "FUNCTION" BY <1>2 DEF WriteInOut
<1>3. CASE kind # "FUNCTION"
  <2>1. WriteInOut(m, v) = [glob |-> m.glob, state |-> t] BY <1>1, <1>3 DEF WriteInOut
  <2> HIDE DEF s
  <2>2. IsState(t) /\ Pointers(p, t) /\ t.exceeded = s.exceeded /\ t.initialized = s.initialized
    BY <1>1 DEF IsState, Pointers
  <2> HIDE DEF t
  <2> QED BY <1>1, <2>1, <2>2 DEF Shape, s
<1> QED BY <1>2, <1>3

(* So does a scan; it exceeds the limit for its own input. *)
LEMMA StepShape ==
  ASSUME NEW m, NEW p, Shape(m, p), NEW f, f.in \in Nat, NEW dt
  PROVE  LET x == SemantistStep(m, p, f, dt) IN
         /\ Shape(x, p) /\ x.state.initialized = m.state.initialized
         /\ f.in > Limit => x.state.exceeded = TRUE
         /\ ~(f.in > Limit) => x.state.exceeded = m.state.exceeded
<1> DEFINE x == SemantistStep(m, p, f, dt)
           g == Given(m.state, f, dt)
<1>1. IsState(m.state) /\ Pointers(p, m.state) /\ Globals(p, m.glob) BY DEF Shape
<1>2. IsState(g) /\ Pointers(p, g) /\ g.initialized = m.state.initialized /\ g.exceeded = m.state.exceeded
  BY <1>1 DEF Given, IsState, Pointers
<1>3. CASE f.in > Limit
  <2> DEFINE c == Cut(m.state, f, dt)
  <2>1. x = [glob |-> m.glob, state |-> c] BY <1>3, StepForm
  <2>2. IsState(c) /\ Pointers(p, c) /\ c.exceeded = TRUE /\ c.initialized = g.initialized
    <3>1. c = [g EXCEPT !.ticks = Limit + 1, !.exceeded = TRUE] BY DEF Cut
    <3> HIDE DEF c, g
    <3> QED BY <1>2, <3>1 DEF IsState, Pointers
  <2> HIDE DEF x, c, g
  <2> QED BY <1>1, <1>2, <1>3, <2>1, <2>2 DEF Shape, x
<1>4. CASE ~(f.in > Limit)
  <2> DEFINE d == Done(m, f, dt)
             glob == [m.glob EXCEPT ![SumAt] = Number(NewSum(m, f)), ![LinkAt] = NewLink(m, p, f)]
  <2>1. x = [glob |-> glob, state |-> d] BY <1>4, StepForm
  <2>2. IsState(d) /\ Pointers(p, d) /\ d.exceeded = g.exceeded /\ d.initialized = g.initialized
    <3> DEFINE a == IF kind = "FUNCTION" THEN 0 ELSE (g.acc + NewSeen(m, f)) % 2
               r == IF kind = "FUNCTION" THEN NewSeen(m, f) ELSE 0
               w == NewSeen(m, f)
    <3>1. d = [g EXCEPT !.ticks = f.in, !.ioStore = w, !.acc = a, !.result = r] BY DEF Done
    <3> HIDE DEF d, g, a, r, w
    <3> QED BY <1>2, <3>1 DEF IsState, Pointers
  <2>3. Globals(p, glob)
    <3> DEFINE sum == Number(NewSum(m, f))
               link == NewLink(m, p, f)
    <3>1. sum.home = "none" /\ sum.place = <<>> BY DEF Number
    <3>2. link \in Links(p) BY <1>1 DEF NewLink, Links, Globals
    <3>3. glob = [m.glob EXCEPT ![SumAt] = sum, ![LinkAt] = link] OBVIOUS
    <3> HIDE DEF sum, link, glob
    <3>4. glob[SumAt] = sum /\ glob[LinkAt] = link
          /\ \A n \in Names : n # SumAt /\ n # LinkAt => glob[n] = m.glob[n]
      <4>1. m.glob = [n \in Names |-> m.glob[n]] BY <1>1 DEF Globals
      <4> QED BY <3>3, <4>1, WrittenAreNames
    <3>5. \A n \in Names : n # SumAt /\ n # LinkAt => m.glob[n] = Null BY <1>1 DEF Globals
    <3>6. \A n \in Names : n # SumAt /\ n # LinkAt => glob[n] = Null BY <3>4, <3>5
    <3>7. glob[SumAt].home = "none" /\ glob[SumAt].place = <<>> /\ glob[LinkAt] \in Links(p)
      BY <3>1, <3>2, <3>4
    <3>8. glob = [n \in Names |-> glob[n]]
      <4>1. m.glob = [n \in Names |-> m.glob[n]] BY <1>1 DEF Globals
      <4> QED BY <3>3, <4>1
    <3> QED BY <3>6, <3>7, <3>8, Zenon DEF Globals
  <2> HIDE DEF x, d, g, glob
  <2> QED BY <1>1, <1>2, <1>4, <2>1, <2>2, <2>3 DEF Shape, x
<1> QED BY <1>3, <1>4

-----------------------------------------------------------------------------
Events == [op : {"io", "step"}, io : Words, frame : [in : Nat, buf : Words], dt : Nat]

(* Cold runs event by event. *)
LEMMA ColdStart ==
  ASSUME NEW p, NEW shared
  PROVE  Cold(p, History(shared, <<>>)) = Start(p, shared)
<1>1. <<>> \in Seq({0}) BY EmptySeq
<1>2. 0 \in {0} OBVIOUS
<1> QED BY <1>1, <1>2, ColdUnfold

(* One more event. *)
LEMMA ColdAppend ==
  ASSUME NEW p, NEW shared, NEW s \in Seq(Events), NEW e \in Events
  PROVE  Cold(p, History(shared, Append(s, e))) = Event(Cold(p, History(shared, s)), p, e)
BY ColdUnfold

(* What a new process becomes, for every input, has the shape of its process. *)
LEMMA ColdShape ==
  ASSUME NEW shared, NEW past \in Seq(Events)
  PROVE  \A p \in Processes : Shape(Cold(p, History(shared, past)), p)
<1> DEFINE H(s) == History(shared, s)
           Fine(s) == \A p \in Processes : Shape(Cold(p, H(s)), p)
           T == {s \in Seq(Events) : Fine(s)}
<1>1. <<>> \in T
  <2>1. <<>> \in Seq(Events) BY EmptySeq
  <2>2. \A p : Cold(p, H(<<>>)) = Start(p, shared) BY ColdStart
  <2>3. Fine(<<>>) BY <2>2, StartShape
  <2> QED BY <2>1, <2>3
<1>2. ASSUME NEW s \in Seq(Events), NEW e \in Events, s \in T PROVE Append(s, e) \in T
  <2> DEFINE m(p) == Cold(p, H(s))
  <2>1. \A p : Cold(p, H(Append(s, e))) = Event(m(p), p, e) BY ColdAppend
  <2>2. Fine(s) BY <1>2
  <2> HIDE DEF m
  <2>3. \A p \in Processes : Shape(m(p), p) BY <2>2 DEF m
  <2>4. e.frame.in \in Nat BY DEF Events
  <2>5. \A p \in Processes : Shape(Event(m(p), p, e), p)
    BY <2>3, <2>4, InOutShape, StepShape DEF Event
  <2>6. Append(s, e) \in Seq(Events) BY AppendProperties
  <2> DEFINE i == H(Append(s, e))
  <2> HIDE DEF i
  <2>7. \A p \in Processes : Shape(Cold(p, i), p)
    <3>1. \A p : Cold(p, i) = Event(m(p), p, e) BY <2>1 DEF i
    <3> QED BY <2>5, <3>1
  <2> QED BY <2>6, <2>7 DEF i
<1>3. past \in T
  <2> HIDE DEF T
  <2> QED BY <1>1, <1>2, SeqInduction
<1> QED BY <1>3

-----------------------------------------------------------------------------
(* The table holds what the target writes.                                 *)
TableInv == SumAt \in table /\ LinkAt \in table /\ table \subseteq Names

(* Putting the globals of the table of any process back gives all of them. *)
LEMMA PutIs ==
  ASSUME TableInv, NEW p, NEW q, NEW a, Globals(p, a), NEW b, Globals(q, b)
  PROVE  Put(a, Held(b)) = b
<1>1. b = [n \in Names |-> b[n]] BY DEF Globals
<1>2. \A n \in Names : n \notin table => a[n] = b[n] BY DEF TableInv, Globals
<1>3. DOMAIN Held(b) = table /\ \A n \in table : Held(b)[n] = b[n] BY DEF Held
<1>4. \A n \in Names : (IF n \in DOMAIN Held(b) THEN Held(b)[n] ELSE a[n]) = b[n] BY <1>2, <1>3
<1> QED BY <1>1, <1>4 DEF Put

(* A checkpoint that is restored gives the memory it was taken of. *)
LEMMA RestoreIs ==
  ASSUME TableInv, NEW p, NEW q, NEW m, Shape(m, p), NEW c, Shape(c, q)
  PROVE  SemantistRestore(m, Checkpoint(c)) = c
<1>1. Put(m.glob, Held(c.glob)) = c.glob BY PutIs DEF Shape
<1>2. c = [glob |-> c.glob, state |-> c.state] BY DEF Shape
<1> QED BY <1>1, <1>2 DEF SemantistRestore, Checkpoint

-----------------------------------------------------------------------------
(* The inductive invariant. A process that has had no input is as it was   *)
(* loaded; any other one has recorded the globals of its image, and its    *)
(* memory is what a new process would have come to. An event over the      *)
(* limit is only ever the last one, of a process that was aborted for it.  *)
IsHistory(h) == h = History(h.shared, h.events) /\ h.events \in Seq(Events)
Over(e) == e.op = "step" /\ e.frame.in > Limit
Within(s) == \A i \in DOMAIN s : ~Over(s[i])
Owed(c, s) ==
  IF c = "aborted" THEN \E t \in Seq(Events), e \in Events : s = Append(t, e) /\ Within(t) /\ Over(e)
  ELSE Within(s)
Clean == <<Held(Image.glob)>>
Process(c, m, s, h, clean, cold) ==
  /\ IF s = NoRecord THEN m = Image /\ c # "run" ELSE s = clean /\ m = cold
  /\ IsHistory(h) /\ Owed(c, h.events)
Saved(b, cold) ==
  /\ IsHistory(b.hist) /\ Within(b.hist.events)
  /\ b.bytes = Checkpoint(cold)

TypeInv ==
  /\ kind \in {"FUNCTION_BLOCK", "FUNCTION"} /\ TableInv /\ host \subseteq Processes
  /\ pc \in [Processes -> {"down", "idle", "run", "aborted"}]
  /\ mem = [p \in Processes |-> mem[p]] /\ snap = [p \in Processes |-> snap[p]]
  /\ hist = [p \in Processes |-> hist[p]]
  /\ exec \in [cycle : Nat, frame : [in : Nat, buf : Words], dt : Nat]
ProcessInv ==
  \A p \in Processes : Process(pc[p], mem[p], snap[p], hist[p], Clean, Cold(p, hist[p]))
BlobInv == blob # NoRecord => Saved(blob[1], Cold("engine", blob[1].hist))
ColdInv == TypeInv /\ ProcessInv /\ BlobInv

(* An execution none of whose scans is over the limit has not exceeded it. *)
LEMMA WithinIsQuiet ==
  ASSUME NEW p \in Processes, NEW shared, NEW past \in Seq(Events), Within(past)
  PROVE  Cold(p, History(shared, past)).state.exceeded = FALSE
<1> DEFINE T == {s \in Seq(Events) :
                   Within(s) => Cold(p, History(shared, s)).state.exceeded = FALSE}
<1>1. <<>> \in T
  <2>1. <<>> \in Seq(Events) BY EmptySeq
  <2>2. Start(p, shared).state.exceeded = FALSE BY StartIs, BegunShape
  <2> QED BY <2>1, <2>2, ColdStart
<1>2. ASSUME NEW s \in Seq(Events), NEW e \in Events, s \in T PROVE Append(s, e) \in T
  <2> DEFINE m == Cold(p, History(shared, s))
  <2>1. Append(s, e) \in Seq(Events) BY AppendProperties
  <2>2. SUFFICES ASSUME Within(Append(s, e))
                 PROVE Cold(p, History(shared, Append(s, e))).state.exceeded = FALSE
    BY <2>1
  <2>3. Within(s) /\ ~Over(e)
    <3>1. Len(s) \in Nat /\ DOMAIN s = 1 .. Len(s) /\ DOMAIN Append(s, e) = 1 .. Len(s) + 1
      BY LenProperties
    <3>2. \A i \in 1 .. Len(s) : Append(s, e)[i] = s[i] BY AppendProperties
    <3>3. Append(s, e)[Len(s) + 1] = e BY AppendProperties
    <3> QED BY <2>2, <3>1, <3>2, <3>3 DEF Within
  <2>4. Shape(m, p) BY ColdShape
  <2>5. m.state.exceeded = FALSE BY <1>2, <2>3
  <2> HIDE DEF m
  <2>6. e.frame.in \in Nat /\ e.op \in {"io", "step"} BY DEF Events
  <2>7. Event(m, p, e).state.exceeded = FALSE
    <3>1. CASE e.op = "io" BY <2>4, <2>5, <3>1, InOutShape DEF Event
    <3>2. CASE e.op = "step" BY <2>3, <2>4, <2>5, <2>6, <3>2, StepShape DEF Event, Over
    <3> QED BY <2>6, <3>1, <3>2
  <2> QED BY <2>7, ColdAppend DEF m
<1>3. past \in T
  <2> HIDE DEF T
  <2> QED BY <1>1, <1>2, SeqInduction
<1> QED BY <1>3

(* One more event that is within the limit. *)
LEMMA WithinAppend ==
  ASSUME NEW s \in Seq(Events), NEW e \in Events, Within(s), ~Over(e)
  PROVE  Append(s, e) \in Seq(Events) /\ Within(Append(s, e))
<1>1. Len(s) \in Nat /\ DOMAIN s = 1 .. Len(s) /\ DOMAIN Append(s, e) = 1 .. Len(s) + 1
  BY LenProperties
<1>2. \A i \in 1 .. Len(s) : Append(s, e)[i] = s[i] BY AppendProperties
<1>3. Append(s, e)[Len(s) + 1] = e BY AppendProperties
<1>4. Append(s, e) \in Seq(Events) BY AppendProperties
<1> QED BY <1>1, <1>2, <1>3, <1>4 DEF Within

(* The memory of a process, whether it has had an input or not. *)
LEMMA MemoryIs ==
  ASSUME ColdInv, NEW p \in Processes
  PROVE  /\ mem[p] = [glob |-> mem[p].glob, state |-> mem[p].state] /\ Globals(p, mem[p].glob)
         /\ snap[p] # NoRecord => Shape(mem[p], p) /\ mem[p] = Cold(p, hist[p])
<1>1. Process(pc[p], mem[p], snap[p], hist[p], Clean, Cold(p, hist[p])) BY DEF ColdInv, ProcessInv
<1>2. CASE snap[p] = NoRecord
  <2>1. mem[p] = Image BY <1>1, <1>2 DEF Process
  <2> QED BY <1>2, <2>1, ImageGlobals DEF Image
<1>3. CASE snap[p] # NoRecord
  <2>1. mem[p] = Cold(p, hist[p]) /\ IsHistory(hist[p]) BY <1>1, <1>3 DEF Process
  <2>2. Shape(mem[p], p) BY <2>1, ColdShape DEF IsHistory
  <2> QED BY <2>1, <2>2 DEF Shape
<1> QED BY <1>2, <1>3

(* A process whose globals are reset starts like a new one, *)
LEMMA ResetStarts ==
  ASSUME TableInv, NEW p, NEW m, m = [glob |-> m.glob, state |-> m.state], Globals(p, m.glob),
         NEW shared
  PROVE  SemantistInit(m, Clean, p, shared) = Start(p, shared)
<1>1. Put(m.glob, Held(Image.glob)) = Image.glob BY ImageGlobals, PutIs
<1>2. Clean # NoRecord /\ Clean[1] = Held(Image.glob) BY DEF NoRecord, Clean
<1>3. StateReset(m, Clean) = [glob |-> Image.glob, state |-> m.state] BY <1>1, <1>2 DEF StateReset
<1>4. SemantistInit(m, Clean, p, shared) = [StateReset(m, Clean) EXCEPT !.state = Begun(p, shared)]
  BY DEF SemantistInit, Begun
<1> QED BY <1>3, <1>4, StartIs

(* and so does every process when it is initialised. *)
LEMMA InitIsCold ==
  ASSUME ColdInv, NEW p \in Processes, NEW shared
  PROVE  /\ SemantistInit(mem[p], snap[p], p, shared) = Start(p, shared)
         /\ Recorded(mem[p], snap[p]) = Clean
<1>1. Process(pc[p], mem[p], snap[p], hist[p], Clean, Cold(p, hist[p])) /\ TableInv
  BY DEF ColdInv, ProcessInv, TypeInv
<1>2. CASE snap[p] = NoRecord
  <2>1. mem[p] = Image BY <1>1, <1>2 DEF Process
  <2> QED BY <1>2, <2>1 DEF Start, Recorded, Clean
<1>3. CASE snap[p] # NoRecord
  <2>1. snap[p] = Clean BY <1>1, <1>3 DEF Process
  <2> QED BY <1>1, <1>3, <2>1, MemoryIs, ResetStarts DEF Recorded
<1> QED BY <1>2, <1>3

(* The persistent loop resets twice. *)
LEMMA LoopInitIsCold ==
  ASSUME ColdInv, NEW p \in Processes, NEW shared
  PROVE  LET m == StateReset(mem[p], snap[p])
             s == Recorded(mem[p], snap[p])
         IN  SemantistInit(m, s, p, shared) = Start(p, shared) /\ Recorded(m, s) = Clean
<1> DEFINE m == StateReset(mem[p], snap[p])
           s == Recorded(mem[p], snap[p])
<1>1. s = Clean BY InitIsCold
<1>2. TableInv BY DEF ColdInv, TypeInv
<1>3. mem[p] = [glob |-> mem[p].glob, state |-> mem[p].state] /\ Globals(p, mem[p].glob)
  BY MemoryIs
<1>4. m = [glob |-> m.glob, state |-> m.state] /\ Globals(p, m.glob)
  <2>1. CASE snap[p] = NoRecord BY <1>3, <2>1 DEF StateReset
  <2>2. CASE snap[p] # NoRecord
    <3>1. snap[p] = Clean BY <1>1, <2>2 DEF Recorded
    <3>2. Put(mem[p].glob, snap[p][1]) = Image.glob BY <1>2, <1>3, <3>1, ImageGlobals, PutIs DEF Clean
    <3>3. m = [glob |-> Image.glob, state |-> mem[p].state] BY <1>3, <2>2, <3>2 DEF StateReset
    <3> QED BY <3>3, ImageGlobals
  <2> QED BY <2>1, <2>2
<1> HIDE DEF m
<1>5. SemantistInit(m, s, p, shared) = Start(p, shared) BY <1>1, <1>2, <1>4, ResetStarts
<1>6. Recorded(m, s) = Clean BY <1>1 DEF Recorded, Clean, NoRecord
<1> QED BY <1>5, <1>6 DEF m

-----------------------------------------------------------------------------
(* A step of one process.                                                  *)
Touches(p) ==
  \A q \in Processes \ {p} :
    pc'[q] = pc[q] /\ mem'[q] = mem[q] /\ snap'[q] = snap[q] /\ hist'[q] = hist[q]

(* It keeps the invariant of all processes if it keeps that of its own. *)
LEMMA OneProcess ==
  ASSUME ProcessInv, UNCHANGED <<kind, table>>, NEW p \in Processes, Touches(p),
         Process(pc'[p], mem'[p], snap'[p], hist'[p], Clean, Cold(p, hist'[p]))
  PROVE  ProcessInv'
<1>1. Clean' = Clean BY DEF Clean, Held, Image, Zeroed
<1>2. \A q, h : Cold(q, h)' = Cold(q, h) BY ColdStays
<1> SUFFICES ASSUME NEW q \in Processes
             PROVE Process(pc'[q], mem'[q], snap'[q], hist'[q], Clean', Cold(q, hist[q])')
  BY DEF ProcessInv
<1>3. Cold(q, hist[q])' = Cold(q, hist'[q])
  <2>1. PICK h : h = hist'[q] OBVIOUS
  <2>2. Cold(q, hist[q])' = Cold(q, h)' BY <2>1
  <2> QED BY <1>2, <2>1, <2>2
<1>4. CASE q = p BY <1>1, <1>3, <1>4
<1>5. CASE q # p
  <2>1. pc'[q] = pc[q] /\ mem'[q] = mem[q] /\ snap'[q] = snap[q] /\ hist'[q] = hist[q]
    BY <1>5 DEF Touches
  <2>2. Process(pc[q], mem[q], snap[q], hist[q], Clean, Cold(q, hist[q])) BY DEF ProcessInv
  <2> QED BY <1>1, <1>3, <2>1, <2>2
<1> QED BY <1>4, <1>5

(* A checkpoint that a step leaves alone stays what it is. *)
LEMMA SavedStay ==
  ASSUME BlobInv, UNCHANGED <<kind, table, blob>>
  PROVE  BlobInv'
<1>1. \A q, h : Cold(q, h)' = Cold(q, h) BY ColdStays
<1>2. Cold("engine", blob[1].hist)' = Cold("engine", blob[1].hist)
  <2>1. PICK h : h = blob[1].hist OBVIOUS
  <2>2. Cold("engine", blob[1].hist)' = Cold("engine", h)' BY <2>1
  <2> QED BY <1>1, <2>1, <2>2
<1>3. \A b, c : Saved(b, c)' = Saved(b, c)
  BY DEF Saved, IsHistory, Within, Checkpoint, Held, Over, History, Events, Words
<1>4. BlobInv' <=> (blob # NoRecord => Saved(blob[1], Cold("engine", blob[1].hist)'))
  BY <1>3 DEF BlobInv
<1> QED BY <1>2, <1>4 DEF BlobInv

(* A process is initialised. *)
LEMMA Initialized ==
  ASSUME NEW p \in Processes, NEW shared, NEW c, c \in {"run", "idle"}
  PROVE  LET h == [shared |-> shared, events |-> <<>>] IN
         Process(c, Start(p, shared), Clean, h, Clean, Cold(p, h))
<1> DEFINE h == History(shared, <<>>)
<1>1. Cold(p, h) = Start(p, shared) BY ColdStart
<1>2. Clean # NoRecord BY DEF Clean, NoRecord
<1>3. <<>> \in Seq(Events) BY EmptySeq
<1>4. IsHistory(h) BY <1>3 DEF IsHistory, History
<1>5. Within(<<>>) BY DEF Within
<1>6. Owed(c, h.events) BY <1>5 DEF Owed, History
<1>7. Process(c, Start(p, shared), Clean, h, Clean, Cold(p, h))
  <2> HIDE DEF h
  <2> QED BY <1>1, <1>2, <1>4, <1>6 DEF Process
<1> QED BY <1>7 DEF History

(* The history with one more event.                                        *)
More(h, e) == History(h.shared, Append(h.events, e))

(* One event of a process that runs: the memory stays the cold one, and    *)
(* the process is aborted for this event or not at all.                    *)
LEMMA OneEvent ==
  ASSUME NEW p \in Processes, NEW h, IsHistory(h), Within(h.events), NEW e \in Events,
         NEW m, m = Cold(p, h)
  PROVE  /\ Event(m, p, e) = Cold(p, More(h, e)) /\ IsHistory(More(h, e))
         /\ ~Over(e) => Within(More(h, e).events) /\ Event(m, p, e).state.exceeded = FALSE
         /\ Over(e) => Owed("aborted", More(h, e).events) /\ Event(m, p, e).state.exceeded = TRUE
<1> DEFINE s == h.events
           x == Event(m, p, e)
           i == More(h, e)
<1>0. h = History(h.shared, s) /\ s \in Seq(Events) BY DEF IsHistory
<1>1. Shape(m, p) BY <1>0, ColdShape
<1>2. x = Cold(p, i) BY <1>0, ColdAppend DEF More
<1>3. Append(s, e) \in Seq(Events) BY <1>0, AppendProperties
<1>4. i.shared = h.shared /\ i.events = Append(s, e) BY DEF History, More
<1>5. IsHistory(i) BY <1>3, <1>4 DEF IsHistory, More
<1>6. ASSUME ~Over(e) PROVE Within(i.events) /\ x.state.exceeded = FALSE
  <2>1. Within(Append(s, e)) BY <1>0, <1>6, WithinAppend
  <2>2. Cold(p, i).state.exceeded = FALSE BY <1>3, <2>1, WithinIsQuiet DEF More
  <2> QED BY <1>2, <1>4, <2>1, <2>2
<1>7. ASSUME Over(e) PROVE Owed("aborted", i.events) /\ x.state.exceeded = TRUE
  <2>1. e.op = "step" /\ e.frame.in \in Nat /\ e.frame.in > Limit BY <1>7 DEF Over, Events
  <2>2. x.state.exceeded = TRUE BY <1>1, <2>1, StepShape DEF Event
  <2>3. Owed("aborted", i.events) BY <1>0, <1>4, <1>7 DEF Owed
  <2> QED BY <2>2, <2>3
<1> QED BY <1>2, <1>5, <1>6, <1>7

-----------------------------------------------------------------------------
(* The invariant holds initially. *)
LEMMA ColdInit == HInit => ColdInv
<1> SUFFICES ASSUME HInit PROVE ColdInv OBVIOUS
<1>1. PICK opt \in Optimizations : table = StateTable(opt) BY DEF HInit
<1>2. TableInv
  <2>1. SumAt \in Written /\ LinkAt \in Written BY WrittenAssumption DEF SumAt, LinkAt
  <2>2. \A w \in Written : w \in WritableGlobals(IR) BY WrittenAssumption DEF WritableGlobals
  <2>3. \A w \in Written : Survives(w, opt) BY OptimizerAssumption DEF Survives, WritableGlobals
  <2>4. WritableGlobals(IR) \subseteq Names BY DEF WritableGlobals, Names
  <2> QED BY <1>1, <2>1, <2>2, <2>3, <2>4 DEF TableInv, StateTable
<1>3. TypeInv
  <2>1. exec \in [cycle : Nat, frame : [in : Nat, buf : Words], dt : Nat]
    BY LimitAssumption DEF HInit, NoText, NoFrame, Words
  <2>2. host \subseteq Processes BY DEF HInit, Processes
  <2> QED BY <1>2, <2>1, <2>2 DEF HInit, TypeInv
<1>4. ProcessInv
  <2> SUFFICES ASSUME NEW p \in Processes
               PROVE Process(pc[p], mem[p], snap[p], hist[p], Clean, Cold(p, hist[p]))
    BY DEF ProcessInv
  <2>1. pc[p] = "down" /\ mem[p] = Image /\ snap[p] = NoRecord /\ hist[p] = NoHistory BY DEF HInit
  <2>2. <<>> \in Seq(Events) BY EmptySeq
  <2>3. IsHistory(NoHistory) /\ Within(NoHistory.events)
    BY <2>2 DEF IsHistory, NoHistory, History, Within
  <2> QED BY <2>1, <2>3 DEF Process, Owed
<1>5. BlobInv BY DEF HInit, BlobInv
<1> QED BY <1>3, <1>4, <1>5 DEF ColdInv

(* A process is loaded. *)
LEMMA LoadStep ==
  ASSUME ColdInv, NEW p \in Processes, Load(p)
  PROVE  ColdInv'
<1>1. TypeInv /\ ProcessInv /\ BlobInv BY DEF ColdInv
<1>2. UNCHANGED <<kind, table>> BY DEF Load
<1>3. TypeInv' BY <1>1 DEF TypeInv, TableInv, Load
<1>4. ProcessInv'
  <2>1. pc'[p] = "idle" /\ mem'[p] = Image /\ snap'[p] = NoRecord /\ hist'[p] = NoHistory
    BY <1>1 DEF Load, TypeInv
  <2>2. <<>> \in Seq(Events) BY EmptySeq
  <2>3. IsHistory(NoHistory) /\ Within(NoHistory.events)
    BY <2>2 DEF IsHistory, NoHistory, History, Within
  <2>4. Process(pc'[p], mem'[p], snap'[p], hist'[p], Clean, Cold(p, hist'[p]))
    BY <2>1, <2>3 DEF Process, Owed
  <2>5. Touches(p) BY <1>1 DEF Touches, Load, TypeInv
  <2> QED BY <1>1, <1>2, <2>4, <2>5, OneProcess
<1>5. BlobInv'
  <2>1. CASE p = "engine" BY <2>1 DEF Load, BlobInv
  <2>2. CASE p # "engine"
    <3>1. UNCHANGED <<kind, table, blob>> BY <2>2 DEF Load
    <3> QED BY <1>1, <3>1, SavedStay
  <2> QED BY <2>1, <2>2
<1> QED BY <1>3, <1>4, <1>5 DEF ColdInv

(* A process is given the shared records of an input. *)
LEMMA InitializeStep ==
  ASSUME ColdInv, UNCHANGED <<kind, table>>, NEW p \in Processes, NEW m, NEW s, NEW shared,
         Initialize(p, m, s, shared), SemantistInit(m, s, p, shared) = Start(p, shared),
         Recorded(m, s) = Clean
  PROVE  /\ ProcessInv'
         /\ pc' \in [Processes -> {"down", "idle", "run", "aborted"}]
         /\ mem' = [q \in Processes |-> mem'[q]] /\ snap' = [q \in Processes |-> snap'[q]]
         /\ hist' = [q \in Processes |-> hist'[q]]
<1>1. TypeInv /\ ProcessInv BY DEF ColdInv
<1> DEFINE c == IF Accepted(shared) THEN "run" ELSE "idle"
           h == [shared |-> shared, events |-> <<>>]
<1>2. pc'[p] = c /\ mem'[p] = Start(p, shared) /\ snap'[p] = Clean /\ hist'[p] = h
  BY <1>1 DEF Initialize, TypeInv
<1>3. Process(c, Start(p, shared), Clean, h, Clean, Cold(p, h)) BY Initialized
<1>4. Touches(p) BY <1>1 DEF Touches, Initialize, TypeInv
<1> HIDE DEF c, h
<1>5. Process(pc'[p], mem'[p], snap'[p], hist'[p], Clean, Cold(p, hist'[p])) BY <1>2, <1>3
<1>6. ProcessInv' BY <1>1, <1>4, <1>5, OneProcess
<1>7. pc' \in [Processes -> {"down", "idle", "run", "aborted"}] BY <1>1 DEF Initialize, TypeInv
<1>8. mem' = [q \in Processes |-> mem'[q]] BY <1>1 DEF Initialize, TypeInv
<1>9. snap' = [q \in Processes |-> snap'[q]] BY <1>1 DEF Initialize, TypeInv
<1>10. hist' = [q \in Processes |-> hist'[q]] BY <1>1 DEF Initialize, TypeInv
<1> QED BY <1>6, <1>7, <1>8, <1>9, <1>10

(* The persistent loop takes the next input. *)
LEMMA LoopInputStep ==
  ASSUME ColdInv, LoopInput
  PROVE  ColdInv'
<1>1. TypeInv /\ ProcessInv /\ BlobInv BY DEF ColdInv
<1>2. UNCHANGED <<kind, table, host, blob>> /\ exec' = NoText BY DEF LoopInput
<1>3. PICK shared : Initialize("loop", StateReset(mem["loop"], snap["loop"]),
                               Recorded(mem["loop"], snap["loop"]), shared)
  BY DEF LoopInput
<1>4. "loop" \in Processes BY DEF Processes
<1> DEFINE m == StateReset(mem["loop"], snap["loop"])
           s == Recorded(mem["loop"], snap["loop"])
<1>5. SemantistInit(m, s, "loop", shared) = Start("loop", shared) /\ Recorded(m, s) = Clean
  BY <1>4, LoopInitIsCold
<1> HIDE DEF m, s
<1>6. /\ ProcessInv' /\ pc' \in [Processes -> {"down", "idle", "run", "aborted"}]
      /\ mem' = [q \in Processes |-> mem'[q]] /\ snap' = [q \in Processes |-> snap'[q]]
      /\ hist' = [q \in Processes |-> hist'[q]]
  <2>1. Initialize("loop", m, s, shared) BY <1>3 DEF m, s
  <2>2. UNCHANGED <<kind, table>> BY <1>2
  <2> QED BY <1>4, <1>5, <2>1, <2>2, InitializeStep
<1>7. exec' \in [cycle : Nat, frame : [in : Nat, buf : Words], dt : Nat]
  BY <1>2, LimitAssumption DEF NoText, NoFrame, Words
<1>8. TypeInv' BY <1>1, <1>2, <1>6, <1>7 DEF TypeInv, TableInv
<1>9. BlobInv' BY <1>1, <1>2, SavedStay
<1> QED BY <1>6, <1>8, <1>9 DEF ColdInv

(* So does the engine, between two executions or in the middle of one. *)
LEMMA EngineInputStep ==
  ASSUME ColdInv, EngineInput
  PROVE  ColdInv'
<1>1. TypeInv /\ ProcessInv /\ BlobInv BY DEF ColdInv
<1>2. UNCHANGED <<kind, table, host, exec, blob>> BY DEF EngineInput
<1>3. PICK shared : Initialize("engine", mem["engine"], snap["engine"], shared) BY DEF EngineInput
<1>4. "engine" \in Processes BY DEF Processes
<1>5. SemantistInit(mem["engine"], snap["engine"], "engine", shared) = Start("engine", shared)
      /\ Recorded(mem["engine"], snap["engine"]) = Clean
  BY <1>4, InitIsCold
<1>6. /\ ProcessInv' /\ pc' \in [Processes -> {"down", "idle", "run", "aborted"}]
      /\ mem' = [q \in Processes |-> mem'[q]] /\ snap' = [q \in Processes |-> snap'[q]]
      /\ hist' = [q \in Processes |-> hist'[q]]
  <2>1. UNCHANGED <<kind, table>> BY <1>2
  <2> QED BY <1>3, <1>4, <1>5, <2>1, InitializeStep
<1>7. TypeInv' BY <1>1, <1>2, <1>6 DEF TypeInv, TableInv
<1>8. BlobInv' BY <1>1, <1>2, SavedStay
<1> QED BY <1>6, <1>7, <1>8 DEF ColdInv

(* A process that runs: its memory is the cold one, and no event was over  *)
(* the limit yet.                                                          *)
LEMMA Running ==
  ASSUME ColdInv, NEW p \in Processes, pc[p] = "run"
  PROVE  /\ IsHistory(hist[p])
         /\ Within(hist[p].events) /\ snap[p] = Clean /\ snap[p] # NoRecord
         /\ mem[p] = Cold(p, hist[p])
<1>1. Process(pc[p], mem[p], snap[p], hist[p], Clean, Cold(p, hist[p])) BY DEF ColdInv, ProcessInv
<1>2. Clean # NoRecord BY DEF Clean, NoRecord
<1> QED BY <1>1, <1>2 DEF Process, Owed

(* One event of a running process, whatever it is. *)
LEMMA EventStep ==
  ASSUME ColdInv, UNCHANGED <<kind, table, snap>>, NEW p \in Processes, pc[p] = "run",
         NEW e \in Events, NEW c \in {"run", "idle"},
         mem' = [mem EXCEPT ![p] = Event(mem[p], p, e)], Give(p, e),
         pc' = [pc EXCEPT ![p] = IF Over(e) THEN "aborted" ELSE c]
  PROVE  /\ ProcessInv'
         /\ pc' \in [Processes -> {"down", "idle", "run", "aborted"}]
         /\ mem' = [q \in Processes |-> mem'[q]] /\ snap' = [q \in Processes |-> snap'[q]]
         /\ hist' = [q \in Processes |-> hist'[q]]
<1>1. TypeInv /\ ProcessInv BY DEF ColdInv
<1> DEFINE i == More(hist[p], e)
           x == Event(mem[p], p, e)
<1>2. /\ IsHistory(hist[p]) /\ Within(hist[p].events)
      /\ snap[p] = Clean /\ snap[p] # NoRecord /\ mem[p] = Cold(p, hist[p])
  BY Running
<1>3. /\ x = Cold(p, i) /\ IsHistory(i)
      /\ ~Over(e) => Within(i.events)
      /\ Over(e) => Owed("aborted", i.events)
  BY <1>2, OneEvent
<1>4. hist'[p] = i
  <2>1. hist'[p] = [hist[p] EXCEPT !.events = Append(@, e)] BY <1>1 DEF Give, TypeInv
  <2>2. hist[p] = [shared |-> hist[p].shared, events |-> hist[p].events]
    BY <1>2 DEF IsHistory, History
  <2> QED BY <2>1, <2>2 DEF History, More
<1> HIDE DEF i, x
<1>5. mem'[p] = x /\ snap'[p] = Clean /\ pc'[p] = IF Over(e) THEN "aborted" ELSE c
  BY <1>1, <1>2 DEF TypeInv, x
<1>6. Process(pc'[p], mem'[p], snap'[p], hist'[p], Clean, Cold(p, hist'[p]))
  <2>1. Owed(pc'[p], i.events) BY <1>3, <1>5 DEF Owed
  <2> QED BY <1>2, <1>3, <1>4, <1>5, <2>1 DEF Process
<1>7. Touches(p) BY <1>1 DEF Touches, TypeInv, Give
<1>8. ProcessInv' BY <1>1, <1>6, <1>7, OneProcess
<1>9. pc' \in [Processes -> {"down", "idle", "run", "aborted"}] BY <1>1 DEF TypeInv
<1>10. mem' = [q \in Processes |-> mem'[q]] BY <1>1 DEF TypeInv
<1>11. snap' = [q \in Processes |-> snap'[q]] BY <1>1 DEF TypeInv
<1>12. hist' = [q \in Processes |-> hist'[q]] BY <1>1 DEF Give, TypeInv
<1> QED BY <1>8, <1>9, <1>10, <1>11, <1>12

(* A scan of the persistent loop. *)
LEMMA ScanStep ==
  ASSUME ColdInv, NEW p \in Processes, pc[p] = "run", NEW c \in {"run", "idle"},
         NEW f \in [in : Nat, buf : Words], NEW dt \in Nat, Scan(p, f, dt, c)
  PROVE  /\ ProcessInv'
         /\ pc' \in [Processes -> {"down", "idle", "run", "aborted"}]
         /\ mem' = [q \in Processes |-> mem'[q]] /\ snap' = [q \in Processes |-> snap'[q]]
         /\ hist' = [q \in Processes |-> hist'[q]]
<1> DEFINE e == StepEvent(f, dt)
           x == SemantistStep(mem[p], p, f, dt)
<1>1. e \in Events BY DEF StepEvent, Events, Words
<1>2. e.op = "step" /\ e.frame = f /\ e.dt = dt BY DEF StepEvent
<1> HIDE DEF e
<1>3. Event(mem[p], p, e) = x BY <1>2 DEF Event
<1>4. x.state.exceeded <=> Over(e)
  <2>1. mem[p] = Cold(p, hist[p]) /\ IsHistory(hist[p]) /\ Within(hist[p].events)
    BY Running
  <2>2. \A m : m = Cold(p, hist[p]) =>
              /\ ~Over(e) => Event(m, p, e).state.exceeded = FALSE
              /\ Over(e) => Event(m, p, e).state.exceeded = TRUE
    <3> SUFFICES ASSUME NEW m, m = Cold(p, hist[p])
                 PROVE /\ ~Over(e) => Event(m, p, e).state.exceeded = FALSE
                       /\ Over(e) => Event(m, p, e).state.exceeded = TRUE
      OBVIOUS
    <3> QED BY <1>1, <2>1, OneEvent
  <2> QED BY <1>3, <2>1, <2>2
<1>5. mem' = [mem EXCEPT ![p] = Event(mem[p], p, e)] /\ Give(p, e) /\ UNCHANGED <<kind, table, snap>>
  BY <1>3 DEF Scan, e
<1>6. pc' = [pc EXCEPT ![p] = IF Over(e) THEN "aborted" ELSE c]
  <2>1. pc' = [pc EXCEPT ![p] = IF x.state.exceeded THEN "aborted" ELSE c] BY DEF Scan
  <2> HIDE DEF x
  <2> QED BY <1>4, <2>1
<1> HIDE DEF x
<1> QED BY <1>1, <1>5, <1>6, EventStep

(* The record of another cycle, with the scan of the one before. *)
LEMMA NextCycleStep ==
  ASSUME ColdInv, NextCycle
  PROVE  ColdInv'
<1>1. TypeInv /\ ProcessInv /\ BlobInv BY DEF ColdInv
<1>2. UNCHANGED <<kind, table, host, snap, blob>> /\ pc["loop"] = "run"
      /\ exec' = [exec EXCEPT !.cycle = @ + 1, !.dt = Period]
  BY DEF NextCycle, Scan
<1>3. exec' \in [cycle : Nat, frame : [in : Nat, buf : Words], dt : Nat]
  <2>1. exec \in [cycle : Nat, frame : [in : Nat, buf : Words], dt : Nat] BY <1>1 DEF TypeInv
  <2>2. exec.cycle + 1 \in Nat /\ Period \in Nat BY <2>1, LimitAssumption
  <2>3. exec' = [exec EXCEPT !.cycle = exec.cycle + 1, !.dt = Period] BY <1>2
  <2> QED BY <2>1, <2>2, <2>3
<1>4. "loop" \in Processes BY DEF Processes
<1>5. BlobInv' BY <1>1, <1>2, SavedStay
<1>6. CASE Scan("loop", exec.frame, exec.dt, "run")
  <2>1. exec.frame \in [in : Nat, buf : Words] /\ exec.dt \in Nat BY <1>1 DEF TypeInv
  <2>2. /\ ProcessInv' /\ pc' \in [Processes -> {"down", "idle", "run", "aborted"}]
        /\ mem' = [q \in Processes |-> mem'[q]] /\ snap' = [q \in Processes |-> snap'[q]]
        /\ hist' = [q \in Processes |-> hist'[q]]
    BY <1>2, <1>4, <1>6, <2>1, ScanStep
  <2>3. TypeInv' BY <1>1, <1>2, <1>3, <2>2 DEF TypeInv, TableInv
  <2> QED BY <1>5, <2>2, <2>3 DEF ColdInv
<1>7. CASE UNCHANGED <<pc, mem, hist>>
  <2>1. Touches("loop") BY <1>2, <1>7 DEF Touches
  <2>2. Process(pc'["loop"], mem'["loop"], snap'["loop"], hist'["loop"], Clean,
                Cold("loop", hist'["loop"]))
    BY <1>1, <1>2, <1>4, <1>7 DEF ProcessInv
  <2>3. ProcessInv' BY <1>1, <1>2, <1>4, <2>1, <2>2, OneProcess
  <2>4. TypeInv' BY <1>1, <1>2, <1>3, <1>7 DEF TypeInv, TableInv
  <2> QED BY <1>5, <2>3, <2>4 DEF ColdInv
<1> QED BY <1>6, <1>7 DEF NextCycle

(* The end of the text. *)
LEMMA EndOfTextStep ==
  ASSUME ColdInv, EndOfText
  PROVE  ColdInv'
<1>1. TypeInv /\ ProcessInv /\ BlobInv BY DEF ColdInv
<1>2. UNCHANGED <<kind, table, host, snap, blob>> /\ pc["loop"] = "run" /\ exec' = NoText
      /\ Scan("loop", exec.frame, exec.dt, "idle")
  BY DEF EndOfText, Scan
<1>3. exec' \in [cycle : Nat, frame : [in : Nat, buf : Words], dt : Nat]
  BY <1>2, LimitAssumption DEF NoText, NoFrame, Words
<1>4. "loop" \in Processes BY DEF Processes
<1>5. BlobInv' BY <1>1, <1>2, SavedStay
<1>6. exec.frame \in [in : Nat, buf : Words] /\ exec.dt \in Nat BY <1>1 DEF TypeInv
<1>7. /\ ProcessInv' /\ pc' \in [Processes -> {"down", "idle", "run", "aborted"}]
      /\ mem' = [q \in Processes |-> mem'[q]] /\ snap' = [q \in Processes |-> snap'[q]]
      /\ hist' = [q \in Processes |-> hist'[q]]
  BY <1>2, <1>4, <1>6, ScanStep
<1>8. TypeInv' BY <1>1, <1>2, <1>3, <1>7 DEF TypeInv, TableInv
<1> QED BY <1>5, <1>7, <1>8 DEF ColdInv

(* A record of the current cycle: only one of an IN_OUT parameter reaches  *)
(* the memory of the target.                                               *)
LEMMA TakeRecordStep ==
  ASSUME ColdInv, TakeRecord
  PROVE  ColdInv'
<1>1. TypeInv /\ ProcessInv /\ BlobInv BY DEF ColdInv
<1>2. UNCHANGED <<kind, table, host, pc, snap, blob>> /\ pc["loop"] = "run" BY DEF TakeRecord
<1>4. "loop" \in Processes BY DEF Processes
<1>5. BlobInv' BY <1>1, <1>2, SavedStay
<1>6. CASE UNCHANGED <<mem, hist>>
           /\ exec' \in [cycle : Nat, frame : [in : Nat, buf : Words], dt : Nat]
  <2>1. Touches("loop") BY <1>2, <1>6 DEF Touches
  <2>2. Process(pc'["loop"], mem'["loop"], snap'["loop"], hist'["loop"], Clean,
                Cold("loop", hist'["loop"]))
    BY <1>1, <1>2, <1>4, <1>6 DEF ProcessInv
  <2>3. ProcessInv' BY <1>1, <1>2, <1>4, <2>1, <2>2, OneProcess
  <2>4. TypeInv' BY <1>1, <1>2, <1>6 DEF TypeInv, TableInv
  <2> QED BY <1>5, <2>3, <2>4 DEF ColdInv
<1>7. CASE UNCHANGED exec /\ \E v \in Words : /\ mem' = [mem EXCEPT !["loop"] = WriteInOut(@, v)]
                                              /\ Give("loop", InOutEvent(v))
  <2>1. PICK v \in Words : mem' = [mem EXCEPT !["loop"] = WriteInOut(@, v)]
                           /\ Give("loop", InOutEvent(v))
    BY <1>7
  <2> DEFINE e == InOutEvent(v)
  <2>2. e \in Events BY DEF InOutEvent, Events, NoFrame, Words
  <2>3. e.op = "io" /\ e.io = v BY DEF InOutEvent
  <2> HIDE DEF e
  <2>4. ~Over(e) BY <2>3 DEF Over
  <2>5. mem' = [mem EXCEPT !["loop"] = Event(mem["loop"], "loop", e)] BY <2>1, <2>3 DEF Event
  <2>6. pc' = [pc EXCEPT !["loop"] = IF Over(e) THEN "aborted" ELSE "run"]
    BY <1>1, <1>2, <1>4, <2>4 DEF TypeInv
  <2>7. Give("loop", e) BY <2>1 DEF e
  <2>8. UNCHANGED <<kind, table, snap>> BY <1>2
  <2>9. /\ ProcessInv' /\ pc' \in [Processes -> {"down", "idle", "run", "aborted"}]
        /\ mem' = [q \in Processes |-> mem'[q]] /\ snap' = [q \in Processes |-> snap'[q]]
        /\ hist' = [q \in Processes |-> hist'[q]]
    BY <1>2, <1>4, <2>2, <2>5, <2>6, <2>7, <2>8, EventStep
  <2>10. TypeInv' BY <1>1, <1>2, <1>7, <2>9 DEF TypeInv, TableInv
  <2> QED BY <1>5, <2>9, <2>10 DEF ColdInv
<1>8. ASSUME NEW v \in 0 .. Limit + 1, exec' = [exec EXCEPT !.frame.in = v]
      PROVE exec' \in [cycle : Nat, frame : [in : Nat, buf : Words], dt : Nat]
  <2>1. v \in Nat BY LimitAssumption
  <2> QED BY <1>1, <1>8, <2>1 DEF TypeInv
<1>9. ASSUME NEW v \in Words, exec' = [exec EXCEPT !.frame.buf = v]
      PROVE exec' \in [cycle : Nat, frame : [in : Nat, buf : Words], dt : Nat]
  BY <1>1, <1>9 DEF TypeInv
<1>10. ASSUME NEW f \in Frames, exec' = [exec EXCEPT !.dt = f.dt]
       PROVE exec' \in [cycle : Nat, frame : [in : Nat, buf : Words], dt : Nat]
  <2>1. f.dt \in Nat BY FramesAssumption
  <2> QED BY <1>1, <1>10, <2>1 DEF TypeInv
<1> QED BY <1>6, <1>7, <1>8, <1>9, <1>10 DEF TakeRecord

(* A process that stops, or is stopped, between two scans. *)
LEMMA StopStep ==
  ASSUME ColdInv, NEW p \in Processes, pc[p] = "run", NEW c \in {"idle", "down"},
         pc' = [pc EXCEPT ![p] = c], UNCHANGED <<kind, table, host, mem, snap, hist, blob>>,
         exec' \in [cycle : Nat, frame : [in : Nat, buf : Words], dt : Nat]
  PROVE  ColdInv'
<1>1. TypeInv /\ ProcessInv /\ BlobInv BY DEF ColdInv
<1>2. pc'[p] = c BY <1>1 DEF TypeInv
<1>3. Process(pc[p], mem[p], snap[p], hist[p], Clean, Cold(p, hist[p])) BY <1>1 DEF ProcessInv
<1>4. Process(pc'[p], mem'[p], snap'[p], hist'[p], Clean, Cold(p, hist'[p]))
  BY <1>2, <1>3 DEF Process, Owed
<1>5. Touches(p) BY <1>1 DEF Touches, TypeInv
<1>6. ProcessInv' BY <1>1, <1>4, <1>5, OneProcess
<1>7. BlobInv' BY <1>1, SavedStay
<1>8. TypeInv' BY <1>1 DEF TypeInv, TableInv
<1> QED BY <1>6, <1>7, <1>8 DEF ColdInv

(* A frame of the engine or the driver: the IN_OUT writes and the scan. *)
LEMMA FrameStep ==
  ASSUME ColdInv, NEW p \in Processes, NEW f \in Frames, GiveFrame(p, f)
  PROVE  ColdInv'
<1>1. TypeInv /\ ProcessInv /\ BlobInv BY DEF ColdInv
<1> DEFINE a == InOutEvent(f.io)
           fr == [in |-> f.in, buf |-> f.buf]
           b == StepEvent(fr, f.dt)
           h == hist[p]
           g == More(h, a)
           i == More(g, b)
           w == WriteInOut(mem[p], f.io)
           x == SemantistStep(w, p, fr, f.dt)
<1>2. f \in [in : Nat, buf : {0, 1}, io : {0, 1}, dt : Nat] BY FramesAssumption
<1>3. a \in Events /\ a.op = "io" /\ a.io = f.io
  BY <1>2 DEF InOutEvent, Events, NoFrame, Words
<1>4. b \in Events /\ b.op = "step" /\ b.frame = fr /\ b.dt = f.dt
  BY <1>2 DEF StepEvent, Events, Words
<1>5. /\ UNCHANGED <<kind, table, host, snap, exec, blob>> /\ pc[p] = "run"
      /\ mem' = [mem EXCEPT ![p] = x]
      /\ hist' = [hist EXCEPT ![p].events = @ \o <<a, b>>]
      /\ pc' = [pc EXCEPT ![p] = IF x.state.exceeded THEN "aborted" ELSE "run"]
  BY DEF GiveFrame
<1>6. IsHistory(h) /\ Within(h.events) /\ snap[p] = Clean /\ snap[p] # NoRecord /\ mem[p] = Cold(p, h)
  BY <1>5, Running
<1>7. hist'[p] = i
  <2>1. hist'[p] = [h EXCEPT !.events = @ \o <<a, b>>] BY <1>1, <1>5 DEF TypeInv
  <2>2. h = [shared |-> h.shared, events |-> h.events] /\ h.events \in Seq(Events)
    BY <1>6 DEF IsHistory, History
  <2>3. h.events \o <<a, b>> = Append(Append(h.events, a), b)
    <3> HIDE DEF a, b, h
    <3> QED BY <1>3, <1>4, <2>2
  <2> HIDE DEF a, b, h
  <2> QED BY <2>1, <2>2, <2>3 DEF More, History
<1> HIDE DEF a, b, fr, h
<1>8. w = Event(mem[p], p, a) BY <1>3 DEF Event
<1>9. ~Over(a) BY <1>3 DEF Over
<1> HIDE DEF w
<1>10. w = Cold(p, g) /\ IsHistory(g) /\ Within(g.events)
  BY <1>3, <1>6, <1>8, <1>9, OneEvent
<1>11. x = Event(w, p, b) BY <1>4 DEF Event
<1> HIDE DEF x, g
<1>12. /\ x = Cold(p, i) /\ IsHistory(i)
       /\ ~Over(b) => Within(i.events) /\ x.state.exceeded = FALSE
       /\ Over(b) => Owed("aborted", i.events) /\ x.state.exceeded = TRUE
  BY <1>4, <1>10, <1>11, OneEvent
<1> HIDE DEF i
<1>13. mem'[p] = x /\ snap'[p] = Clean /\ pc'[p] = IF Over(b) THEN "aborted" ELSE "run"
  BY <1>1, <1>5, <1>6, <1>12 DEF TypeInv
<1>14. Process(pc'[p], mem'[p], snap'[p], hist'[p], Clean, Cold(p, hist'[p]))
  <2>1. Owed(pc'[p], i.events) BY <1>12, <1>13 DEF Owed
  <2> QED BY <1>6, <1>7, <1>12, <1>13, <2>1 DEF Process
<1>15. Touches(p) BY <1>1, <1>5 DEF Touches, TypeInv
<1>16. ProcessInv' BY <1>1, <1>5, <1>14, <1>15, OneProcess
<1>17. BlobInv' BY <1>1, <1>5, SavedStay
<1>18. TypeInv' BY <1>1, <1>5 DEF TypeInv, TableInv
<1> QED BY <1>16, <1>17, <1>18 DEF ColdInv

(* The engine restores a checkpoint: what it was taken of is the memory of *)
(* its prefix.                                                             *)
LEMMA RestoreStep ==
  ASSUME ColdInv, Restore
  PROVE  ColdInv'
<1>1. TypeInv /\ ProcessInv /\ BlobInv BY DEF ColdInv
<1> DEFINE p == "engine"
           h == blob[1].hist
           x == SemantistRestore(mem[p], blob[1].bytes)
<1>2. /\ UNCHANGED <<kind, table, host, pc, snap, exec, blob>> /\ pc[p] = "run"
      /\ blob # NoRecord /\ mem' = [mem EXCEPT ![p] = x] /\ hist' = [hist EXCEPT ![p] = h]
  BY DEF Restore
<1>3. p \in Processes BY DEF Processes
<1>4. snap[p] = Clean /\ snap[p] # NoRecord BY <1>2, <1>3, Running
<1>5. Shape(mem[p], p) BY <1>3, <1>4, MemoryIs
<1>6. IsHistory(h) /\ Within(h.events) /\ blob[1].bytes = Checkpoint(Cold(p, h))
  BY <1>1, <1>2 DEF BlobInv, Saved
<1>7. Shape(Cold(p, h), p) BY <1>3, <1>6, ColdShape DEF IsHistory
<1>8. x = Cold(p, h) BY <1>1, <1>5, <1>6, <1>7, RestoreIs DEF TypeInv
<1> HIDE DEF x, h
<1>9. mem'[p] = x /\ hist'[p] = h /\ pc'[p] = "run" /\ snap'[p] = Clean
  BY <1>1, <1>2, <1>3, <1>4 DEF TypeInv
<1>10. Process(pc'[p], mem'[p], snap'[p], hist'[p], Clean, Cold(p, hist'[p]))
  <2>1. Owed("run", h.events) BY <1>6 DEF Owed
  <2> QED BY <1>4, <1>6, <1>8, <1>9, <2>1 DEF Process
<1>11. Touches(p) BY <1>1, <1>2 DEF Touches, TypeInv
<1>12. ProcessInv' BY <1>1, <1>2, <1>3, <1>10, <1>11, OneProcess
<1>13. BlobInv' BY <1>1, <1>2, SavedStay
<1>14. TypeInv' BY <1>1, <1>2 DEF TypeInv, TableInv
<1> QED BY <1>12, <1>13, <1>14 DEF ColdInv

(* It stores one. *)
LEMMA StoreStep ==
  ASSUME ColdInv, Store
  PROVE  ColdInv'
<1>1. TypeInv /\ ProcessInv /\ BlobInv BY DEF ColdInv
<1> DEFINE p == "engine"
           h == hist[p]
           bytes == Checkpoint(mem[p])
<1>2. /\ UNCHANGED <<kind, table, host, pc, mem, snap, exec, hist>> /\ pc[p] = "run"
      /\ blob' = <<[bytes |-> bytes, hist |-> h]>>
  BY DEF Store
<1>3. p \in Processes BY DEF Processes
<1>4. IsHistory(h) /\ Within(h.events) /\ mem[p] = Cold(p, h) BY <1>2, <1>3, Running
<1>5. \A q, g : Cold(q, g)' = Cold(q, g) BY <1>2, ColdStays
<1>6. \A b, c : Saved(b, c)' = Saved(b, c)
  BY <1>2 DEF Saved, IsHistory, Within, Checkpoint, Held, Over, History, Events, Words
<1> HIDE DEF h, bytes
<1>7. blob'[1].hist = h /\ blob'[1].bytes = bytes BY <1>2
<1>8. Cold("engine", blob[1].hist)' = Cold("engine", h)
  <2>1. PICK g : g = blob'[1].hist OBVIOUS
  <2>2. Cold("engine", blob[1].hist)' = Cold("engine", g)' BY <2>1
  <2> QED BY <1>5, <1>7, <2>1, <2>2
<1>9. Saved(blob'[1], Cold(p, h)) BY <1>4, <1>7 DEF Saved, bytes
<1>10. BlobInv' BY <1>6, <1>8, <1>9 DEF BlobInv
<1>12. TypeInv' BY <1>1, <1>2 DEF TypeInv, TableInv
<1>13. ProcessInv'
  <2>1. Touches(p) BY <1>2 DEF Touches
  <2>2. Process(pc'[p], mem'[p], snap'[p], hist'[p], Clean, Cold(p, hist'[p]))
    BY <1>1, <1>2, <1>3 DEF ProcessInv
  <2> QED BY <1>1, <1>2, <1>3, <2>1, <2>2, OneProcess
<1> QED BY <1>10, <1>12, <1>13 DEF ColdInv

(* Every step keeps the invariant. *)
LEMMA ColdNext ==
  ASSUME ColdInv, [HNext]_hvars
  PROVE  ColdInv'
<1>1. TypeInv BY DEF ColdInv
<1>2. "loop" \in Processes /\ "engine" \in Processes BY DEF Processes
<1>3. CASE UNCHANGED hvars
  <2>1. ProcessInv /\ BlobInv /\ UNCHANGED <<kind, table, host, pc, mem, snap, exec, hist, blob>>
    BY <1>3 DEF ColdInv, hvars
  <2>2. BlobInv' BY <2>1, SavedStay
  <2>3. TypeInv' BY <1>1, <2>1 DEF TypeInv, TableInv
  <2>4. ProcessInv'
    <3>1. Touches("loop") BY <2>1 DEF Touches
    <3>2. Process(pc'["loop"], mem'["loop"], snap'["loop"], hist'["loop"], Clean,
                  Cold("loop", hist'["loop"]))
      BY <1>2, <2>1 DEF ProcessInv
    <3> QED BY <1>2, <2>1, <3>1, <3>2, OneProcess
  <2> QED BY <2>2, <2>3, <2>4 DEF ColdInv
<1>4. CASE \E p \in Processes : Load(p) BY <1>4, LoadStep
<1>5. CASE LoopInput BY <1>5, LoopInputStep
<1>6. CASE NextCycle BY <1>6, NextCycleStep
<1>7. CASE TakeRecord BY <1>7, TakeRecordStep
<1>8. CASE RefuseRecord
  <2>1. exec' \in [cycle : Nat, frame : [in : Nat, buf : Words], dt : Nat]
    BY <1>8, LimitAssumption DEF RefuseRecord, NoText, NoFrame, Words
  <2>2. pc["loop"] = "run" /\ pc' = [pc EXCEPT !["loop"] = "idle"]
        /\ UNCHANGED <<kind, table, host, mem, snap, hist, blob>>
    BY <1>8 DEF RefuseRecord
  <2> QED BY <1>2, <2>1, <2>2, StopStep
<1>9. CASE EndOfText BY <1>9, EndOfTextStep
<1>10. CASE EngineInput BY <1>10, EngineInputStep
<1>11. CASE EngineFrame BY <1>2, <1>11, FrameStep DEF EngineFrame
<1>12. CASE Store BY <1>12, StoreStep
<1>13. CASE Restore BY <1>13, RestoreStep
<1> QED BY <1>3, <1>4, <1>5, <1>6, <1>7, <1>8, <1>9, <1>10, <1>11, <1>12, <1>13
        DEF HNext

(* The inductive invariant of the harness: the memory of each process is   *)
(* the one of a new process with the same input.                           *)
THEOREM HarnessInvariant == HSpec => []ColdInv
<1>1. HInit => ColdInv BY ColdInit
<1>2. ColdInv /\ [HNext]_hvars => ColdInv' BY ColdNext
<1> QED BY <1>1, <1>2, PTL DEF HSpec

(* Executions are cold: whatever ran before in a process, was refused      *)
(* half-way, aborted or restored over, the memory that a target            *)
(* can read is the one of a process that was just loaded and given the     *)
(* same records (state_table.py, v3gen.py), for any IR, any frames and     *)
(* histories of any length.                                                *)
THEOREM ExecutionsStayCold == HSpec => []ExecutionsAreCold
<1>1. ColdInv => ExecutionsAreCold
  <2> SUFFICES ASSUME ColdInv, NEW p \in host, mem[p].state.initialized
               PROVE mem[p] = Cold(p, hist[p])
    BY DEF ExecutionsAreCold
  <2>1. p \in Processes BY DEF ColdInv, TypeInv
  <2>2. Process(pc[p], mem[p], snap[p], hist[p], Clean, Cold(p, hist[p])) BY <2>1 DEF ColdInv, ProcessInv
  <2>3. Image.state.initialized = FALSE BY DEF Image, Zeroed
  <2> QED BY <2>2, <2>3 DEF Process
<1> QED BY <1>1, HarnessInvariant, PTL

(* Aborts are owed: a process is aborted for a scan whose own input takes  *)
(* more back edges than the limit, and no such scan is survived            *)
(* (__semantist_loop_tick and the reset of the count, v3gen.py).           *)
THEOREM AbortsStayOwed == HSpec => []AbortsAreOwed
<1>1. ColdInv => AbortsAreOwed
  <2> SUFFICES ASSUME ColdInv, NEW p \in host
               PROVE LET past == hist[p].events IN
                     /\ pc[p] = "aborted" => Last(past).frame.in > Limit
                     /\ \A i \in DOMAIN past :
                          past[i].op = "step" /\ past[i].frame.in > Limit
                            => pc[p] = "aborted" /\ i = Len(past)
    BY DEF AbortsAreOwed
  <2> DEFINE past == hist[p].events
  <2>1. p \in Processes BY DEF ColdInv, TypeInv
  <2>2. Owed(pc[p], past) BY <2>1 DEF ColdInv, ProcessInv, Process
  <2> HIDE DEF past
  <2>3. CASE pc[p] = "aborted"
    <3>1. PICK t \in Seq(Events), e \in Events : past = Append(t, e) /\ Within(t) /\ Over(e)
      BY <2>2, <2>3 DEF Owed
    <3>2. Len(t) \in Nat /\ DOMAIN t = 1 .. Len(t) /\ Len(past) = Len(t) + 1
          /\ DOMAIN past = 1 .. Len(t) + 1
      BY <3>1, LenProperties
    <3>3. past[Len(t) + 1] = e /\ \A i \in 1 .. Len(t) : past[i] = t[i] BY <3>1, AppendProperties
    <3>4. Last(past) = e BY <3>2, <3>3 DEF Last
    <3>5. \A i \in DOMAIN past : Over(past[i]) => i = Len(past)
      BY <3>1, <3>2, <3>3 DEF Within
    <3> QED BY <2>3, <3>1, <3>4, <3>5 DEF Over, past
  <2>4. CASE pc[p] # "aborted" BY <2>2, <2>4 DEF Owed, Within, Over, past
  <2> QED BY <2>3, <2>4
<1> QED BY <1>1, HarnessInvariant, PTL

-----------------------------------------------------------------------------
(***************************************************************************)
(* The source intake, for every set of sources and every environment.      *)
(* First the generation of stubs; then, from what the halving search and   *)
(* the cascade of lost names return, that every step of a validation keeps *)
(* the causes of its rejections.                                           *)
(***************************************************************************)
(* f is the first m results of the step g from a.                          *)
IsIteration(f, D, a, g, m) ==
  f \in [0 .. m -> D] /\ f[0] = a /\ \A i \in 1 .. m : f[i] = g[<<i, f[i - 1]>>]
(* A step that is a function can be repeated any number of times.          *)
LEMMA Iterates ==
  ASSUME NEW D, NEW a \in D, NEW g \in [Nat \X D -> D], NEW m \in Nat
  PROVE  \E f : IsIteration(f, D, a, g, m)
<1> USE DEF IsIteration
<1> DEFINE Good == {k \in Nat : \E f \in [0 .. k -> D] :
                      f[0] = a /\ \A i \in 1 .. k : f[i] = g[<<i, f[i - 1]>>]}
<1>1. 0 \in Good
  <2> DEFINE f == [i \in 0 .. 0 |-> a]
  <2>1. f \in [0 .. 0 -> D] /\ f[0] = a /\ \A i \in 1 .. 0 : f[i] = g[<<i, f[i - 1]>>]  OBVIOUS
  <2> QED  BY <2>1
<1>2. ASSUME NEW k \in Nat, k \in Good PROVE k + 1 \in Good
  <2>1. PICK f \in [0 .. k -> D] : f[0] = a /\ \A i \in 1 .. k : f[i] = g[<<i, f[i - 1]>>]  BY <1>2
  <2> DEFINE h == [i \in 0 .. k + 1 |-> IF i = k + 1 THEN g[<<k + 1, f[k]>>] ELSE f[i]]
  <2>2. h \in [0 .. k + 1 -> D]
    <3>1. f[k] \in D /\ <<k + 1, f[k]>> \in Nat \X D  BY <2>1
    <3>2. g[<<k + 1, f[k]>>] \in D  BY <3>1
    <3>3. \A i \in 0 .. k + 1 : i # k + 1 => i \in 0 .. k  OBVIOUS
    <3>4. \A i \in 0 .. k + 1 : (IF i = k + 1 THEN g[<<k + 1, f[k]>>] ELSE f[i]) \in D
      BY <2>1, <3>2, <3>3
    <3> QED  BY <3>4
  <2>3. h[0] = a  BY <2>1
  <2>4. ASSUME NEW i \in 1 .. k + 1 PROVE h[i] = g[<<i, h[i - 1]>>]
    <3>1. CASE i = k + 1
      <4>1. i - 1 = k /\ k \in 0 .. k + 1 /\ k # k + 1  BY <3>1
      <4>2. h[i - 1] = f[k]  BY <4>1
      <4>3. h[i] = g[<<i, f[k]>>]  BY <3>1
      <4> HIDE DEF h
      <4> QED  BY <4>2, <4>3
    <3>2. CASE i # k + 1
      <4>1. i \in 1 .. k /\ i - 1 \in 0 .. k  BY <3>2
      <4>2. h[i] = f[i] /\ h[i - 1] = f[i - 1]  BY <4>1
      <4> QED  BY <4>1, <4>2, <2>1
    <3> QED  BY <3>1, <3>2
  <2> HIDE DEF h
  <2> QED  BY <2>2, <2>3, <2>4
<1>3. m \in Good
  <2> HIDE DEF Good
  <2> QED  BY <1>1, <1>2, SetInduction
<1> QED  BY <1>3

(* The recursion of Needed, as a function that exists.                     *)
LEMMA NeededHas ==
  ASSUME NEW stubs, IsFiniteSet(DOMAIN stubs), NEW names
  PROVE  names \cap DOMAIN stubs \subseteq Needed(stubs, names) /\ Needed(stubs, names) \subseteq DOMAIN stubs
<1> DEFINE D == SUBSET (DOMAIN stubs)
           card == Cardinality(DOMAIN stubs)
           from(x) == UNION {stubs[j].mentions : j \in x}
           next(x) == x \cup (from(x) \cap DOMAIN stubs)
           first == names \cap DOMAIN stubs
           g == [p \in Nat \X D |-> next(p[2])]
           R(f) == f = [i \in 0 .. card |-> IF i = 0 THEN first ELSE next(f[i - 1])]
           far == CHOOSE f : R(f)
<1>0. card \in Nat  BY FS_CardinalityType
<1>1. g \in [Nat \X D -> D]
  <2>1. ASSUME NEW p \in Nat \X D PROVE next(p[2]) \in D
    <3> HIDE DEF from
    <3> QED  OBVIOUS
  <2> HIDE DEF next
  <2> QED  BY <2>1
<1>2. PICK f : IsIteration(f, D, first, g, card)
  <2>1. first \in D  OBVIOUS
  <2> HIDE DEF g, D, card, first
  <2> QED  BY <1>0, <1>1, <2>1, Iterates
<1>3. R(f)
  <2>1. ASSUME NEW i \in 0 .. card, i # 0 PROVE f[i] = next(f[i - 1])
    <3>1. i \in 1 .. card /\ i \in Nat /\ i - 1 \in 0 .. card  BY <1>0, <2>1
    <3>2. f[i - 1] \in D  BY <3>1, <1>2 DEF IsIteration
    <3>3. <<i, f[i - 1]>> \in Nat \X D  BY <3>1, <3>2
    <3>4. g[<<i, f[i - 1]>>] = next(f[i - 1])  BY <3>3
    <3> QED  BY <1>2, <3>1, <3>4 DEF IsIteration
  <2> HIDE DEF next, card, D
  <2> QED  BY <1>2, <2>1 DEF IsIteration
<1>4. R(far)
  <2> HIDE DEF R
  <2> QED  BY <1>3
<1>5. far[0] = names \cap DOMAIN stubs /\ \A i \in 0 .. card : i # 0 => far[i] = next(far[i - 1])
  <2> HIDE DEF next, card, far
  <2>1. far = [i \in 0 .. card |-> IF i = 0 THEN first ELSE next(far[i - 1])]
    BY <1>4
  <2>2. 0 \in 0 .. card  BY <1>0
  <2> QED  BY <2>1, <2>2
<1> DEFINE Good == {i \in Nat : i <= card => first \subseteq far[i] /\ far[i] \subseteq DOMAIN stubs}
<1>6. 0 \in Good  BY <1>5
<1>7. ASSUME NEW i \in Nat, i \in Good PROVE i + 1 \in Good
  <2> SUFFICES ASSUME i + 1 <= card PROVE first \subseteq far[i + 1] /\ far[i + 1] \subseteq DOMAIN stubs
    OBVIOUS
  <2>1. i + 1 \in 0 .. card /\ i + 1 # 0 /\ (i + 1) - 1 = i /\ i <= card  BY <1>0
  <2>2. far[i + 1] = next(far[i])  BY <1>5, <2>1
  <2>3. first \subseteq far[i] /\ far[i] \subseteq DOMAIN stubs  BY <1>7, <2>1
  <2> HIDE DEF from, far
  <2> QED  BY <2>2, <2>3
<1>8. card \in Good
  <2> HIDE DEF Good, card
  <2> QED  BY <1>0, <1>6, <1>7, SetInduction
<1>9. first \subseteq far[card] /\ far[card] \subseteq DOMAIN stubs  BY <1>0, <1>8
<1>10. Needed(stubs, names) = far[card]  BY DEF Needed
<1> QED  BY <1>9, <1>10

(* A stub that passes fits the sites of the libraries that can be built,   *)
(* and mentions only names that were built with it.                        *)
LEMMA OkFits ==
  ASSUME NEW e, NEW stubs, IsFiniteSet(DOMAIN stubs), NEW keys, NEW k \in keys \cap DOMAIN stubs,
         Verdict(e, stubs, keys)[k] = "ok"
  PROVE  /\ stubs[k].misfit \cap Callers(e, k) \subseteq e.broken
         /\ stubs[k].mentions \subseteq DOMAIN stubs
<1> DEFINE names(m) == {j \in keys : m \in Libraries(e, j)}
           used(m) == Needed(stubs, names(m))
           built(j) == {m \in AllLibraries(e) : names(m) # {} /\ j \in used(m)}
           usable(j) == built(j) \ e.broken
<1>1. Verdict(e, stubs, keys)[k] = IF built(k) = {} \/ usable(k) = {} THEN "unbuilt"
         ELSE IF \E m \in usable(k) : k \in Blamed(e, stubs, used(m), m) THEN "failed" ELSE "ok"
  BY DEF Verdict
<1>2. usable(k) # {} /\ \A m \in usable(k) : k \notin Blamed(e, stubs, used(m), m)
  <2> HIDE DEF usable, built, used
  <2> QED  BY <1>1
<1>3. ASSUME NEW l \in stubs[k].misfit \cap Callers(e, k), l \notin e.broken PROVE FALSE
  <2>1. k \in names(l) /\ l \in AllLibraries(e)
    BY <1>3 DEF Callers, Libraries, AllLibraries, SitesOf
  <2>2. k \in used(l)  BY <2>1, NeededHas
  <2>3. l \in usable(k)
    <3> HIDE DEF used
    <3> QED  BY <1>3, <2>1, <2>2
  <2>4. k \in Blamed(e, stubs, used(l), l)
    <3> HIDE DEF used
    <3> QED  BY <1>3, <2>2 DEF Blamed
  <2> HIDE DEF usable, used
  <2> QED  BY <1>2, <2>3, <2>4
<1>4. stubs[k].mentions \subseteq DOMAIN stubs
  <2>1. PICK m \in usable(k) : TRUE
    <3> HIDE DEF usable
    <3> QED  BY <1>2
  <2>2. k \in used(m) /\ names(m) # {}
    <3> HIDE DEF used, names
    <3> QED  BY <2>1
  <2>3. k \notin Blamed(e, stubs, used(m), m)
    <3> HIDE DEF usable, used
    <3> QED  BY <1>2, <2>1
  <2>4. stubs[k].mentions \subseteq used(m)
    <3> HIDE DEF used
    <3> QED  BY <2>2, <2>3 DEF Blamed
  <2>5. used(m) \subseteq DOMAIN stubs  BY NeededHas
  <2> HIDE DEF used
  <2> QED  BY <2>4, <2>5
<1> QED  BY <1>3, <1>4

(* The fields of a generation of stubs that has begun.                     *)
StubFields == {"stage", "round", "pending", "flight", "asked", "todo", "cand", "status", "spent",
               "blocked", "settle", "check", "alone"}
(* The declaration of a name fits the sites of every library that are held *)
(* against it.                                                             *)
CallersFit(k) == gen.cand[k].misfit \cap Callers(env, k) \subseteq env.broken
(* The invariant of a generation: its tables are over the gaps of the      *)
(* project, what is still to be asked for is not settled, and a declaration*)
(* is of a name that can be declared and, once it passed the check, fits   *)
(* its callers.                                                            *)
StubsHold ==
  /\ DOMAIN gen = StubFields /\ gen.stage \in {"ask", "fallback", "settle", "frozen"}
  /\ IsFiniteSet(Gaps(env)) /\ DOMAIN gen.cand = Gaps(env) /\ DOMAIN gen.status = Gaps(env)
  /\ \A k \in Gaps(env) :
       /\ gen.stage = "ask" /\ k \in gen.pending => gen.status[k] # "ok"
       /\ gen.cand[k] # NoDeclaration =>
            Declarable(env, k) /\ (gen.status[k] = "ok" => CallersFit(k))
(* Nothing was generated yet, or what was generated satisfies the above.   *)
StubInv == gen = NoStubs \/ StubsHold

(* A project has finitely many unresolved types, since it has finitely many*)
(* call sites.                                                             *)
LEMMA GapsFinite ==
  ASSUME NEW e \in Environments PROVE IsFiniteSet(Gaps(e))
<1> DEFINE f == [x \in e.sites |-> x.name]
           S == {x.name : x \in e.sites}
<1>1. IsFiniteSet(e.sites)  BY EnvironmentAssumption
<1>2. f \in Surjection(e.sites, S)  BY DEF Surjection
<1>3. IsFiniteSet(S)
  <2> HIDE DEF f, S
  <2> QED  BY <1>1, <1>2, FS_Surjection
<1>4. Gaps(e) \subseteq S  BY DEF Gaps
<1> QED
  <2> HIDE DEF S
  <2> QED  BY <1>3, <1>4, FS_Subset

(* Collecting the gaps establishes the invariant: no type has a declaration*)
(* yet.                                                                    *)
LEMMA StubCollect ==
  ASSUME NEW e \in Environments, CollectGaps(e) PROVE StubsHold'
<1>1. IsFiniteSet(Gaps(e))  BY GapsFinite
<1>2. env' = e  BY DEF CollectGaps
<1>3. DOMAIN gen' = StubFields  BY DEF CollectGaps, StubFields
<1>4. gen'.stage = "ask" /\ gen'.cand = [k \in Gaps(e) |-> NoDeclaration]
      /\ gen'.status = [k \in Gaps(e) |-> "none"]
  BY DEF CollectGaps
<1> QED  BY <1>1, <1>2, <1>3, <1>4 DEF StubsHold

(* Sending a batch changes no declaration and no verdict.                  *)
LEMMA StubSend ==
  ASSUME StubsHold, SendBatch PROVE StubsHold'
<1>1. /\ DOMAIN gen' = DOMAIN gen /\ gen'.stage = gen.stage /\ gen'.cand = gen.cand /\ gen'.status = gen.status
      /\ gen'.pending = gen.pending
  BY DEF SendBatch, StubsHold, StubFields
<1> QED  BY <1>1 DEF SendBatch, StubsHold, CallersFit

(* An answer replaces declarations of types that are still pending, whose  *)
(* verdicts are not "ok".                                                  *)
LEMMA StubAnswer ==
  ASSUME StubsHold, AnswerBatch PROVE StubsHold'
<1> USE DEF StubFields
<1>0. gen.stage = "ask" /\ env' = env  BY Zenon DEF AnswerBatch
<1>1. PICK b \in gen.flight :
       LET keys == {k \in Asked(b) : Declarable(env, k)}
       IN  \/ \E reply \in [keys -> Answers \cup {NoDeclaration}] :
                gen' = [gen EXCEPT !.flight = @ \ {b}, !.spent = @ + 1, !.asked = @ \cup Asked(b),
                               !.cand = [k \in DOMAIN @ |->
                                           IF k \in keys /\ reply[k] # NoDeclaration
                                           THEN [reply[k] EXCEPT !.mentions = @ \ {k}] ELSE @[k]]]
           \/ \E paid \in {0, 1} :
                gen' = [gen EXCEPT !.flight = @ \ {b}, !.spent = @ + paid, !.blocked = TRUE]
  BY Zenon DEF AnswerBatch
<1>2. /\ DOMAIN gen' = DOMAIN gen /\ gen'.stage = gen.stage /\ gen'.status = gen.status
      /\ gen'.pending = gen.pending
  BY <1>1 DEF StubsHold
<1>3. DOMAIN gen'.cand = Gaps(env)
      /\ \A k \in Gaps(env) : gen'.cand[k] = gen.cand[k] \/ (k \in Asked(b) /\ Declarable(env, k))
  <2> DEFINE keys == {k \in Asked(b) : Declarable(env, k)}
  <2>1. CASE \E paid \in {0, 1} :
                gen' = [gen EXCEPT !.flight = @ \ {b}, !.spent = @ + paid, !.blocked = TRUE]
    BY <2>1 DEF StubsHold
  <2>2. ASSUME NEW reply,
               gen' = [gen EXCEPT !.flight = @ \ {b}, !.spent = @ + 1, !.asked = @ \cup Asked(b),
                               !.cand = [k \in DOMAIN @ |->
                                           IF k \in keys /\ reply[k] # NoDeclaration
                                           THEN [reply[k] EXCEPT !.mentions = @ \ {k}] ELSE @[k]]]
        PROVE  /\ DOMAIN gen'.cand = Gaps(env)
               /\ \A k \in Gaps(env) :
                    gen'.cand[k] = gen.cand[k] \/ (k \in Asked(b) /\ Declarable(env, k))
    <3> DEFINE put == [k \in DOMAIN gen.cand |->
                                           IF k \in keys /\ reply[k] # NoDeclaration
                                           THEN [reply[k] EXCEPT !.mentions = @ \ {k}] ELSE gen.cand[k]]
    <3>1. gen'.cand = put
      <4>1. gen' = [gen EXCEPT !.flight = @ \ {b}, !.spent = @ + 1, !.asked = @ \cup Asked(b),
                               !.cand = put]  BY <2>2
      <4> HIDE DEF put
      <4> QED  BY <4>1 DEF StubsHold
    <3>2. DOMAIN put = Gaps(env)  BY DEF StubsHold
    <3>3. ASSUME NEW k \in Gaps(env) PROVE put[k] = gen.cand[k] \/ k \in keys
      <4>1. k \in DOMAIN gen.cand  BY DEF StubsHold
      <4>2. k \notin keys => put[k] = gen.cand[k]  BY <4>1, Zenon
      <4> QED  BY <4>2
    <3>4. ASSUME NEW k \in keys PROVE k \in Asked(b) /\ Declarable(env, k)  OBVIOUS
    <3> HIDE DEF put, keys
    <3> QED  BY <3>1, <3>2, <3>3, <3>4
  <2> QED  BY <1>1, <2>1, <2>2, ZenonT(40)
<1>4. \A k \in Gaps(env) : k \in Asked(b) => gen.status[k] # "ok"
  BY <1>0 DEF StubsHold, Asked
<1> QED  BY <1>0, <1>2, <1>3, <1>4 DEF StubsHold, CallersFit

(* Verification writes "ok" only for a declaration that the check accepted,*)
(* which by OkFits fits its callers.                                       *)
LEMMA StubVerify ==
  ASSUME StubsHold, VerifyRound PROVE StubsHold'
<1> USE DEF StubFields
<1> DEFINE keys == IF gen.round = 0 THEN Declared ELSE gen.asked \cap Declared
           verdict == Verdict(env, Only(Declared), keys)
           judged == Judge(keys, verdict)
           again == {k \in gen.asked : judged.status[k] = "failed"}
<1>0. env' = env  BY DEF VerifyRound
<1>1. keys \subseteq Declared /\ Declared \subseteq Gaps(env)  BY DEF Declared, StubsHold
<1>2. DOMAIN judged = DOMAIN gen /\ judged.cand = gen.cand
      /\ judged.status = [k \in Gaps(env) |-> IF k \in keys THEN verdict[k] ELSE gen.status[k]]
  <2> HIDE DEF keys, verdict
  <2> QED  BY DEF Judge, StubsHold
<1>3. /\ DOMAIN gen' = DOMAIN gen /\ gen'.cand = gen.cand /\ gen'.status = judged.status
      /\ gen'.stage \in {"ask", "fallback"} /\ gen'.pending = again
  <2> HIDE DEF keys, verdict
  <2>1. \E last : gen' = [judged EXCEPT !.stage = IF last THEN "fallback" ELSE "ask",
                             !.round = @ + 1, !.pending = again, !.asked = {},
                             !.todo = IF last THEN {} ELSE {env.batch[k] : k \in again}]
    BY Zenon DEF VerifyRound, keys, verdict
  <2> HIDE DEF judged, again
  <2> QED  BY <2>1, <1>2 DEF StubsHold
<1>4. ASSUME NEW k \in Gaps(env), k \in keys, verdict[k] = "ok" PROVE CallersFit(k)
  <2> DEFINE stubs == Only(Declared)
  <2>1. DOMAIN stubs = Declared /\ stubs[k] = gen.cand[k]  BY <1>1, <1>4 DEF Only
  <2>2. IsFiniteSet(Declared)  BY <1>1, FS_Subset DEF StubsHold
  <2>3. stubs[k].misfit \cap Callers(env, k) \subseteq env.broken
    <3> HIDE DEF stubs, keys
    <3> QED  BY <2>1, <2>2, <1>1, <1>4, OkFits DEF stubs
  <2> QED  BY <2>1, <2>3 DEF CallersFit
<1>5. ASSUME NEW k \in Gaps(env)
      PROVE  /\ k \in again => gen'.status[k] # "ok"
             /\ gen.cand[k] # NoDeclaration =>
                  Declarable(env, k) /\ (gen'.status[k] = "ok" => CallersFit(k))
  <2>1. gen'.status[k] = IF k \in keys THEN verdict[k] ELSE gen.status[k]
    <3> HIDE DEF judged, verdict, keys
    <3> QED  BY <1>2, <1>3
  <2>2. k \in again => gen'.status[k] = "failed"  BY <1>3
  <2> HIDE DEF judged, verdict, keys, again
  <2> QED  BY <2>1, <2>2, <1>4 DEF StubsHold
<1> HIDE DEF judged, verdict, keys, again
<1>6. DOMAIN gen'.status = Gaps(env)  BY <1>2, <1>3
<1> QED  BY <1>0, <1>3, <1>5, <1>6 DEF StubsHold, CallersFit

(* A fallback declaration that is tried and kept passed the same check.    *)
LEMMA StubFallback ==
  ASSUME StubsHold, TryFallback PROVE StubsHold'
<1> USE DEF StubFields
<1> DEFINE open == {k \in Gaps(env) : gen.status[k] # "ok" /\ Declarable(env, k)}
           trial == [k \in Passing \cup open |-> IF k \in open THEN Fallback(env, k) ELSE gen.cand[k]]
           verdict == Verdict(env, trial, open)
           good == {k \in open : verdict[k] = "ok"}
           judged == Judge(good, verdict)
           cand == [k \in DOMAIN gen.cand |-> IF k \in good THEN trial[k] ELSE gen.cand[k]]
<1>0. env' = env  BY DEF TryFallback
<1>1. open \subseteq Gaps(env) /\ Passing \subseteq Gaps(env)  BY DEF Declared, Passing, StubsHold
<1>2. DOMAIN judged = DOMAIN gen
      /\ judged.status = [k \in Gaps(env) |-> IF k \in good THEN verdict[k] ELSE gen.status[k]]
  <2> HIDE DEF good, verdict
  <2> QED  BY DEF Judge, StubsHold
<1>3. DOMAIN gen' = DOMAIN gen /\ gen'.cand = cand /\ gen'.status = judged.status /\ gen'.stage = "settle"
  <2> HIDE DEF good, verdict, open, trial
  <2>1. gen' = [judged EXCEPT !.cand = cand, !.stage = "settle",
                             !.check = {k \in DOMAIN cand : judged.status[k] = "ok"}]
    BY DEF TryFallback, open, trial, verdict, good
  <2>2. DOMAIN judged = StubFields  BY <1>2 DEF StubsHold
  <2>3. PICK j, c, k : j = judged /\ c = cand /\ k = {d \in DOMAIN cand : judged.status[d] = "ok"}  OBVIOUS
  <2> HIDE DEF judged, cand
  <2>4. gen' = [j EXCEPT !.cand = c, !.stage = "settle", !.check = k] /\ DOMAIN j = StubFields
    BY <2>1, <2>2, <2>3
  <2>5. DOMAIN gen' = StubFields /\ gen'.cand = c /\ gen'.status = j.status /\ gen'.stage = "settle"
    BY <2>4 DEF StubFields
  <2> QED  BY <2>2, <2>3, <2>5, <1>2
<1>4. ASSUME NEW k \in good PROVE trial[k].misfit \cap Callers(env, k) \subseteq env.broken
  <2>1. DOMAIN trial = Passing \cup open /\ k \in open \cap DOMAIN trial  BY <1>4
  <2>2. IsFiniteSet(DOMAIN trial)  
    <3> HIDE DEF trial, open
    <3> QED  BY <1>1, <2>1, FS_Subset DEF StubsHold
  <2>3. Verdict(env, trial, open)[k] = "ok"  BY <1>4
  <2> HIDE DEF trial, open, good, verdict
  <2> QED  BY <2>1, <2>2, <2>3, OkFits
<1>5. ASSUME NEW k \in Gaps(env)
      PROVE gen'.cand[k] # NoDeclaration =>
              Declarable(env, k)
              /\ (gen'.status[k] = "ok" => gen'.cand[k].misfit \cap Callers(env, k) \subseteq env.broken)
  <2>1. gen'.status[k] = IF k \in good THEN verdict[k] ELSE gen.status[k]
    <3> HIDE DEF judged, verdict, good
    <3> QED  BY <1>2, <1>3
  <2>2. gen'.cand[k] = IF k \in good THEN trial[k] ELSE gen.cand[k]
    <3> HIDE DEF good, trial
    <3> QED  BY <1>3 DEF StubsHold
  <2>3. k \in good => Declarable(env, k)  BY DEF good
  <2> HIDE DEF judged, verdict, good, trial, cand, open
  <2> QED  BY <2>1, <2>2, <2>3, <1>4 DEF StubsHold, CallersFit
<1>6. DOMAIN gen'.status = Gaps(env)
  <2> HIDE DEF judged, verdict, good
  <2> QED  BY <1>2, <1>3
<1>7. DOMAIN gen'.cand = Gaps(env)
  <2> HIDE DEF good, trial
  <2> QED  BY <1>3 DEF StubsHold
<1> HIDE DEF judged, verdict, good, trial, cand, open
<1>8. DOMAIN gen' = StubFields /\ gen'.stage = "settle" /\ IsFiniteSet(Gaps(env))  BY <1>3 DEF StubsHold
<1>9. gen'.stage # "ask"  BY <1>8
<1>10. \A k \in Gaps(env) : CallersFit(k)' <=> gen'.cand[k].misfit \cap Callers(env, k) \subseteq env.broken
  BY <1>0 DEF CallersFit
<1> QED  BY <1>0, <1>5, <1>6, <1>7, <1>8, <1>9, <1>10 DEF StubsHold

(* Settling only takes declarations away or confirms those that pass       *)
(* together.                                                               *)
LEMMA StubSettle ==
  ASSUME StubsHold, Settle PROVE StubsHold'
<1> USE DEF StubFields
<1> DEFINE keys == gen.check \cap Passing
           verdict == Verdict(env, Only(Passing), keys)
           dropped == {k \in keys : verdict[k] # "ok"}
           lost == UNION {Libraries(env, k) : k \in dropped}
           judged == Judge(dropped, verdict)
<1>0. env' = env  BY DEF Settle
<1>2. DOMAIN judged = DOMAIN gen /\ judged.cand = gen.cand
      /\ judged.status = [k \in Gaps(env) |-> IF k \in dropped THEN verdict[k] ELSE gen.status[k]]
  <2> HIDE DEF dropped, verdict
  <2> QED  BY DEF Judge, StubsHold
<1>3. DOMAIN gen' = DOMAIN gen /\ gen'.cand = gen.cand /\ gen'.status = judged.status
      /\ gen'.stage \in {"settle", "frozen"}
  <2> HIDE DEF keys, verdict, dropped, lost
  <2>1. gen' = [judged EXCEPT !.settle = @ + 1,
                             !.check = {k \in Passing \ dropped : Libraries(env, k) \cap lost # {}},
                             !.alone = (dropped = {}),
                             !.stage = IF dropped = {} THEN "frozen" ELSE "settle"]
    BY DEF Settle, keys, verdict, dropped, lost
  <2> HIDE DEF judged
  <2> QED  BY <2>1, <1>2 DEF StubsHold
<1>4. \A k \in Gaps(env) : gen'.status[k] = "ok" => gen.status[k] = "ok"
  <2> HIDE DEF judged, verdict, keys
  <2> QED  BY <1>2, <1>3
<1>5. DOMAIN gen'.status = Gaps(env)
  <2> HIDE DEF judged, verdict, dropped
  <2> QED  BY <1>2, <1>3
<1> HIDE DEF judged
<1> QED  BY <1>0, <1>3, <1>4, <1>5 DEF StubsHold, CallersFit

(* Freezing keeps what is there.                                           *)
LEMMA StubFreeze ==
  ASSUME StubsHold, FreezeStubs PROVE StubsHold'
<1>1. env' = env /\ DOMAIN gen' = DOMAIN gen /\ gen'.stage = "frozen" /\ gen'.cand = gen.cand
      /\ gen'.status = gen.status
  <2>1. gen' = [gen EXCEPT !.stage = "frozen"] /\ env' = env  BY DEF FreezeStubs
  <2>2. DOMAIN gen = StubFields  BY DEF StubsHold
  <2> QED  BY <2>1, <2>2 DEF StubFields
<1> QED  BY <1>1 DEF StubsHold, CallersFit

(* Every step of the intake keeps the invariant of the stubs.              *)
LEMMA StubNext ==
  ASSUME StubInv, [Next]_intakeVars PROVE StubInv'
<1>1. CASE StartStubs  BY <1>1, StubCollect DEF StartStubs, StubInv
<1>2. CASE StubStep
  <2>1. gen.stage # "none"
    BY <1>2, Zenon DEF StubStep, SendBatch, AnswerBatch, VerifyRound, TryFallback, Settle, FreezeStubs
  <2>2. StubsHold  BY <2>1 DEF StubInv, NoStubs
  <2>3. StubsHold'
    BY <1>2, <2>2, StubSend, StubAnswer, StubVerify, StubFallback, StubSettle, StubFreeze, Zenon DEF StubStep
  <2> QED  BY <2>3, Zenon DEF StubInv
<1>3. CASE UNCHANGED <<env, gen>>
  BY <1>3 DEF StubInv, StubsHold, CallersFit
<1> QED
  BY <1>1, <1>2, <1>3, Zenon DEF Next, intakeVars, VisitDependency, LeaveFile, AssembleFiles, StartBuild,
     WriteReport, Rest

(* Whatever the model answers and in however many rounds, a declaration    *)
(* frozen as "ok" fits the call sites of every library that uses it and    *)
(* compiles at all (compiler/stubs: the verdict of the last check is still *)
(* true when the stubs are written).                                       *)
THEOREM FrozenStubsFit == Spec => []FrozenFitsItsCallers
<1>1. Init => StubInv  BY DEF Init, StubInv
<1>2. StubInv /\ [Next]_intakeVars => StubInv'  BY StubNext
<1>3. StubInv => FrozenFitsItsCallers
  <2> SUFFICES ASSUME StubInv, gen.stage = "frozen", NEW k \in Passing
               PROVE Declarable(env, k) /\ CallersFit(k)
    BY DEF FrozenFitsItsCallers, CallersFit
  <2>1. StubsHold  BY DEF StubInv, NoStubs
  <2> QED  BY <2>1 DEF StubsHold, Passing, Declared
<1> QED  BY <1>1, <1>2, <1>3, PTL DEF Spec

(* No library misses a name a stub mentions without a frozen stub for it   *)
(* together with the stub's own name.                                      *)
Mates(k) ==
  \A j \in gen.cand[k].mentions : j \in Passing \/ Libraries(env, j) \cap Libraries(env, k) = {}
(* What holds of the mentions while the stubs settle: those that are not   *)
(* to be built again mention what still passes, and the last build is the  *)
(* one that dropped nothing.                                               *)
AloneInv ==
  gen # NoStubs =>
    /\ gen.stage = "settle" => \A k \in Passing \ gen.check : Mates(k)
    /\ gen.alone => gen.stage = "frozen" /\ \A k \in Passing : Mates(k)

(* Before the stubs settle, nothing is said of them.                       *)
LEMMA AloneEarly ==
  ASSUME StubsHold, AloneInv, SendBatch \/ AnswerBatch \/ VerifyRound PROVE AloneInv'
<1>0. gen.stage = "ask"  BY Zenon DEF SendBatch, AnswerBatch, VerifyRound
<1>1. gen.stage = "ask" /\ gen # NoStubs  BY <1>0 DEF NoStubs
<1>2. ~gen.alone  BY <1>1 DEF AloneInv
<1>3. gen'.stage \in {"ask", "fallback"} /\ gen'.alone = gen.alone
  <2>1. CASE SendBatch  BY <2>1, <1>1 DEF SendBatch, StubsHold, StubFields
  <2>2. CASE AnswerBatch
    <3>1. \/ \E fl, sp, as, ca : gen' = [gen EXCEPT !.flight = fl, !.spent = sp, !.asked = as, !.cand = ca]
          \/ \E fl, sp : gen' = [gen EXCEPT !.flight = fl, !.spent = sp, !.blocked = TRUE]
      BY <2>2, Zenon DEF AnswerBatch
    <3> QED  BY <3>1, <1>1 DEF StubsHold, StubFields
  <2>3. CASE VerifyRound
    <3> DEFINE keys == IF gen.round = 0 THEN Declared ELSE gen.asked \cap Declared
               judged == Judge(keys, Verdict(env, Only(Declared), keys))
               again == {k \in gen.asked : judged.status[k] = "failed"}
    <3>1. \E last : gen' = [judged EXCEPT !.stage = IF last THEN "fallback" ELSE "ask",
                              !.round = @ + 1, !.pending = again, !.asked = {},
                              !.todo = IF last THEN {} ELSE {env.batch[k] : k \in again}]
      BY <2>3, Zenon DEF VerifyRound
    <3>2. DOMAIN judged = StubFields /\ judged.alone = gen.alone
      BY DEF Judge, StubsHold, StubFields
    <3> HIDE DEF judged, again
    <3> QED  BY <3>1, <3>2 DEF StubFields
  <2> QED  BY <2>1, <2>2, <2>3
<1> QED  BY <1>2, <1>3 DEF AloneInv

(* A stub that is taken from its call sites has all that passes built on   *)
(* its own.                                                                *)
LEMMA AloneFallback ==
  ASSUME StubsHold, AloneInv, TryFallback PROVE AloneInv'
<1> DEFINE open == {k \in Gaps(env) : gen.status[k] # "ok" /\ Declarable(env, k)}
           trial == [k \in Passing \cup open |-> IF k \in open THEN Fallback(env, k) ELSE gen.cand[k]]
           verdict == Verdict(env, trial, open)
           good == {k \in open : verdict[k] = "ok"}
           judged == Judge(good, verdict)
           cand == [k \in DOMAIN gen.cand |-> IF k \in good THEN trial[k] ELSE gen.cand[k]]
           check == {k \in DOMAIN cand : judged.status[k] = "ok"}
<1>0. gen.stage = "fallback"  BY DEF TryFallback
<1>1. gen.stage = "fallback" /\ gen # NoStubs  BY <1>0 DEF NoStubs
<1>2. ~gen.alone  BY <1>1 DEF AloneInv
<1>3. gen' = [judged EXCEPT !.cand = cand, !.stage = "settle", !.check = check]
  BY DEF TryFallback
<1>4. gen'.alone = gen.alone /\ gen'.check = {k \in DOMAIN gen'.cand : gen'.status[k] = "ok"}
  <2>1. DOMAIN judged = StubFields /\ judged.alone = gen.alone
    <3> HIDE DEF good, verdict
    <3> QED  BY DEF Judge, StubsHold, StubFields
  <2> HIDE DEF judged, cand
  <2>2. gen'.alone = gen.alone /\ gen'.check = check /\ gen'.cand = cand /\ gen'.status = judged.status
    <3> HIDE DEF check
    <3> QED  BY <1>3, <2>1 DEF StubFields
  <2> QED  BY <2>2
<1> HIDE DEF open, trial, verdict, good, judged, cand, check
<1>5. Passing' \ gen'.check = {}  BY <1>4 DEF Passing, Declared
<1> QED  BY <1>2, <1>4, <1>5 DEF AloneInv

(* A stub that passes the build on its own mentions only stubs that were   *)
(* built with it; one that mentions a stub the build dropped, in a library *)
(* that misses both, is built again.                                       *)
LEMMA AloneSettle ==
  ASSUME StubsHold, AloneInv, Settle PROVE AloneInv'
<1> DEFINE keys == gen.check \cap Passing
           verdict == Verdict(env, Only(Passing), keys)
           dropped == {k \in keys : verdict[k] # "ok"}
           lost == UNION {Libraries(env, k) : k \in dropped}
           judged == Judge(dropped, verdict)
           again == {k \in Passing \ dropped : Libraries(env, k) \cap lost # {}}
<1>0. env' = env /\ gen.stage = "settle" /\ gen # NoStubs  BY DEF Settle, NoStubs
<1>1. gen' = [judged EXCEPT !.settle = @ + 1, !.check = again, !.alone = (dropped = {}),
                         !.stage = IF dropped = {} THEN "frozen" ELSE "settle"]
  BY DEF Settle
<1>2. DOMAIN judged = StubFields /\ judged.cand = gen.cand
      /\ judged.status = [k \in Gaps(env) |-> IF k \in dropped THEN verdict[k] ELSE gen.status[k]]
  <2> HIDE DEF dropped, verdict
  <2> QED  BY DEF Judge, StubsHold, StubFields
<1>3. /\ gen'.cand = gen.cand /\ gen'.status = judged.status /\ gen'.check = again
      /\ gen'.alone = (dropped = {}) /\ gen'.stage = IF dropped = {} THEN "frozen" ELSE "settle"
  <2> HIDE DEF judged, dropped, again
  <2> QED  BY <1>1, <1>2 DEF StubFields
<1>4. Passing' = Passing \ dropped
  <2>1. \A k \in Gaps(env) :
          gen'.status[k] = "ok" <=> gen.status[k] = "ok" /\ k \notin dropped
    <3>1. \A k \in dropped : verdict[k] # "ok"  OBVIOUS
    <3> HIDE DEF dropped, verdict, judged
    <3> QED  BY <1>2, <1>3, <3>1
  <2> HIDE DEF dropped, judged
  <2> QED  BY <2>1, <1>3 DEF Passing, Declared, StubsHold
<1>5. ASSUME NEW k \in Passing', k \notin again PROVE Mates(k)'
  <2>1. k \in Passing \ dropped /\ Libraries(env, k) \cap lost = {}  BY <1>4, <1>5
  <2>2. \A j \in gen.cand[k].mentions :
          j \in Passing \/ Libraries(env, j) \cap Libraries(env, k) = {}
    <3>1. CASE k \in keys
      <4>1. verdict[k] = "ok"  BY <3>1, <2>1
      <4>2. DOMAIN Only(Passing) = Passing /\ Only(Passing)[k] = gen.cand[k]  BY <2>1 DEF Only
      <4>3. IsFiniteSet(Passing)
        <5>1. Passing \subseteq Gaps(env)  BY DEF Passing, Declared, StubsHold
        <5> QED  BY <5>1, FS_Subset DEF StubsHold
      <4>4. k \in keys \cap DOMAIN Only(Passing)  BY <3>1, <2>1, <4>2
      <4>5. Only(Passing)[k].mentions \subseteq DOMAIN Only(Passing)
        <5> HIDE DEF keys
        <5> QED  BY <4>1, <4>2, <4>3, <4>4, OkFits DEF verdict
      <4> QED  BY <4>2, <4>5
    <3>2. CASE k \notin keys
      <4>1. k \in Passing \ gen.check  BY <3>2, <2>1
      <4> QED  BY <4>1, <1>0 DEF AloneInv, Mates
    <3> QED  BY <3>1, <3>2
  <2>3. ASSUME NEW j \in gen.cand[k].mentions, j \notin Passing'
        PROVE  Libraries(env, j) \cap Libraries(env, k) = {}
    <3>1. CASE j \in dropped
      <4>1. Libraries(env, j) \subseteq lost  BY <3>1
      <4> HIDE DEF lost
      <4> QED  BY <4>1, <2>1
    <3>2. CASE j \notin dropped
      <4> HIDE DEF dropped, lost
      <4> QED  BY <3>2, <2>2, <2>3, <1>4
    <3> QED  BY <3>1, <3>2
  <2> QED  BY <2>3, <1>0, <1>3 DEF Mates
<1>6. dropped = {} => again = {}  OBVIOUS
<1> HIDE DEF dropped, again, judged
<1>7. \A k \in Passing' \ again : Mates(k)'  BY <1>5
<1>8. CASE dropped = {}
  <2>1. gen'.stage = "frozen" /\ gen'.check = {}  BY <1>3, <1>6, <1>8
  <2> QED  BY <1>6, <1>7, <1>8, <2>1 DEF AloneInv
<1>9. CASE dropped # {}
  <2>1. gen'.stage = "settle" /\ ~gen'.alone  BY <1>3, <1>9
  <2> QED  BY <1>3, <1>7, <2>1 DEF AloneInv
<1> QED  BY <1>8, <1>9

(* Every step of the intake keeps what holds of the mentions.              *)
LEMMA AloneNext ==
  ASSUME StubInv, AloneInv, [Next]_intakeVars PROVE AloneInv'
<1>1. CASE StartStubs
  <2>1. \E e \in Environments : CollectGaps(e)  BY <1>1 DEF StartStubs
  <2>2. gen'.stage = "ask" /\ gen'.alone = FALSE  BY <2>1 DEF CollectGaps
  <2> QED  BY <2>2 DEF AloneInv
<1>2. CASE StubStep
  <2>1. gen.stage # "none"
    BY <1>2, Zenon DEF StubStep, SendBatch, AnswerBatch, VerifyRound, TryFallback, Settle, FreezeStubs
  <2>2. StubsHold /\ gen # NoStubs  BY <2>1 DEF StubInv, NoStubs
  <2>3. CASE FreezeStubs
    <3>1. gen' = [gen EXCEPT !.stage = "frozen"] /\ gen.stage = "settle"  BY <2>3 DEF FreezeStubs
    <3>2. ~gen.alone  BY <3>1, <2>2 DEF AloneInv
    <3>3. gen'.alone = gen.alone /\ gen'.stage = "frozen"  BY <3>1, <2>2 DEF StubsHold, StubFields
    <3> QED  BY <3>2, <3>3 DEF AloneInv
  <2> QED
    BY <1>2, <2>2, <2>3, AloneEarly, AloneFallback, AloneSettle, Zenon DEF StubStep
<1>3. CASE UNCHANGED <<env, gen>>
  BY <1>3 DEF AloneInv, Mates, Passing, Declared
<1> QED
  BY <1>1, <1>2, <1>3, Zenon DEF Next, intakeVars, VisitDependency, LeaveFile, AssembleFiles, StartBuild,
     WriteReport, Rest

(* Whatever the model answers and whatever the builds drop, the set that   *)
(* is frozen after a build that dropped nothing has every stub a stub of a *)
(* library mentions, as far as the library misses it (generate.py:292-308).*)
THEOREM FrozenStubsStandAlone == Spec => []FrozenStandsAlone
<1>1. Init => StubInv /\ AloneInv  BY DEF Init, StubInv, AloneInv
<1>2. StubInv /\ AloneInv /\ [Next]_intakeVars => (StubInv /\ AloneInv)'  BY StubNext, AloneNext
<1>3. AloneInv => FrozenStandsAlone  BY DEF AloneInv, FrozenStandsAlone, Mates, NoStubs
<1> QED  BY <1>1, <1>2, <1>3, PTL DEF Spec

(* What is kept of a sequence are elements of it that are to be kept.      *)
LEMMA KeptType ==
  ASSUME NEW T, NEW s \in Seq(T), NEW keep
  PROVE  /\ Kept(s, keep) \in Seq(T \cap keep)
         /\ \A j \in 1 .. Len(s) : s[j] \in keep =>
              \E k \in 1 .. Len(Kept(s, keep)) : Kept(s, keep)[k] = s[j]
<1> DEFINE D == Seq(T \cap keep)
           m == Len(s)
           next(i, x) == IF s[i] \in keep THEN Append(x, s[i]) ELSE x
           g == [p \in Nat \X D |-> IF p[1] \in 1 .. m THEN next(p[1], p[2]) ELSE p[2]]
           R(f) == f = [i \in 0 .. m |-> IF i = 0 THEN <<>> ELSE next(i, f[i - 1])]
           upto == CHOOSE f : R(f)
<1>0. m \in Nat /\ <<>> \in D  OBVIOUS
<1>1. ASSUME NEW i \in 1 .. m, NEW x \in D PROVE next(i, x) \in D
  <2>1. s[i] \in T  OBVIOUS
  <2> QED  BY <2>1
<1>2. g \in [Nat \X D -> D]
  <2> HIDE DEF next, D, m
  <2> QED  BY <1>1
<1>3. PICK f : IsIteration(f, D, <<>>, g, m)
  <2> HIDE DEF g, D, m
  <2> QED  BY <1>0, <1>2, Iterates
<1>4. ASSUME NEW i \in 0 .. m, i # 0 PROVE f[i] = next(i, f[i - 1])
  <2>1. i \in 1 .. m /\ i \in Nat /\ i - 1 \in 0 .. m  BY <1>0, <1>4
  <2> HIDE DEF next, m, D
  <2>2. <<i, f[i - 1]>> \in Nat \X D  BY <2>1, <1>3 DEF IsIteration
  <2>3. g[<<i, f[i - 1]>>] = next(i, f[i - 1])  BY <2>1, <2>2
  <2> QED  BY <2>1, <2>3, <1>3 DEF IsIteration
<1>5. R(f)
  <2> HIDE DEF next, m, D, g
  <2> QED  BY <1>3, <1>4 DEF IsIteration
<1>6. R(upto)
  <2> HIDE DEF R
  <2> QED  BY <1>5
<1>7. upto[0] = <<>> /\ \A i \in 0 .. m : i # 0 => upto[i] = next(i, upto[i - 1])
  <2> HIDE DEF next, m, upto
  <2>1. upto = [i \in 0 .. m |-> IF i = 0 THEN <<>> ELSE next(i, upto[i - 1])]  BY <1>6
  <2>2. 0 \in 0 .. m  BY <1>0
  <2> QED  BY <2>1, <2>2
<1> DEFINE Holds(x, i) == \A j \in 1 .. i : s[j] \in keep => \E k \in 1 .. Len(x) : x[k] = s[j]
           Good == {i \in Nat : i <= m => upto[i] \in D /\ Holds(upto[i], i)}
<1>8. 0 \in Good
  <2> HIDE DEF upto
  <2>1. Holds(upto[0], 0)  OBVIOUS
  <2> QED  BY <1>0, <1>7, <2>1
<1>9. ASSUME NEW i \in Nat, i \in Good PROVE i + 1 \in Good
  <2> HIDE DEF D, upto, Holds, m
  <2> SUFFICES ASSUME i + 1 <= m PROVE upto[i + 1] \in D /\ Holds(upto[i + 1], i + 1)  OBVIOUS
  <2> USE DEF D, Holds, m
  <2>1. i + 1 \in 0 .. m /\ i + 1 \in 1 .. m /\ i + 1 # 0 /\ (i + 1) - 1 = i /\ i <= m  BY <1>0
  <2>2. upto[i + 1] = next(i + 1, upto[i])  BY <1>7, <2>1
  <2>3. upto[i] \in D /\ Holds(upto[i], i)  BY <1>9, <2>1
  <2>4. upto[i + 1] \in D
    <3> HIDE DEF next, D, m
    <3> QED  BY <2>1, <2>2, <2>3, <1>1
  <2>5. Holds(upto[i + 1], i + 1)
    <3> SUFFICES ASSUME NEW j \in 1 .. i + 1, s[j] \in keep
                 PROVE \E k \in 1 .. Len(upto[i + 1]) : upto[i + 1][k] = s[j]
      OBVIOUS
    <3> DEFINE x == upto[i]
               y == upto[i + 1]
    <3>0. x \in Seq(T \cap keep) /\ s[i + 1] \in T  BY <2>1, <2>3
    <3>1. y = IF s[i + 1] \in keep THEN Append(x, s[i + 1]) ELSE x  BY <2>2
    <3>2. Holds(x, i)  BY <2>3
    <3> HIDE DEF x, y
    <3>3. CASE j = i + 1
      <4>1. y = Append(x, s[i + 1])  BY <3>1, <3>3
      <4>2. Len(y) = Len(x) + 1 /\ y[Len(x) + 1] = s[j] /\ Len(x) \in Nat  BY <4>1, <3>0, <3>3
      <4>3. Len(x) + 1 \in 1 .. Len(y)  BY <4>2
      <4> QED  BY <4>2, <4>3 DEF y
    <3>4. CASE j # i + 1
      <4>1. j \in 1 .. i  BY <3>4
      <4>2. PICK k \in 1 .. Len(x) : x[k] = s[j]  BY <3>2, <4>1
      <4>3. k \in 1 .. Len(y) /\ y[k] = x[k]  BY <3>0, <3>1
      <4> QED  BY <4>2, <4>3 DEF y
    <3> QED  BY <3>3, <3>4
  <2> QED  BY <2>4, <2>5
<1>10. m \in Good
  <2> HIDE DEF Good, m
  <2> QED  BY <1>0, <1>8, <1>9, SetInduction
<1>11. upto[m] \in D /\ Holds(upto[m], m)
  <2> HIDE DEF upto
  <2> QED  BY <1>0, <1>10
<1>12. Kept(s, keep) = upto[m]  BY DEF Kept
<1> HIDE DEF upto
<1> QED  BY <1>11, <1>12

(* The halving search of a test t over 0 .. n.                             *)
Between(t, n, f, p) ==
  LET middle == (p[1] + p[2]) \div 2
  IN  IF p[1] + 1 < p[2] THEN IF t[middle] THEN f[<<p[1], middle>>] ELSE f[<<middle, p[2]>>] ELSE p[2]
(* The bounds that a search in n units can have.                           *)
Search(n) == (0 .. n) \X (0 .. n)

(* The middle of two bounds with something between them is strictly between*)
(* them.                                                                   *)
LEMMA MiddleBetween ==
  ASSUME NEW low \in Nat, NEW high \in Nat, low + 1 < high
  PROVE  /\ (low + high) \div 2 \in Nat
         /\ low < (low + high) \div 2 /\ (low + high) \div 2 < high
  OBVIOUS

(* One halving step stays within the bounds of the search.                 *)
LEMMA BetweenType ==
  ASSUME NEW t, NEW n \in Nat, NEW f \in [Search(n) -> 0 .. n], NEW p \in Search(n)
  PROVE  Between(t, n, f, p) \in 0 .. n
<1> DEFINE middle == (p[1] + p[2]) \div 2
<1>1. p[1] \in 0 .. n /\ p[2] \in 0 .. n  BY DEF Search
<1>2. CASE p[1] + 1 < p[2]
  <2>1. middle \in Nat /\ p[1] < middle /\ middle < p[2]  BY <1>1, <1>2, MiddleBetween
  <2> HIDE DEF middle
  <2>2. middle \in 0 .. n  BY <1>1, <2>1
  <2>3. <<p[1], middle>> \in Search(n) /\ <<middle, p[2]>> \in Search(n)  BY <1>1, <2>2 DEF Search
  <2>4. f[<<p[1], middle>>] \in 0 .. n /\ f[<<middle, p[2]>>] \in 0 .. n  BY <2>3
  <2>5. Between(t, n, f, p) = IF t[middle] THEN f[<<p[1], middle>>] ELSE f[<<middle, p[2]>>]
    BY <1>2 DEF Between, middle
  <2> QED  BY <2>4, <2>5
<1>3. CASE ~(p[1] + 1 < p[2])  BY <1>1, <1>3 DEF Between
<1> QED  BY <1>2, <1>3

(* The recursion of the halving search has a solution: each step is between*)
(* closer bounds.                                                          *)
LEMMA NarrowExists ==
  ASSUME NEW t, NEW n \in Nat
  PROVE  \E f : f = [p \in Search(n) |-> Between(t, n, f, p)]
<1> DEFINE D == [Search(n) -> 0 .. n]
           first == [p \in Search(n) |-> p[2]]
           more(f) == [p \in Search(n) |-> Between(t, n, f, p)]
           g == [q \in Nat \X D |-> more(q[2])]
<1>1. \A f \in D : more(f) \in D  BY BetweenType
<1>2. first \in D  BY DEF Search
<1>3. g \in [Nat \X D -> D]
  <2> HIDE DEF D, more
  <2> QED  BY <1>1
<1>4. PICK h : IsIteration(h, D, first, g, n + 1)
  <2>1. n + 1 \in Nat  OBVIOUS
  <2> HIDE DEF D, first, g
  <2> QED  BY <1>2, <1>3, <2>1, Iterates
<1>5. h[0] = first /\ \A i \in 0 .. n : h[i] \in D /\ h[i + 1] = more(h[i])
  <2> SUFFICES ASSUME NEW i \in 0 .. n PROVE h[i] \in D /\ h[i + 1] = more(h[i])
    BY <1>4 DEF IsIteration
  <2>1. i + 1 \in 1 .. n + 1 /\ i \in 0 .. n + 1 /\ (i + 1) - 1 = i /\ i + 1 \in Nat  OBVIOUS
  <2> HIDE DEF D, more
  <2>2. h[i] \in D  BY <1>4, <2>1 DEF IsIteration
  <2>3. h[i + 1] = g[<<i + 1, h[i]>>]
    <3> HIDE DEF g
    <3> QED  BY <1>4, <2>1 DEF IsIteration
  <2>4. <<i + 1, h[i]>> \in Nat \X D  BY <2>1, <2>2
  <2> QED  BY <2>2, <2>3, <2>4
<1> DEFINE Same(i) == \A p \in Search(n) : p[2] - p[1] <= i + 1 => h[i + 1][p] = h[i][p]
           Good == {i \in Nat : i <= n => Same(i)}
<1>6. 0 \in Good
  <2> SUFFICES ASSUME NEW p \in Search(n), p[2] - p[1] <= 1 PROVE h[1][p] = h[0][p]  OBVIOUS
  <2>1. p[1] \in Nat /\ p[2] \in Nat /\ ~(p[1] + 1 < p[2])  BY DEF Search
  <2>2. 0 \in 0 .. n /\ 0 + 1 = 1  OBVIOUS
  <2>3. h[1] = more(h[0]) /\ h[0] = first  BY <1>5, <2>2
  <2>4. h[1][p] = Between(t, n, h[0], p)  BY <2>3
  <2>5. h[0][p] = p[2]  BY <2>3
  <2> QED  BY <2>1, <2>4, <2>5 DEF Between
<1>7. ASSUME NEW i \in Nat, i \in Good PROVE i + 1 \in Good
  <2> SUFFICES ASSUME i + 1 <= n, NEW p \in Search(n), p[2] - p[1] <= (i + 1) + 1
               PROVE  h[(i + 1) + 1][p] = h[i + 1][p]
    OBVIOUS
  <2>1. i \in 0 .. n /\ i + 1 \in 0 .. n  OBVIOUS
  <2>2. h[i + 1] = more(h[i]) /\ h[(i + 1) + 1] = more(h[i + 1])  BY <1>5, <2>1
  <2>3. h[i + 1][p] = Between(t, n, h[i], p) /\ h[(i + 1) + 1][p] = Between(t, n, h[i + 1], p)  BY <2>2
  <2>4. p[1] \in 0 .. n /\ p[2] \in 0 .. n  BY DEF Search
  <2>5. CASE p[1] + 1 < p[2]
    <3> DEFINE middle == (p[1] + p[2]) \div 2
    <3>1. middle \in Nat /\ p[1] < middle /\ middle < p[2]  BY <2>4, <2>5, MiddleBetween
    <3> HIDE DEF middle
    <3>2. middle \in 0 .. n  BY <2>4, <3>1
    <3>3. <<p[1], middle>> \in Search(n) /\ <<middle, p[2]>> \in Search(n)  BY <2>4, <3>2 DEF Search
    <3>4. middle - p[1] <= i + 1 /\ p[2] - middle <= i + 1  BY <2>4, <3>1
    <3>5. Same(i)  BY <1>7, <2>1
    <3>6. h[i + 1][<<p[1], middle>>] = h[i][<<p[1], middle>>]  BY <3>3, <3>4, <3>5
    <3>7. h[i + 1][<<middle, p[2]>>] = h[i][<<middle, p[2]>>]  BY <3>3, <3>4, <3>5
    <3>8. /\ Between(t, n, h[i], p) = IF t[middle] THEN h[i][<<p[1], middle>>] ELSE h[i][<<middle, p[2]>>]
          /\ Between(t, n, h[i + 1], p)
               = IF t[middle] THEN h[i + 1][<<p[1], middle>>] ELSE h[i + 1][<<middle, p[2]>>]
      BY <2>5 DEF Between, middle
    <3> QED  BY <2>3, <3>6, <3>7, <3>8
  <2>6. CASE ~(p[1] + 1 < p[2])  BY <2>3, <2>6 DEF Between
  <2> QED  BY <2>5, <2>6
<1>8. n \in Good
  <2> HIDE DEF Good
  <2> QED  BY <1>6, <1>7, SetInduction
<1>9. \A p \in Search(n) : h[n + 1][p] = h[n][p]
  <2> SUFFICES ASSUME NEW p \in Search(n) PROVE p[2] - p[1] <= n + 1  BY <1>8
  <2> QED  BY DEF Search
<1>10. n \in 0 .. n  OBVIOUS
<1>11. h[n] \in D /\ h[n + 1] = more(h[n])  BY <1>5, <1>10
<1>12. h[n] = more(h[n])
  <2> DEFINE a == h[n]
             b == more(a)
  <2>1. b \in D  BY <1>1, <1>11
  <2>2. \A p \in Search(n) : a[p] = b[p]  BY <1>9, <1>11
  <2>3. a \in D  BY <1>11
  <2> HIDE DEF a, b
  <2>4. a = b  BY <2>1, <2>2, <2>3
  <2> QED  BY <2>4 DEF a, b
<1> QED  BY <1>12

(* What the search returns between two bounds: the upper bound or a length *)
(* that fails, next to the lower bound or to a length that does not fail.  *)
LEMMA NarrowFinds ==
  ASSUME NEW t, NEW n \in Nat, NEW f, f = [p \in Search(n) |-> Between(t, n, f, p)],
         NEW low \in 0 .. n, NEW high \in 0 .. n, low < high
  PROVE  /\ f[<<low, high>>] \in low + 1 .. high
         /\ f[<<low, high>>] = high \/ t[f[<<low, high>>]]
         /\ f[<<low, high>>] = low + 1 \/ ~t[f[<<low, high>>] - 1]
<1> DEFINE Found(l, h) == /\ f[<<l, h>>] \in l + 1 .. h
                          /\ f[<<l, h>>] = h \/ t[f[<<l, h>>]]
                          /\ f[<<l, h>>] = l + 1 \/ ~t[f[<<l, h>>] - 1]
           Good == {d \in Nat : \A l \in 0 .. n, h \in 0 .. n : l < h /\ h - l <= d => Found(l, h)}
<1>0. \A l \in 0 .. n, h \in 0 .. n : f[<<l, h>>] = Between(t, n, f, <<l, h>>)  BY DEF Search
<1>1. 0 \in Good  OBVIOUS
<1>2. ASSUME NEW d \in Nat, d \in Good PROVE d + 1 \in Good
  <2> SUFFICES ASSUME NEW l \in 0 .. n, NEW h \in 0 .. n, l < h, h - l <= d + 1 PROVE Found(l, h)  
    <3> HIDE DEF Found
    <3> QED  OBVIOUS
  <2>1. CASE ~(l + 1 < h)
    <3>1. f[<<l, h>>] = h  BY <1>0, <2>1 DEF Between
    <3> QED  BY <2>1, <3>1
  <2>2. CASE l + 1 < h
    <3> DEFINE m == (l + h) \div 2
    <3>1. m \in Nat /\ l < m /\ m < h  BY <2>2, MiddleBetween
    <3>2. f[<<l, h>>] = IF t[m] THEN f[<<l, m>>] ELSE f[<<m, h>>]  BY <1>0, <2>2 DEF Between
    <3> HIDE DEF m
    <3>3. m \in 0 .. n /\ m - l <= d /\ h - m <= d  BY <3>1
    <3>4. Found(l, m) /\ Found(m, h)
      <4> HIDE DEF Found
      <4> QED  BY <1>2, <3>1, <3>3
    <3>5. CASE t[m]
      <4>1. f[<<l, h>>] = f[<<l, m>>]  BY <3>2, <3>5
      <4> DEFINE r == f[<<l, m>>]
      <4>2. r \in l + 1 .. m /\ (r = m \/ t[r]) /\ (r = l + 1 \/ ~t[r - 1])  BY <3>4
      <4> HIDE DEF r
      <4>3. r \in l + 1 .. h /\ (r = h \/ t[r]) /\ (r = l + 1 \/ ~t[r - 1])  BY <4>2, <3>1, <3>5
      <4> QED  BY <4>1, <4>3 DEF r
    <3>6. CASE ~t[m]
      <4>1. f[<<l, h>>] = f[<<m, h>>]  BY <3>2, <3>6
      <4> DEFINE r == f[<<m, h>>]
      <4>2. r \in m + 1 .. h /\ (r = h \/ t[r]) /\ (r = m + 1 \/ ~t[r - 1])  BY <3>4
      <4> HIDE DEF r
      <4>3. r = m + 1 => r - 1 = m  BY <3>1
      <4>4. r \in l + 1 .. h /\ (r = h \/ t[r]) /\ (r = l + 1 \/ ~t[r - 1])  BY <4>2, <4>3, <3>1, <3>6
      <4> QED  BY <4>1, <4>4 DEF r
    <3> QED  BY <3>5, <3>6
  <2> QED  BY <2>1, <2>2
<1>3. n \in Good
  <2> HIDE DEF Good
  <2> QED  BY <1>1, <1>2, SetInduction
<1>4. high - low <= n  OBVIOUS
<1>5. Found(low, high)
  <2> HIDE DEF Found
  <2> QED  BY <1>3, <1>4
<1> QED  BY <1>5

(* The search ends at a unit with which the build fails and, unless it is  *)
(* the first candidate, without which it does not.                         *)
LEMMA HalveFinds ==
  ASSUME NEW active, Len(active) \in Nat, NEW out, NEW fails, NEW start \in 0 .. Len(active),
         start < Len(active)
  PROVE  LET c == Halve(active, out, fails, start)
             without(k) == out \cup {active[i] : i \in (k + 1)..Len(active)}
         IN  /\ c \in start + 1 .. Len(active)
             /\ c = Len(active) \/ fails[without(c)]
             /\ c = start + 1 \/ ~fails[without(c - 1)]
<1> DEFINE n == Len(active)
           without(k) == out \cup {active[i] : i \in (k + 1)..Len(active)}
           t == [k \in 0 .. n |-> fails[without(k)]]
           R(f) == f = [p \in Search(n) |-> Between(t, n, f, p)]
           S(f) == f = [p \in (0..Len(active)) \X (0..Len(active)) |->
                          IF p[1] + 1 < p[2]
                          THEN IF fails[without((p[1] + p[2]) \div 2)] THEN f[<<p[1], (p[1] + p[2]) \div 2>>]
                               ELSE f[<<(p[1] + p[2]) \div 2, p[2]>>]
                          ELSE p[2]]
           narrow == CHOOSE f : S(f)
           c == Halve(active, out, fails, start)
<1>1. ASSUME NEW f PROVE R(f) <=> S(f)
  <2>1. ASSUME NEW p \in Search(n)
        PROVE  Between(t, n, f, p) = 
                 IF p[1] + 1 < p[2]
                          THEN IF fails[without((p[1] + p[2]) \div 2)] THEN f[<<p[1], (p[1] + p[2]) \div 2>>]
                               ELSE f[<<(p[1] + p[2]) \div 2, p[2]>>]
                          ELSE p[2]
    <3>1. CASE p[1] + 1 < p[2]
      <4>1. p[1] \in 0 .. n /\ p[2] \in 0 .. n  BY DEF Search
      <4>2. (p[1] + p[2]) \div 2 \in 0 .. n  BY <4>1, <3>1, MiddleBetween
      <4>3. t[(p[1] + p[2]) \div 2] = fails[without((p[1] + p[2]) \div 2)]
        <5> HIDE DEF without
        <5> QED  BY <4>2
      <4> HIDE DEF t, without
      <4> QED  BY <3>1, <4>3 DEF Between
    <3>2. CASE ~(p[1] + 1 < p[2])  BY <3>2 DEF Between
    <3> QED  BY <3>1, <3>2
  <2> HIDE DEF t, without
  <2> QED  BY <2>1 DEF Search
<1>2. c = narrow[<<start, n>>]  BY DEF Halve
<1>3. S(narrow)
  <2>1. \E f : R(f)
    <3> HIDE DEF n, t
    <3> QED  BY NarrowExists DEF n
  <2>2. \E f : S(f)
    <3> HIDE DEF R, S
    <3> QED  BY <2>1, <1>1
  <2> HIDE DEF S
  <2> QED  BY <2>2
<1>4. R(narrow)
  <2> HIDE DEF R, S, narrow
  <2> QED  BY <1>1, <1>3
<1>5. n \in 0 .. n /\ start \in 0 .. n /\ start < n /\ n \in Nat  OBVIOUS
<1>6. /\ narrow[<<start, n>>] \in start + 1 .. n
      /\ narrow[<<start, n>>] = n \/ t[narrow[<<start, n>>]]
      /\ narrow[<<start, n>>] = start + 1 \/ ~t[narrow[<<start, n>>] - 1]
  <2> HIDE DEF t, n, narrow
  <2> QED  BY <1>4, <1>5, NarrowFinds
<1>7. c \in start + 1 .. n /\ (c = n \/ t[c]) /\ (c = start + 1 \/ ~t[c - 1])
  <2> HIDE DEF narrow, t, n, c
  <2> QED  BY <1>2, <1>6
<1>8. c \in 0 .. n /\ c - 1 \in 0 .. n
  <2> HIDE DEF c
  <2> QED  BY <1>5, <1>7
<1>9. t[c] = fails[without(c)] /\ t[c - 1] = fails[without(c - 1)]
  <2> HIDE DEF without, c
  <2> QED  BY <1>8
<1> HIDE DEF t
<1> QED  BY <1>7, <1>9

(* A library as the intake assembles it: every name is defined in one      *)
(* place, and the generator's modes are those of the build.                *)
Assembled(lb) ==
  /\ DOMAIN lb = SourceFields \cup {"units", "fileOf", "missing"}
  /\ lb.compat \in {"ok", "error", "exit", "panic", "gen"} /\ "none" \notin lb.loose
  /\ lb.units \in Seq(Units(lb)) /\ DistinctPlaces(lb, Units(lb))

(* More blanked text takes more names away.                                *)
LEMMA GoneGrows ==
  ASSUME NEW lb, NEW less, NEW more, less \subseteq more
  PROVE  Off(lb, less) \subseteq Off(lb, more) /\ Gone(lb, less) \subseteq Gone(lb, more)
<1>1. Off(lb, less) \subseteq Off(lb, more)  BY DEF Off
<1> QED  BY <1>1 DEF Gone, Extras

(* Blanked text is gone.                                                   *)
LEMMA GoneHas ==
  ASSUME NEW lb, NEW out PROVE out \subseteq Off(lb, out) /\ Off(lb, out) \subseteq Gone(lb, out)
  BY DEF Gone, Off

(* The names that are noted are gone, and those that are gone and are not  *)
(* noted are of the kinds that may not be noticed.                         *)
LEMMA NotedAre ==
  ASSUME NEW lb, NEW out
  PROVE  Noted(lb, out) \subseteq Off(lb, out) /\ Gone(lb, out) \ Noted(lb, out) \subseteq Unnoticed(lb)
<1>1. Noted(lb, out) \subseteq Off(lb, out)  BY DEF Noted, Off
<1>2. Off(lb, out) \ Noted(lb, out) \subseteq Unnoticed(lb)  BY DEF Noted, Off, Unnoticed
<1>3. Extras(lb, Off(lb, out)) \subseteq Unnoticed(lb)  BY DEF Extras, Unnoticed
<1> QED  BY <1>1, <1>2, <1>3 DEF Gone

(* A part of the library belongs to a unit.                                *)
LEMMA UnitOfHas ==
  ASSUME NEW lb, NEW p \in Parts(lb)
  PROVE  UnitOf(lb, p) \in Units(lb) /\ p \in UnitNames(lb, UnitOf(lb, p))
<1>1. \E u \in Units(lb) : p \in UnitNames(lb, u)  BY DEF Parts
<1> QED  BY <1>1 DEF UnitOf

(* The names of a unit are parts of the library, its own name among them.  *)
LEMMA NamesAreParts ==
  ASSUME NEW lb, NEW u \in Units(lb) PROVE UnitNames(lb, u) \subseteq Parts(lb) /\ u \in UnitNames(lb, u)
  BY DEF Parts, UnitNames

(* A unit none of whose text is blanked keeps all its names.               *)
LEMMA WholeStays ==
  ASSUME NEW lb, Assembled(lb), NEW out, NEW u \in Units(lb), UnitNames(lb, u) \cap out = {}
  PROVE  UnitNames(lb, u) \cap Off(lb, out) = {}
<1> SUFFICES ASSUME NEW p \in UnitNames(lb, u), NEW w \in Units(lb) \cap out, p \in lb.decls[w] PROVE FALSE
  BY DEF Off
<1>1. CASE p = u  BY <1>1 DEF Assembled, DistinctPlaces
<1>2. CASE p \in lb.decls[u]
  <2>1. w = u  BY <1>2 DEF Assembled, DistinctPlaces
  <2> QED  BY <2>1 DEF UnitNames
<1> QED  BY <1>1, <1>2 DEF UnitNames

(* Blanking more text creates no fault, except for a dangling reference.   *)
LEMMA LiveShrinks ==
  ASSUME NEW lb, NEW less, NEW more, less \subseteq more, NEW stage, NEW f \in Live(lb, more, stage),
         f.form # "dangling"
  PROVE  f \in Live(lb, less, stage)
  BY GoneGrows DEF Live

(* A checker that panics panics with more text as well.                    *)
LEMMA PanicsShrink ==
  ASSUME NEW lb, NEW less, NEW more, less \subseteq more, CheckPanics(lb, more)
  PROVE  CheckPanics(lb, less)
<1>1. CASE lb.compat = "panic"  BY <1>1 DEF CheckPanics
<1>2. CASE lb.compat # "panic"
  <2>1. PICK f \in Live(lb, more, "check") : f.form = "panic"  BY <1>2 DEF CheckPanics
  <2>2. f \in Live(lb, less, "check")  BY <2>1, LiveShrinks
  <2> QED  BY <2>1, <2>2 DEF CheckPanics
<1> QED  BY <1>1, <1>2

(* The units that are searched are those that are taken to build.          *)
LEMMA ActiveAre ==
  ASSUME Assembled(lib), NEW val
  PROVE  /\ Active(val) \in Seq(Ok(val, Units(lib)))
         /\ \A u \in Ok(val, Units(lib)) : \E k \in 1 .. Len(Active(val)) : Active(val)[k] = u
<1> DEFINE keep == Ok(val, Units(lib))
<1>1. lib.units \in Seq(Units(lib))  BY DEF Assembled
<1>2. Units(lib) \cap keep = keep  BY DEF Ok
<1>3. /\ Active(val) \in Seq(Units(lib) \cap keep)
      /\ \A j \in 1 .. Len(lib.units) : lib.units[j] \in keep =>
              \E k \in 1 .. Len(Active(val)) : Active(val)[k] = lib.units[j]
  <2> HIDE DEF keep
  <2> QED  BY <1>1, KeptType DEF Active, keep
<1>4. ASSUME NEW u \in keep PROVE \E j \in 1 .. Len(lib.units) : lib.units[j] = u
  <2>1. u \in Units(lib)  BY DEF Ok
  <2> QED  BY <2>1, <1>1 DEF Units, ToSet
<1> QED  BY <1>2, <1>3, <1>4

(* What is left out of a build of the first k active units.                *)
LeftOf(active, out, k) == out \cup {active[i] : i \in (k + 1)..Len(active)}
(* The unit that the prefix search blames: everything together fails, and  *)
(* at the blamed prefix the build turns from not failing to failing, except*)
(* at the ends of the search that it does not test.                        *)
LEMMA CulpritIs ==
  ASSUME NEW T, NEW active \in Seq(T), NEW out, NEW fails, NEW start \in Nat,
         NEW c, c = CulpritPrefix(active, out, fails, start), c # 0
  PROVE  /\ c \in 1 .. Len(active) /\ active[c] \in T /\ c - 1 \in Nat
         /\ fails[out]
         /\ c = Len(active) \/ fails[LeftOf(active, out, c)]
         /\ c = start + 1 \/ ~fails[LeftOf(active, out, c - 1)]
<1>0. Len(active) \in Nat  OBVIOUS
<1>1. start < Len(active) /\ fails[out] /\ c = Halve(active, out, fails, start)  BY <1>0 DEF CulpritPrefix
<1>2. start \in 0 .. Len(active)  BY <1>0, <1>1
<1>3. LET without(k) == out \cup {active[i] : i \in (k + 1)..Len(active)}
      IN   /\ c \in start + 1 .. Len(active)
           /\ c = Len(active) \/ fails[without(c)]
           /\ c = start + 1 \/ ~fails[without(c - 1)]
  BY <1>0, <1>1, <1>2, HalveFinds
<1>4. /\ c \in start + 1 .. Len(active)
      /\ c = Len(active) \/ fails[LeftOf(active, out, c)]
      /\ c = start + 1 \/ ~fails[LeftOf(active, out, c - 1)]
  BY <1>3 DEF LeftOf
<1>5. c \in 1 .. Len(active) /\ c - 1 \in Nat  BY <1>0, <1>4
<1>6. active[c] \in T  BY <1>5
<1> QED  BY <1>1, <1>4, <1>5, <1>6

(* A set of positions has a first one.                                     *)
LEMMA FirstOf ==
  ASSUME NEW S \in SUBSET Nat, S # {}
  PROVE  Min(S) \in S
<1>1. \E x \in S : \A y \in S : ~ (<<y, x>> \in Below)  BY BelowWF, WFMin, Zenon
<1>2. PICK x \in S : \A y \in S : ~ (<<y, x>> \in Below)  BY <1>1
<1>3. \A y \in S : x <= y
  <2> SUFFICES ASSUME NEW y \in S PROVE x <= y  OBVIOUS
  <2>1. x \in Nat /\ y \in Nat /\ ~ (<<y, x>> \in Below)  BY <1>2
  <2> QED  BY <2>1 DEF Below
<1> QED  BY <1>3 DEF Min

(* The fields of a validation that has begun.                              *)
ValidFields == {"stage", "round", "out", "status", "failing", "decls", "lines", "orphans", "panic",
                "start", "partial", "conf", "refs", "ir", "link", "undefined"}

(* The calls of the units left in the build to functions without a symbol. *)
Undefined(lb, out) == (UNION {lb.calls[u] : u \in Units(lb) \ out}) \cap lb.noSymbol

(* A validation blanks text of its library only, and has nothing left to   *)
(* blank while it checks or generates.                                     *)
ValidShape(lb, v) ==
  /\ DOMAIN v = ValidFields /\ DOMAIN v.status = Units(lb) /\ v.start \in Nat
  /\ v.stage \in {"check", "panic", "blank", "generate", "finish", "done"}
  /\ v.out \subseteq Parts(lb) \cup lb.loose /\ v.failing \subseteq Units(lb)
  /\ v.lines \subseteq lb.loose \cap v.orphans /\ v.out \cap lb.loose \subseteq v.orphans
  /\ v.stage \in {"check", "generate"} => v.failing = {} /\ v.decls = {}

(* A unit still accepted has no blanked text; a rejected unit without      *)
(* declarations in shared lists is out of the build or on its way out.     *)
Withdrawn(lb, v) ==
  /\ \A u \in v.failing : v.status[u] # "ok"
  /\ \A u \in Units(lb) :
       IF v.status[u] = "ok" THEN UnitNames(lb, u) \cap v.out = {}
       ELSE lb.decls[u] = {} => u \in v.out \cup v.failing

(* What a finished build says: code is generated only from text that type  *)
(* checks and has no fault of the generator, and units are passed by the   *)
(* linker only if no call is undefined.                                    *)
Built(lb, v) ==
  /\ v.stage = "generate" => TypeChecks(lb, v.out)
  /\ v.ir => /\ v.stage \in {"finish", "done"} /\ v.failing = {}
             /\ TypeChecks(lb, v.out) /\ GenFaults(lb, v.out) = {}
  /\ v.stage = "done" => \A u \in Units(lb) : v.link[u] = "passed" => Undefined(lb, v.out) = {}
  /\ v.stage # "done" => \A u \in Units(lb) : v.link[u] = "not_run"

(* A type error that is taken for the unit's own: a fault of its text, a   *)
(* name that the project does not define, or one whose loss is not noticed.*)
OwnCause(lb, u, out) ==
  \/ \E f \in lb.faults : f.of \in UnitNames(lb, u) /\ f.stage = "check"
  \/ \E p \in UnitNames(lb, u) :
       lb.uses[p] \cap (lb.missing \cup (Gone(lb, out) \cap Unnoticed(lb))) # {}
(* A unit with declarations in shared lists and a fault that is reported   *)
(* without its line.                                                       *)
HidesFault(lb, u) ==
  lb.decls[u] # {} /\ \E f \in lb.faults : /\ f.of \in UnitNames(lb, u) /\ f.stage = "check"
                                           /\ f.form \in {"unlocated", "mute"}
(* The unit mentions a name that is lost, at some distance, with the       *)
(* blanked text.                                                           *)
SinksWith(lb, u, out) == Mentions(lb, u) \cap Sunk(lb, Gone(lb, out)) # {}
(* Every rejection has the cause that its reason names.                    *)
Caused(lb, v) ==
  \A u \in Units(lb) :
    /\ v.status[u] = "type_error" =>
         OwnCause(lb, u, v.out) \/ \E w \in Units(lb) : v.status[w] # "ok" /\ HidesFault(lb, w)
    /\ v.status[u] = "depends_on_unsupported" =>
         SinksWith(lb, u, v.out) \/ (v.decls = {} /\ SinksWith(lb, u, v.out \cup v.failing))

(* The invariant of a validation.                                          *)
ValidOk(lb, v) == ValidShape(lb, v) /\ Withdrawn(lb, v) /\ Built(lb, v) /\ Caused(lb, v)

(* One round by which the loss of a name spreads.                          *)
Sinking(lb, names) ==
  LET next == {p \in Parts(lb) : lb.uses[p] \cap names # {}}
  IN  names \cup next \cup Extras(lb, next)
(* The rounds by which the loss of a name spreads.                         *)
IsSinking(under, lb, gone) ==
  /\ under[0] = gone
  /\ \A k \in 0 .. CascadeLimit : k # 0 =>
       under[k] = Sinking(lb, under[k - 1])
  /\ Sunk(lb, gone) = under[CascadeLimit]

(* What the recursion of Sunk gives.                                       *)
LEMMA SunkIs ==
  ASSUME NEW lb, NEW gone
  PROVE  \E under : IsSinking(under, lb, gone)
<1> DEFINE D == SUBSET (gone \cup Parts(lb) \cup Extras(lb, Parts(lb)))
           next(x) == Sinking(lb, x)
           g == [p \in Nat \X D |-> next(p[2])]
           R(f) == f = [k \in 0 .. CascadeLimit |-> IF k = 0 THEN gone ELSE next(f[k - 1])]
           under == CHOOSE f : R(f)
<1>0. CascadeLimit \in Nat  BY BuildAssumption
<1>1. g \in [Nat \X D -> D]
  <2>1. ASSUME NEW p \in Nat \X D PROVE next(p[2]) \in D  BY DEF Sinking, Extras
  <2> HIDE DEF next
  <2> QED  BY <2>1
<1>2. PICK f : IsIteration(f, D, gone, g, CascadeLimit)
  <2>1. gone \in D  OBVIOUS
  <2> HIDE DEF g, D
  <2> QED  BY <1>0, <1>1, <2>1, Iterates
<1>3. R(f)
  <2>1. ASSUME NEW i \in 0 .. CascadeLimit, i # 0 PROVE f[i] = next(f[i - 1])
    <3>1. i \in 1 .. CascadeLimit /\ i \in Nat /\ i - 1 \in 0 .. CascadeLimit  BY <1>0, <2>1
    <3>2. f[i - 1] \in D  BY <3>1, <1>2 DEF IsIteration
    <3>3. <<i, f[i - 1]>> \in Nat \X D  BY <3>1, <3>2
    <3>4. g[<<i, f[i - 1]>>] = next(f[i - 1])  BY <3>3
    <3> QED  BY <1>2, <3>1, <3>4 DEF IsIteration
  <2> HIDE DEF next, D
  <2> QED  BY <1>2, <2>1 DEF IsIteration
<1>4. R(under)
  <2> HIDE DEF R
  <2> QED  BY <1>3
<1>5. under[0] = gone /\ \A k \in 0 .. CascadeLimit : k # 0 => under[k] = next(under[k - 1])
  <2> HIDE DEF next, under
  <2>1. under = [k \in 0 .. CascadeLimit |-> IF k = 0 THEN gone ELSE next(under[k - 1])]  BY <1>4
  <2>2. 0 \in 0 .. CascadeLimit  BY <1>0
  <2> QED  BY <2>1, <2>2
<1>6. Sunk(lb, gone) = under[CascadeLimit]  BY DEF Sunk, Sinking
<1> HIDE DEF under
<1> QED  BY <1>5, <1>6 DEF IsSinking

(* More lost names sink more names, themselves among them.                 *)
LEMMA SunkGrows ==
  ASSUME NEW lb, NEW less, NEW more, less \subseteq more
  PROVE  Sunk(lb, less) \subseteq Sunk(lb, more) /\ more \subseteq Sunk(lb, more)
<1>0. CascadeLimit \in Nat  BY BuildAssumption
<1>1. PICK a : IsSinking(a, lb, less)  BY SunkIs
<1>2. PICK b : IsSinking(b, lb, more)  BY SunkIs
<1> DEFINE Good == {k \in Nat : k <= CascadeLimit => a[k] \subseteq b[k] /\ more \subseteq b[k]}
<1> USE DEF IsSinking
<1>3. 0 \in Good  BY <1>1, <1>2
<1>4. ASSUME NEW k \in Nat, k \in Good PROVE k + 1 \in Good
  <2> SUFFICES ASSUME k + 1 <= CascadeLimit PROVE a[k + 1] \subseteq b[k + 1] /\ more \subseteq b[k + 1]
    OBVIOUS
  <2>1. k + 1 \in 0 .. CascadeLimit /\ k + 1 # 0 /\ (k + 1) - 1 = k /\ k <= CascadeLimit  BY <1>0
  <2>2. a[k] \subseteq b[k] /\ more \subseteq b[k]  BY <1>4, <2>1
  <2>3. a[k + 1] = Sinking(lb, a[k])  BY <1>1, <2>1
  <2>4. b[k + 1] = Sinking(lb, b[k])  BY <1>2, <2>1
  <2> QED  BY <2>2, <2>3, <2>4 DEF Sinking, Extras
<1>5. CascadeLimit \in Good
  <2> HIDE DEF Good
  <2> QED  BY <1>0, <1>3, <1>4, SetInduction
<1> QED  BY <1>0, <1>1, <1>2, <1>5

(* A unit that sinks with some text sinks with more of it.                 *)
LEMMA SinksGrow ==
  ASSUME NEW lb, NEW u, NEW less, NEW more, less \subseteq more, SinksWith(lb, u, less)
  PROVE  SinksWith(lb, u, more)
<1>1. Sunk(lb, Gone(lb, less)) \subseteq Sunk(lb, Gone(lb, more))  BY GoneGrows, SunkGrows
<1> QED  BY <1>1 DEF SinksWith

(* A unit that mentions a blanked name sinks with it.                      *)
LEMMA MentionSinks ==
  ASSUME NEW lb, NEW u, NEW out, NEW n \in Mentions(lb, u), n \in Gone(lb, out)
  PROVE  SinksWith(lb, u, out)
  BY SunkGrows DEF SinksWith

(* Only text of the library is blanked.                                    *)
LEMMA OffIn ==
  ASSUME NEW lb, NEW out, out \subseteq Parts(lb) \cup lb.loose
  PROVE  Off(lb, out) \subseteq Parts(lb) \cup lb.loose
<1> SUFFICES ASSUME NEW u \in Units(lb) PROVE lb.decls[u] \subseteq Parts(lb)  BY DEF Off
<1> QED  BY DEF Parts, UnitNames

(* A unit none of whose text is blanked and that has a noted word sinks    *)
(* with it: the word is none of its own names.                             *)
LEMMA WordSinks ==
  ASSUME NEW lb, Assembled(lb), NEW out, out \subseteq Parts(lb) \cup lb.loose, NEW u \in Units(lb),
         UnitNames(lb, u) \cap out = {}, NEW n \in WordsOf(lb, u), n \in Noted(lb, out)
  PROVE  SinksWith(lb, u, out)
<1>1. n \in Off(lb, out)  BY NotedAre
<1>2. n \notin UnitNames(lb, u)  BY <1>1, WholeStays
<1>3. n \in Parts(lb) \cup lb.loose  BY <1>1, OffIn
<1>4. n \notin Extras(lb, UnitNames(lb, u))  BY <1>3 DEF Assembled, DistinctPlaces, Extras, Parts
<1>5. n \in Mentions(lb, u)  BY <1>2, <1>4 DEF WordsOf
<1>6. n \in Gone(lb, out)  BY <1>1, GoneHas
<1> QED  BY <1>5, <1>6, MentionSinks

(* A validation begins with every unit accepted and nothing blanked.       *)
LEMMA ValidBegin ==
  ASSUME NEW lb, Assembled(lb) PROVE ValidOk(lb, Begin(lb))
<1> DEFINE v == Begin(lb)
<1>1. v.out = Units(lb) \cap lb.barred /\ v.failing = {} /\ v.decls = {} /\ v.lines = {} /\ v.ir = FALSE
      /\ v.stage = "check" /\ v.start = 0
      /\ v.link = [u \in Units(lb) |-> "not_run"]
      /\ v.status = [u \in Units(lb) |-> IF u \in lb.barred THEN "unsupported_construct" ELSE "ok"]
      /\ DOMAIN v = ValidFields
  BY DEF Begin, ValidFields
<1> HIDE DEF v
<1>2. \A u \in Units(lb) : u \in Parts(lb)  BY NamesAreParts
<1>3. ValidShape(lb, v)
  <2>1. v.out \cap lb.loose = {}  BY <1>1 DEF Assembled, DistinctPlaces, UnitNames
  <2> QED  BY <1>1, <1>2, <2>1 DEF ValidShape
<1>4. Withdrawn(lb, v)
  <2>1. ASSUME NEW u \in Units(lb), v.status[u] = "ok" PROVE UnitNames(lb, u) \cap v.out = {}
    <3>1. u \notin v.out  BY <1>1, <2>1
    <3> QED  BY <1>1, <3>1 DEF UnitNames, Assembled, DistinctPlaces
  <2>2. \A u \in Units(lb) : v.status[u] # "ok" => u \in v.out  BY <1>1
  <2> QED  BY <1>1, <2>1, <2>2 DEF Withdrawn
<1>5. Built(lb, v)  BY <1>1 DEF Built
<1>6. Caused(lb, v)  BY <1>1 DEF Caused
<1> QED  BY <1>3, <1>4, <1>5, <1>6 DEF ValidOk, v

(* The mark of a diagnostic that refers to no name is never taken for a    *)
(* blanked name.                                                           *)
LEMMA NoneIsNoName ==
  ASSUME NEW lb, Assembled(lb), NEW out, out \subseteq Parts(lb) \cup lb.loose
  PROVE  "none" \notin Gone(lb, out)
<1>1. "none" \notin Parts(lb)  BY DEF Assembled, DistinctPlaces, Parts
<1>2. "none" \notin lb.loose  BY DEF Assembled
<1>3. "none" \notin Off(lb, out)  BY <1>1, <1>2, OffIn
<1>4. "none" \notin Extras(lb, Off(lb, out))  BY DEF Assembled, DistinctPlaces, Extras, Parts
<1> QED  BY <1>3, <1>4 DEF Gone

(* A located diagnostic is at a part that is left: a fault of its own or a *)
(* use of a name that is blanked or missing.                               *)
LEMMA DiagnosticIs ==
  ASSUME NEW lb, NEW out, NEW d \in Diagnostics(lb, out)
  PROVE  /\ d.part \in Parts(lb) \ Off(lb, out) /\ ~CheckPanics(lb, out)
         /\ \/ /\ d.refers = "none"
               /\ \E f \in Live(lb, out, "check") : f.of = d.part /\ f.form = "located"
            \/ d.refers \in lb.uses[d.part] \cap (Gone(lb, out) \cup lb.missing)
<1> DEFINE here == Parts(lb) \ Off(lb, out)
           absent == Gone(lb, out) \cup lb.missing
<1>1. ~CheckPanics(lb, out)  BY DEF Diagnostics
<1>2. \/ \E f \in {g \in Live(lb, out, "check") : g.form = "located"} : d = [part |-> f.of, refers |-> "none"]
      \/ \E p \in here : \E n \in lb.uses[p] \cap absent : d = [part |-> p, refers |-> n]
  BY <1>1 DEF Diagnostics
<1>3. \A f \in Live(lb, out, "check") : f.of \in here  BY DEF Live
<1> QED  BY <1>1, <1>2, <1>3

(* Judging diagnostics rejects the accepted units that they are located in,*)
(* with the reason of one of their diagnostics, and no other unit.         *)
LEMMA JudgedIs ==
  ASSUME NEW val, NEW seen, NEW st \in Judged(val, seen)
  PROVE  /\ DOMAIN st = Units(lib)
         /\ \A u \in Units(lib) :
              \/ /\ st[u] = val.status[u]
                 /\ val.status[u] = "ok" => \A d \in seen : UnitOf(lib, d.part) # u
              \/ /\ val.status[u] = "ok"
                 /\ \E d \in seen : /\ UnitOf(lib, d.part) = u
                                    /\ st[u] = IF d.refers \in Noted(lib, val.out)
                                               THEN "depends_on_unsupported" ELSE "type_error"
<1> DEFINE of(u) == {d \in seen : UnitOf(lib, d.part) = u}
           fresh == {u \in Units(lib) : val.status[u] = "ok" /\ of(u) # {}}
           verdict(d) == IF d.refers \in Noted(lib, val.out)
                    THEN "depends_on_unsupported" ELSE "type_error"
<1>1. PICK first \in {f \in [fresh -> seen] : \A u \in fresh : f[u] \in of(u)} :
        st = [u \in Units(lib) |-> IF u \in fresh THEN verdict(first[u]) ELSE val.status[u]]
  BY DEF Judged
<1>2. DOMAIN st = Units(lib)  BY <1>1
<1>3. ASSUME NEW u \in Units(lib), u \notin fresh
      PROVE  st[u] = val.status[u] /\ (val.status[u] = "ok" => \A d \in seen : UnitOf(lib, d.part) # u)
  <2>1. st[u] = val.status[u]
    <3> HIDE DEF fresh, verdict
    <3> QED  BY <1>1, <1>3
  <2> QED  BY <2>1, <1>3
<1>4. ASSUME NEW u \in Units(lib), u \in fresh
      PROVE  /\ val.status[u] = "ok"
             /\ \E d \in seen : UnitOf(lib, d.part) = u /\ st[u] = verdict(d)
  <2>1. st[u] = verdict(first[u])
    <3> HIDE DEF fresh, verdict
    <3> QED  BY <1>1, <1>4
  <2>2. first[u] \in of(u)
    <3> HIDE DEF fresh, of
    <3> QED  BY <1>1, <1>4
  <2> HIDE DEF verdict
  <2> QED  BY <2>1, <2>2, <1>4
<1> HIDE DEF fresh
<1> QED  BY <1>2, <1>3, <1>4

(* The unit a prefix search ends at holds an error without position, or a  *)
(* list that was blanked in part does.                                     *)
LEMMA PrefixCause ==
  ASSUME Assembled(lib), ValidOk(lib, valid), valid.stage = "check",
         CulpritPrefix(Active(valid), valid.out,
                       [o \in Blankings(lib) |-> Unlocated(lib, o) # {}], 0) # 0
  PROVE  LET c == CulpritPrefix(Active(valid), valid.out,
                                [o \in Blankings(lib) |-> Unlocated(lib, o) # {}], 0)
         IN  /\ c \in 1 .. Len(Active(valid)) /\ Active(valid)[c] \in Ok(valid, Units(lib))
             /\ \/ OwnCause(lib, Active(valid)[c], valid.out)
                \/ \E w \in Units(lib) : valid.status[w] # "ok" /\ HidesFault(lib, w)
<1> DEFINE active == Active(valid)
           fails == [o \in Blankings(lib) |-> Unlocated(lib, o) # {}]
           c == CulpritPrefix(active, valid.out, fails, 0)
           without(k) == LeftOf(active, valid.out, k)
<1>0. active \in Seq(Ok(valid, Units(lib)))
      /\ \A u \in Ok(valid, Units(lib)) : \E k \in 1 .. Len(active) : active[k] = u
  BY ActiveAre
<1>1. /\ c \in 1 .. Len(active) /\ active[c] \in Ok(valid, Units(lib)) /\ c - 1 \in Nat /\ fails[valid.out]
      /\ c = Len(active) \/ fails[without(c)]
      /\ c = 1 \/ ~fails[without(c - 1)]
  <2>1. c # 0 /\ 0 \in Nat /\ 0 + 1 = 1  OBVIOUS
  <2> HIDE DEF active, fails
  <2>2. c = CulpritPrefix(active, valid.out, fails, 0)  OBVIOUS
  <2> HIDE DEF c
  <2> QED  BY <1>0, <2>1, <2>2, CulpritIs
<1> HIDE DEF c
<1>2. Len(active) \in Nat  BY <1>0
<1>3. \A k \in Nat : without(k) \in Blankings(lib)
  <2>1. \A i \in 1 .. Len(active) : active[i] \in Parts(lib)
    <3> HIDE DEF active
    <3>1. \A i \in 1 .. Len(active) : active[i] \in Units(lib)  BY <1>0 DEF Ok
    <3> QED  BY <3>1, NamesAreParts
  <2>2. valid.out \subseteq Parts(lib) \cup lib.loose  BY DEF ValidOk, ValidShape
  <2> HIDE DEF active
  <2>3. ASSUME NEW k \in Nat PROVE without(k) \subseteq Parts(lib) \cup lib.loose
    BY <1>2, <2>1, <2>2 DEF LeftOf
  <2> QED  BY <2>3 DEF Blankings
<1> HIDE DEF active
<1>4. without(Len(active)) = valid.out  BY <1>2 DEF LeftOf
<1>5. Unlocated(lib, without(c)) # {}
  <2>1. fails[without(c)]  BY <1>1, <1>4
  <2>2. c \in Nat  BY <1>1, <1>2
  <2> HIDE DEF without
  <2> QED  BY <1>3, <2>1, <2>2
<1>6. c = 1 \/ Unlocated(lib, without(c - 1)) = {}
  <2>1. c - 1 \in Nat /\ without(c - 1) \in Blankings(lib)  BY <1>1, <1>3
  <2>2. c = 1 \/ ~fails[without(c - 1)]
    <3> HIDE DEF fails
    <3> QED  BY <1>1
  <2>3. fails[without(c - 1)] = (Unlocated(lib, without(c - 1)) # {})
    <3> HIDE DEF without
    <3> QED  BY <2>1
  <2> HIDE DEF fails, without
  <2> QED  BY <2>2, <2>3
<1>7. PICK f \in Live(lib, without(c), "check") : f.form \in {"unlocated", "mute"} /\ ~CheckPanics(lib, without(c))
  BY <1>5 DEF Unlocated
<1>8. f \in lib.faults /\ f.stage = "check" /\ f.of \in Parts(lib) \ Off(lib, without(c))
  BY DEF Live
<1>9. CASE f.of \in UnitNames(lib, active[c])
  <2>1. OwnCause(lib, active[c], valid.out)  BY <1>8, <1>9 DEF OwnCause
  <2> QED  BY <1>1, <2>1 DEF c, active
<1>10. CASE f.of \notin UnitNames(lib, active[c])
  <2>1. without(c - 1) = without(c) \cup {active[c]}
    <3>1. \A i : i \in ((c - 1) + 1) .. Len(active) <=> i = c \/ i \in (c + 1) .. Len(active)  BY <1>1, <1>2
    <3> QED  BY <3>1 DEF LeftOf
  <2> DEFINE more == without(c - 1)
             less == without(c)
  <2>2. Off(lib, more) \subseteq Off(lib, less) \cup UnitNames(lib, active[c])
    <3> HIDE DEF less, more
    <3>1. more = less \cup {active[c]}  BY <2>1 DEF less, more
    <3> QED  BY <3>1 DEF Off, UnitNames
  <2>3. f \in Live(lib, more, "check")
    <3> HIDE DEF less, more
    <3>1. f.of \in Parts(lib) \ Off(lib, more)  BY <2>2, <1>8, <1>10 DEF less
    <3> QED  BY <3>1, <1>7, <1>8 DEF Live
  <2>4. ~CheckPanics(lib, more)
    <3> HIDE DEF less, more
    <3>1. less \subseteq more  BY <2>1 DEF less, more
    <3> QED  BY <3>1, <1>7, PanicsShrink DEF less
  <2>5. f \in Unlocated(lib, more)  BY <2>3, <2>4, <1>7 DEF Unlocated
  <2>6. c = 1  BY <2>5, <1>6
  <2>7. Ok(valid, Units(lib)) \subseteq more
    <3> SUFFICES ASSUME NEW u \in Ok(valid, Units(lib)) PROVE u \in more  OBVIOUS
    <3>1. PICK k \in 1 .. Len(active) : active[k] = u  BY <1>0 DEF active
    <3>2. k \in ((c - 1) + 1) .. Len(active)  BY <2>6, <1>2
    <3> QED  BY <3>1, <3>2 DEF LeftOf
  <2>8. f.of \notin Off(lib, more)  BY <2>3 DEF Live
  <2>9. PICK w \in Units(lib) : f.of \in UnitNames(lib, w)  BY <1>8 DEF Parts
  <2> HIDE DEF more
  <2>10. w \notin more  BY <2>8, <2>9 DEF Off, UnitNames
  <2>11. valid.status[w] # "ok"  BY <2>7, <2>10 DEF Ok
  <2>12. w \notin valid.out  BY <2>10 DEF more, LeftOf
  <2>13. valid.failing = {}  BY DEF ValidOk, ValidShape
  <2>14. lib.decls[w] # {}  BY <2>11, <2>12, <2>13 DEF ValidOk, Withdrawn
  <2>15. HidesFault(lib, w)  BY <2>9, <2>14, <1>7, <1>8 DEF HidesFault
  <2>16. \E x \in Units(lib) : valid.status[x] # "ok" /\ HidesFault(lib, x)  BY <2>11, <2>15
  <2> QED  BY <1>1, <2>16 DEF c, active
<1> QED  BY <1>9, <1>10

(* One round of the type check keeps the invariant: located errors reject  *)
(* the units they are in, an unlocated one the culprit of the prefix       *)
(* search.                                                                 *)
LEMMA ValidCheck ==
  ASSUME Assembled(lib), ValidOk(lib, valid), CheckUnits PROVE ValidOk(lib, valid')
<1> DEFINE seen == Diagnostics(lib, valid.out)
           hit == {UnitOf(lib, d.part) : d \in seen}
           lines == Loose(lib, valid.out)
           silent == Unlocated(lib, valid.out)
           clean == seen = {} /\ lines = {} /\ silent = {} /\ lib.compat # "error"
           panic == CheckPanics(lib, valid.out)
           active == Active(valid)
           unlocated == [o \in Blankings(lib) |-> Unlocated(lib, o) # {}]
           search == (silent # {} \/ lib.compat = "error") /\ hit = {} /\ lines = {} /\ ~panic
           culprit == IF search THEN CulpritPrefix(active, valid.out, unlocated, 0) ELSE 0
           conf == valid.conf \cup (IF clean /\ ~panic /\ lib.compat = "exit" THEN {"COMPILER_EXIT"} ELSE {})
                        \cup (IF search /\ culprit = 0 THEN {"unlocated"} ELSE {})
<1> USE DEF ValidFields
<1>1. PICK st \in Judged(valid, seen) :
        valid' = [valid EXCEPT !.status = IF culprit = 0 THEN st
                                     ELSE [st EXCEPT ![active[culprit]] = "type_error"],
                          !.failing = IF culprit = 0 THEN hit ELSE {active[culprit]},
                          !.decls = {d.part : d \in seen} \ Units(lib),
                          !.lines = lines, !.orphans = @ \cup lines, !.conf = conf,
                          !.refs = @ \cup {[unit |-> UnitOf(lib, d.part), name |-> d.refers] :
                                              d \in {e \in seen : e.refers # "none"}},
                          !.panic = IF panic THEN "check" ELSE "none",
                          !.stage = IF panic THEN "panic"
                                    ELSE IF clean /\ conf = {} THEN "generate" ELSE "blank"]
  BY Zenon DEF CheckUnits
<1>2. valid.stage = "check" /\ lib' = lib  BY DEF CheckUnits
<1>3. DOMAIN valid = ValidFields  BY DEF ValidOk, ValidShape
<1>4. /\ DOMAIN valid' = ValidFields /\ valid'.out = valid.out /\ valid'.start = valid.start
      /\ valid'.ir = valid.ir /\ valid'.link = valid.link
      /\ valid'.status = (IF culprit = 0 THEN st ELSE [st EXCEPT ![active[culprit]] = "type_error"])
      /\ valid'.failing = (IF culprit = 0 THEN hit ELSE {active[culprit]})
      /\ valid'.decls = {d.part : d \in seen} \ Units(lib)
      /\ valid'.lines = lines /\ valid'.orphans = valid.orphans \cup lines
      /\ valid'.stage = (IF panic THEN "panic" ELSE IF clean /\ conf = {} THEN "generate" ELSE "blank")
  <2> HIDE DEF seen, hit, lines, clean, panic, active, culprit, conf
  <2> QED  BY <1>1, <1>3
<1>5. \A d \in seen : d.part \in Parts(lib)  BY DiagnosticIs
<1>6. \A d \in seen : UnitOf(lib, d.part) \in Units(lib) /\ d.part \in UnitNames(lib, UnitOf(lib, d.part))
  <2> HIDE DEF seen
  <2> QED  BY <1>5, UnitOfHas
<1>7. /\ DOMAIN st = Units(lib)
      /\ \A u \in Units(lib) :
              \/ /\ st[u] = valid.status[u]
                 /\ valid.status[u] = "ok" => \A d \in seen : UnitOf(lib, d.part) # u
              \/ /\ valid.status[u] = "ok"
                 /\ \E d \in seen : /\ UnitOf(lib, d.part) = u
                                    /\ st[u] = IF d.refers \in Noted(lib, valid.out)
                                               THEN "depends_on_unsupported" ELSE "type_error"
  <2> HIDE DEF seen
  <2> QED  BY JudgedIs
<1>8. culprit # 0 => /\ hit = {} /\ seen = {}
                     /\ culprit = CulpritPrefix(active, valid.out, unlocated, 0)
  <2> HIDE DEF seen, lines, silent, panic, active, unlocated
  <2> QED  OBVIOUS
<1>9. culprit # 0 => /\ active[culprit] \in Ok(valid, Units(lib))
                     /\ \/ OwnCause(lib, active[culprit], valid.out)
                        \/ \E w \in Units(lib) : valid.status[w] # "ok" /\ HidesFault(lib, w)
  <2> SUFFICES ASSUME culprit # 0
               PROVE  /\ active[culprit] \in Ok(valid, Units(lib))
                      /\ \/ OwnCause(lib, active[culprit], valid.out)
                         \/ \E w \in Units(lib) : valid.status[w] # "ok" /\ HidesFault(lib, w)
    OBVIOUS
  <2>1. culprit = CulpritPrefix(active, valid.out, unlocated, 0)  BY <1>8
  <2> HIDE DEF culprit
  <2> QED  BY <2>1, <1>2, PrefixCause
<1>10. valid'.stage = "generate" => /\ seen = {} /\ lines = {} /\ silent = {} /\ ~panic /\ culprit = 0
                                    /\ lib.compat \in {"ok", "gen"}
  <2>1. lib.compat \in {"ok", "error", "exit", "panic", "gen"}  BY DEF Assembled
  <2>2. lib.compat = "panic" => panic  BY DEF CheckPanics
  <2> SUFFICES ASSUME valid'.stage = "generate"
               PROVE /\ seen = {} /\ lines = {} /\ silent = {} /\ ~panic /\ culprit = 0
                     /\ lib.compat \in {"ok", "gen"}
    OBVIOUS
  <2>3. ~panic /\ clean /\ conf = {}
    <3> HIDE DEF panic, clean, conf
    <3> QED  BY <1>4
  <2>4. seen = {} /\ lines = {} /\ silent = {} /\ lib.compat # "error"  BY <2>3
  <2>5. ~search  BY <2>4
  <2>6. lib.compat # "exit"
    <3> HIDE DEF panic, clean, culprit, search
    <3> QED  BY <2>3
  <2> HIDE DEF panic, seen, lines, silent, search
  <2> QED  BY <2>1, <2>2, <2>3, <2>4, <2>5, <2>6
<1>11. valid.failing = {}  BY <1>2 DEF ValidOk, ValidShape
<1>12. DOMAIN valid'.status = Units(lib)
       /\ \A u \in Units(lib) : valid'.status[u] = IF culprit # 0 /\ u = active[culprit] THEN "type_error" ELSE st[u]
  <2> HIDE DEF culprit, active
  <2>1. culprit # 0 => active[culprit] \in Units(lib)  BY <1>9 DEF Ok
  <2> QED  BY <1>4, <1>7, <2>1
<1>13. \A u \in Units(lib) : valid.status[u] # "ok" => valid'.status[u] # "ok" /\ valid'.status[u] = valid.status[u]
  <2> HIDE DEF culprit, active, seen
  <2>1. culprit # 0 => valid.status[active[culprit]] = "ok"  BY <1>9 DEF Ok
  <2> QED  BY <1>7, <1>12, <2>1
<1>14. ValidShape(lib, valid')
  <2>1. valid'.failing \subseteq Units(lib)
    <3> HIDE DEF culprit, active, seen
    <3>1. hit \subseteq Units(lib)  BY <1>6
    <3>2. culprit # 0 => active[culprit] \in Units(lib)  BY <1>9 DEF Ok
    <3> HIDE DEF hit
    <3> QED  BY <1>4, <3>1, <3>2
  <2>2. lines \subseteq lib.loose  BY DEF Loose
  <2>3. valid'.stage = "generate" => valid'.failing = {} /\ valid'.decls = {}
    <3> SUFFICES ASSUME valid'.stage = "generate" PROVE valid'.failing = {} /\ valid'.decls = {}  OBVIOUS
    <3>1. seen = {} /\ culprit = 0  BY <1>10
    <3> HIDE DEF seen, culprit
    <3> QED  BY <1>4, <3>1
  <2>4. valid'.stage \in {"panic", "generate", "blank"}
    <3> HIDE DEF panic, clean, conf
    <3> QED  BY <1>4
  <2>5. valid'.lines = lines /\ valid'.orphans = valid.orphans \cup lines
    <3> HIDE DEF lines
    <3> QED  BY <1>4
  <2>6. DOMAIN valid' = ValidFields /\ valid'.out = valid.out /\ valid'.start = valid.start  BY <1>4
  <2> HIDE DEF lines
  <2> QED  BY <1>12, <2>1, <2>2, <2>3, <2>4, <2>5, <2>6 DEF ValidOk, ValidShape
<1>15. Withdrawn(lib, valid')
  <2>1. ASSUME NEW u \in valid'.failing PROVE valid'.status[u] # "ok"
    <3>1. CASE culprit # 0
      <4>1. u = active[culprit] /\ u \in Units(lib)
        <5> HIDE DEF culprit, active
        <5> QED  BY <1>4, <1>9, <2>1, <3>1 DEF Ok
      <4> HIDE DEF culprit, active
      <4> QED  BY <4>1, <1>12, <3>1
    <3>2. CASE culprit = 0
      <4>1. u \in hit
        <5> HIDE DEF culprit, active, hit
        <5> QED  BY <1>4, <2>1, <3>2
      <4>2. PICK d \in seen : u = UnitOf(lib, d.part)  BY <4>1
      <4>3. u \in Units(lib)  BY <1>6, <4>2
      <4> HIDE DEF culprit, active, seen
      <4>4. valid'.status[u] = st[u]  BY <1>12, <3>2, <4>3
      <4>5. st[u] # "ok"  BY <1>7, <4>2, <4>3
      <4> QED  BY <4>4, <4>5
    <3> QED  BY <3>1, <3>2
  <2>2. ASSUME NEW u \in Units(lib), valid'.status[u] = "ok" PROVE UnitNames(lib, u) \cap valid'.out = {}
    <3>1. valid.status[u] = "ok"  BY <1>13, <2>2
    <3> QED  BY <3>1, <1>4 DEF ValidOk, Withdrawn
  <2>3. ASSUME NEW u \in Units(lib), valid'.status[u] # "ok", lib.decls[u] = {}
        PROVE  u \in valid'.out \cup valid'.failing
    <3>1. CASE valid.status[u] # "ok"
      <4>1. u \in valid.out  BY <1>11, <2>3, <3>1 DEF ValidOk, Withdrawn
      <4> QED  BY <4>1, <1>4
    <3>2. CASE valid.status[u] = "ok" /\ culprit # 0
      <4>1. hit = {} /\ seen = {}  BY <1>8, <3>2
      <4>2. valid'.failing = {active[culprit]}
        <5> HIDE DEF culprit, active
        <5> QED  BY <1>4, <3>2
      <4> HIDE DEF culprit, active, seen
      <4>3. u # active[culprit] => st[u] # "ok"  BY <1>12, <2>3
      <4>4. st[u] = "ok"  BY <1>7, <3>2, <4>1
      <4> QED  BY <4>2, <4>3, <4>4
    <3>3. CASE valid.status[u] = "ok" /\ culprit = 0
      <4>1. valid'.failing = hit
        <5> HIDE DEF culprit, active, hit
        <5> QED  BY <1>4, <3>3
      <4>2. \E d \in seen : UnitOf(lib, d.part) = u
        <5> HIDE DEF culprit, active, seen
        <5>1. st[u] # "ok"  BY <1>12, <2>3, <3>3
        <5> QED  BY <1>7, <3>3, <5>1
      <4> QED  BY <4>1, <4>2
    <3> QED  BY <3>1, <3>2, <3>3
  <2> QED  BY <2>1, <2>2, <2>3 DEF Withdrawn
<1>16. Built(lib, valid')
  <2>1. ~valid.ir  BY <1>2 DEF ValidOk, Built
  <2>2. valid'.stage = "generate" => TypeChecks(lib, valid'.out)
    <3>1. valid'.out = valid.out  BY <1>4
    <3> QED  BY <1>10, <3>1 DEF TypeChecks
  <2>3. valid'.stage # "done"
    <3> HIDE DEF panic, clean, conf
    <3> QED  BY <1>4
  <2>4. \A u \in Units(lib) : valid'.link[u] = "not_run"  BY <1>2, <1>4 DEF ValidOk, Built
  <2>5. ~valid'.ir  BY <1>4, <2>1
  <2> QED  BY <2>2, <2>3, <2>4, <2>5 DEF Built
<1>17. Caused(lib, valid')
  <2>0. (\E w \in Units(lib) : valid.status[w] # "ok" /\ HidesFault(lib, w))
          => \E w \in Units(lib) : valid'.status[w] # "ok" /\ HidesFault(lib, w)
    BY <1>13
  <2>1. ASSUME NEW u \in Units(lib), valid'.status[u] = "type_error"
        PROVE  OwnCause(lib, u, valid.out) \/ \E w \in Units(lib) : valid'.status[w] # "ok" /\ HidesFault(lib, w)
    <3>1. CASE valid.status[u] # "ok"
      <4>1. valid.status[u] = "type_error"  BY <1>13, <2>1, <3>1
      <4> QED  BY <4>1, <2>0 DEF ValidOk, Caused
    <3>2. CASE culprit # 0 /\ u = active[culprit]  BY <1>9, <2>0, <3>2
    <3>3. CASE valid.status[u] = "ok" /\ ~(culprit # 0 /\ u = active[culprit])
      <4>1. st[u] = "type_error"
        <5> HIDE DEF culprit, active
        <5> QED  BY <1>12, <2>1, <3>3
      <4>2. PICK d \in seen : UnitOf(lib, d.part) = u /\ d.refers \notin Noted(lib, valid.out)
        <5> HIDE DEF seen
        <5> QED  BY <1>7, <3>3, <4>1
      <4>3. d.part \in UnitNames(lib, u)  BY <1>6, <4>2
      <4>4. \/ /\ d.refers = "none"
               /\ \E f \in Live(lib, valid.out, "check") : f.of = d.part /\ f.form = "located"
            \/ d.refers \in lib.uses[d.part] \cap (Gone(lib, valid.out) \cup lib.missing)
        BY DiagnosticIs
      <4>5. ASSUME NEW f \in Live(lib, valid.out, "check"), f.of = d.part PROVE OwnCause(lib, u, valid.out)
        BY <4>3, <4>5 DEF Live, OwnCause
      <4>6. CASE d.refers \in lib.uses[d.part] \cap lib.missing  BY <4>3, <4>6 DEF OwnCause
      <4>7. CASE d.refers \in lib.uses[d.part] \cap Gone(lib, valid.out)
        <5>1. d.refers \in Unnoticed(lib)  BY <4>2, <4>7, NotedAre
        <5> QED  BY <4>3, <4>7, <5>1 DEF OwnCause
      <4> QED  BY <4>4, <4>5, <4>6, <4>7
    <3> QED  BY <3>1, <3>2, <3>3
  <2>2. ASSUME NEW u \in Units(lib), valid'.status[u] = "depends_on_unsupported"
        PROVE  SinksWith(lib, u, valid'.out)
    <3>0. valid'.out = valid.out  BY <1>4
    <3>1. CASE valid.status[u] # "ok"
      <4>1. valid.status[u] = "depends_on_unsupported"  BY <1>13, <2>2, <3>1
      <4>2. valid.out \cup valid.failing = valid.out  BY <1>11
      <4> QED  BY <4>1, <4>2, <3>0 DEF ValidOk, Caused
    <3>2. CASE valid.status[u] = "ok"
      <4>1. st[u] = "depends_on_unsupported"
        <5> HIDE DEF culprit, active
        <5> QED  BY <1>12, <2>2
      <4>2. PICK d \in seen : UnitOf(lib, d.part) = u /\ d.refers \in Gone(lib, valid.out)
        <5>1. PICK d \in seen : UnitOf(lib, d.part) = u /\ d.refers \in Noted(lib, valid.out)
          <6> HIDE DEF seen
          <6> QED  BY <1>7, <3>2, <4>1
        <5>2. d.refers \in Gone(lib, valid.out)  BY <5>1, NotedAre, GoneHas
        <5> QED  BY <5>1, <5>2
      <4>3. d.part \in UnitNames(lib, u)  BY <1>6, <4>2
      <4>4. d.refers # "none"
        <5>1. valid.out \subseteq Parts(lib) \cup lib.loose  BY DEF ValidOk, ValidShape
        <5> QED  BY <5>1, <4>2, NoneIsNoName
      <4>5. d.refers \in lib.uses[d.part]  BY <4>4, DiagnosticIs
      <4>6. d.refers \in Mentions(lib, u)  BY <4>3, <4>5 DEF Mentions
      <4> QED  BY <4>2, <4>6, <3>0, MentionSinks
    <3> QED  BY <3>1, <3>2
  <2> QED  BY <1>4, <2>1, <2>2 DEF Caused
<1> QED  BY <1>14, <1>15, <1>16, <1>17, Zenon DEF ValidOk

(* The rounds by which leaving out text makes other parts fail.            *)
IsCascade(after, lb, out) ==
  /\ after[0] = out
  /\ \A k \in 0 .. CascadeLimit : k # 0 =>
       after[k] = after[k - 1] \cup {d.part : d \in Diagnostics(lb, after[k - 1])}
  /\ Cascade(lb, out) = after[CascadeLimit]

(* The recursion of Cascade has a solution.                                *)
LEMMA CascadeIs ==
  ASSUME NEW lb, NEW out
  PROVE  \E after : IsCascade(after, lb, out)
<1> DEFINE D == SUBSET (out \cup Parts(lb))
           next(x) == x \cup {d.part : d \in Diagnostics(lb, x)}
           g == [p \in Nat \X D |-> next(p[2])]
           R(f) == f = [k \in 0 .. CascadeLimit |-> IF k = 0 THEN out ELSE next(f[k - 1])]
           after == CHOOSE f : R(f)
<1>0. CascadeLimit \in Nat  BY BuildAssumption
<1>1. g \in [Nat \X D -> D]
  <2>1. ASSUME NEW x \in D PROVE next(x) \in D
    <3>1. \A d \in Diagnostics(lb, x) : d.part \in Parts(lb)  BY DiagnosticIs
    <3> QED  BY <3>1
  <2> HIDE DEF next, D
  <2> QED  BY <2>1
<1>2. PICK f : IsIteration(f, D, out, g, CascadeLimit)
  <2>1. out \in D  OBVIOUS
  <2> HIDE DEF g, D
  <2> QED  BY <1>0, <1>1, <2>1, Iterates
<1>3. R(f)
  <2>1. ASSUME NEW i \in 0 .. CascadeLimit, i # 0 PROVE f[i] = next(f[i - 1])
    <3>1. i \in 1 .. CascadeLimit /\ i \in Nat /\ i - 1 \in 0 .. CascadeLimit  BY <1>0, <2>1
    <3> HIDE DEF next, D
    <3>2. f[i - 1] \in D  BY <3>1, <1>2 DEF IsIteration
    <3>3. <<i, f[i - 1]>> \in Nat \X D  BY <3>1, <3>2
    <3>4. g[<<i, f[i - 1]>>] = next(f[i - 1])  BY <3>3
    <3> HIDE DEF g
    <3> QED  BY <1>2, <3>1, <3>4 DEF IsIteration
  <2> HIDE DEF next, D, g
  <2> QED  BY <1>2, <2>1 DEF IsIteration
<1>4. R(after)
  <2> HIDE DEF R
  <2> QED  BY <1>3
<1>5. after[0] = out /\ \A k \in 0 .. CascadeLimit : k # 0 => after[k] = next(after[k - 1])
  <2> HIDE DEF next, after
  <2>1. after = [k \in 0 .. CascadeLimit |-> IF k = 0 THEN out ELSE next(after[k - 1])]  BY <1>4
  <2>2. 0 \in 0 .. CascadeLimit  BY <1>0
  <2> QED  BY <2>1, <2>2
<1>6. Cascade(lb, out) = after[CascadeLimit]  BY DEF Cascade
<1> HIDE DEF after
<1> QED  BY <1>5, <1>6 DEF IsCascade

(* Text that type checks objects only to what is taken from it.            *)
LEMMA ObjectsToLoss ==
  ASSUME NEW lb, NEW out, TypeChecks(lb, out), NEW more, out \subseteq more, NEW d \in Diagnostics(lb, more)
  PROVE  d.part \in Parts(lb) /\ d.refers \in lb.uses[d.part] \cap Gone(lb, more)
<1>1. d.part \in Parts(lb) \ Off(lb, more)  BY DiagnosticIs
<1>2. d.part \in Parts(lb) \ Off(lb, out)  BY <1>1, GoneGrows
<1>3. Diagnostics(lb, out) = {} /\ ~CheckPanics(lb, out)  BY DEF TypeChecks
<1>4. ASSUME NEW f \in Live(lb, more, "check"), f.form = "located" PROVE FALSE
  <2>1. f \in Live(lb, out, "check")  BY <1>4, LiveShrinks
  <2>2. [part |-> f.of, refers |-> "none"] \in Diagnostics(lb, out)
    BY <1>3, <1>4, <2>1 DEF Diagnostics
  <2> QED  BY <1>3, <2>2
<1>5. ASSUME d.refers \in lb.uses[d.part] \cap lb.missing PROVE FALSE
  <2>1. [part |-> d.part, refers |-> d.refers] \in Diagnostics(lb, out)
    BY <1>2, <1>3, <1>5 DEF Diagnostics
  <2> QED  BY <1>3, <2>1
<1>6. \/ \E f \in Live(lb, more, "check") : f.of = d.part /\ f.form = "located"
      \/ d.refers \in lb.uses[d.part] \cap (Gone(lb, more) \cup lb.missing)
  BY DiagnosticIs
<1> QED  BY <1>1, <1>4, <1>5, <1>6

(* What fails because text was left out uses a name that sank with that    *)
(* text.                                                                   *)
LEMMA CascadeSinks ==
  ASSUME NEW lb, NEW out, TypeChecks(lb, out), NEW start, out \subseteq start, NEW failing,
         Units(lb) \cap Cascade(lb, start) \subseteq failing, start \subseteq failing,
         NEW u \in Cascade(lb, start), u \notin start
  PROVE  lb.uses[u] \cap Sunk(lb, Gone(lb, failing)) # {}
<1>0. CascadeLimit \in Nat  BY BuildAssumption
<1>1. PICK after : IsCascade(after, lb, start)  BY CascadeIs
<1>2. PICK under : IsSinking(under, lb, Gone(lb, failing))  BY SunkIs
<1> DEFINE L == CascadeLimit
           Rises == {k \in Nat : \A i \in 0 .. L : i + k <= L =>
                       after[i] \subseteq after[i + k] /\ under[i] \subseteq under[i + k]}
<1>3. 0 \in Rises  BY <1>0
<1>4. ASSUME NEW k \in Nat, k \in Rises PROVE k + 1 \in Rises
  <2> SUFFICES ASSUME NEW i \in 0 .. L, i + (k + 1) <= L
               PROVE  after[i] \subseteq after[i + (k + 1)] /\ under[i] \subseteq under[i + (k + 1)]
    OBVIOUS
  <2>1. i + k <= L /\ i + (k + 1) \in 0 .. L /\ i + (k + 1) # 0 /\ (i + (k + 1)) - 1 = i + k  BY <1>0
  <2>2. after[i] \subseteq after[i + k] /\ under[i] \subseteq under[i + k]  BY <1>4, <2>1
  <2>3. after[i + k] \subseteq after[i + (k + 1)]  BY <1>1, <2>1 DEF IsCascade
  <2>4. under[i + k] \subseteq under[i + (k + 1)]  BY <1>2, <2>1 DEF IsSinking, Sinking
  <2> QED  BY <2>2, <2>3, <2>4
<1>5. \A k \in Nat : k \in Rises
  <2> HIDE DEF Rises
  <2> QED  BY <1>3, <1>4, SetInduction
<1>6. ASSUME NEW i \in 0 .. L PROVE after[i] \subseteq after[L] /\ under[i] \subseteq under[L] /\ under[0] \subseteq under[i]
  <2>1. L - i \in Nat /\ i + (L - i) = L /\ i \in Nat /\ 0 \in 0 .. L /\ 0 + i = i /\ i <= L  BY <1>0
  <2>2. L - i \in Rises /\ i \in Rises  BY <1>5, <2>1
  <2>3. after[i] \subseteq after[i + (L - i)] /\ under[i] \subseteq under[i + (L - i)]
    <3>1. i + (L - i) <= L  BY <2>1
    <3> QED  BY <2>2, <3>1
  <2>4. under[0] \subseteq under[0 + i]
    <3>1. 0 + i <= L  BY <2>1
    <3> QED  BY <2>1, <2>2, <3>1
  <2> QED  BY <2>1, <2>3, <2>4
<1> DEFINE Good == {k \in Nat : k <= L =>
                      /\ start \subseteq after[k] /\ after[k] \cup Extras(lb, after[k]) \subseteq under[k]
                      /\ \A p \in after[k] : p \in start \/ lb.uses[p] \cap under[L] # {}}
<1>7. 0 \in Good
  <2>1. start \cup Extras(lb, start) \subseteq Gone(lb, failing)
    <3>1. start \subseteq Off(lb, failing)  BY GoneHas
    <3> QED  BY <3>1 DEF Gone, Extras
  <2> QED  BY <1>1, <1>2, <2>1 DEF IsCascade, IsSinking
<1>8. ASSUME NEW k \in Nat, k \in Good PROVE k + 1 \in Good
  <2> SUFFICES ASSUME k + 1 <= L
               PROVE  /\ start \subseteq after[k + 1]
                      /\ after[k + 1] \cup Extras(lb, after[k + 1]) \subseteq under[k + 1]
                      /\ \A p \in after[k + 1] : p \in start \/ lb.uses[p] \cap under[L] # {}
    OBVIOUS
  <2>1. k \in 0 .. L /\ k + 1 \in 0 .. L /\ k + 1 # 0 /\ (k + 1) - 1 = k /\ k <= L  BY <1>0
  <2>2. /\ start \subseteq after[k] /\ after[k] \cup Extras(lb, after[k]) \subseteq under[k]
        /\ \A p \in after[k] : p \in start \/ lb.uses[p] \cap under[L] # {}
    BY <1>8, <2>1
  <2>3. after[k + 1] = after[k] \cup {d.part : d \in Diagnostics(lb, after[k])}  BY <1>1, <2>1 DEF IsCascade
  <2>4. under[k + 1] = Sinking(lb, under[k])  BY <1>2, <2>1 DEF IsSinking
  <2>5. ASSUME NEW d \in Diagnostics(lb, after[k])
        PROVE  d.part \in Parts(lb) /\ d.refers \in lb.uses[d.part] \cap under[k]
    <3>1. out \subseteq after[k]  BY <2>2
    <3>2. d.part \in Parts(lb) /\ d.refers \in lb.uses[d.part] \cap Gone(lb, after[k])  BY <3>1, ObjectsToLoss
    <3>3. CASE d.refers \in after[k]  BY <2>2, <3>2, <3>3
    <3>4. ASSUME NEW w \in Units(lb) \cap after[k] PROVE lb.decls[w] \cup Extras(lb, lb.decls[w]) \subseteq under[k]
      <4>1. after[L] = Cascade(lb, start)  BY <1>1 DEF IsCascade
      <4>2. w \in failing  BY <4>1, <1>6, <2>1
      <4>3. lb.decls[w] \subseteq Off(lb, failing)  BY <4>2 DEF Off
      <4>4. lb.decls[w] \cup Extras(lb, lb.decls[w]) \subseteq Gone(lb, failing)  BY <4>3 DEF Gone, Extras
      <4>5. under[0] = Gone(lb, failing)  BY <1>2 DEF IsSinking
      <4> QED  BY <4>4, <4>5, <1>6, <2>1
    <3>5. CASE d.refers \in Off(lb, after[k])  BY <3>2, <3>3, <3>4, <3>5 DEF Off
    <3>6. CASE d.refers \in Extras(lb, Off(lb, after[k]))
      <4>1. \/ d.refers \in Extras(lb, after[k])
            \/ \E w \in Units(lb) \cap after[k] : d.refers \in Extras(lb, lb.decls[w])
        BY <3>6 DEF Extras, Off
      <4> QED  BY <4>1, <2>2, <3>2, <3>4
    <3> QED  BY <3>2, <3>5, <3>6 DEF Gone
  <2>6. under[k] \subseteq under[L]  BY <1>6, <2>1
  <2>7. \A d \in Diagnostics(lb, after[k]) :
          /\ d.part \in under[k + 1] /\ lb.uses[d.part] \cap under[L] # {}
          /\ Extras(lb, {d.part}) \subseteq under[k + 1]
    BY <2>4, <2>5, <2>6 DEF Sinking, Extras
  <2>8. under[k] \subseteq under[k + 1]  BY <2>4 DEF Sinking
  <2>9. Extras(lb, after[k + 1]) \subseteq under[k + 1]
    <3> SUFFICES ASSUME NEW p \in after[k + 1] \cap Parts(lb) PROVE lb.extra[p] \subseteq under[k + 1]
      BY DEF Extras
    <3>1. CASE p \in after[k]  BY <3>1, <2>2, <2>8 DEF Extras
    <3>2. CASE \E d \in Diagnostics(lb, after[k]) : p = d.part  BY <3>2, <2>7 DEF Extras
    <3> QED  BY <3>1, <3>2, <2>3
  <2> QED  BY <2>2, <2>3, <2>7, <2>8, <2>9
<1>9. L \in Good
  <2> HIDE DEF Good
  <2> QED  BY <1>0, <1>7, <1>8, SetInduction
<1>10. u \in after[L]  BY <1>1 DEF IsCascade
<1>11. lb.uses[u] \cap under[L] # {}  BY <1>0, <1>9, <1>10
<1> QED  BY <1>2, <1>11 DEF IsSinking

(* A round of code generation that rejects the units `us'.                 *)
Rejects(lb, v, w, us) ==
  /\ DOMAIN w = ValidFields /\ w.out = v.out /\ w.decls = v.decls /\ w.lines = v.lines
  /\ w.orphans = v.orphans /\ w.start = v.start /\ w.ir = v.ir /\ w.link = v.link
  /\ w.stage \in {"panic", "blank", "finish"} /\ w.failing = us /\ us \subseteq Units(lb)
  /\ DOMAIN w.status = Units(lb)
  /\ \A u \in Units(lb) :
       /\ u \in us => w.status[u] # "ok"
       /\ \/ w.status[u] = v.status[u]
          \/ /\ u \in us /\ w.status[u] # "type_error"
             /\ w.status[u] = "depends_on_unsupported" => SinksWith(lb, u, v.out \cup us)

(* Rejecting units after type checking keeps the invariant when dependents *)
(* are rejected for names that sink.                                       *)
LEMMA RejectsKeeps ==
  ASSUME NEW lb, NEW v, ValidOk(lb, v), v.stage = "generate", NEW w, NEW us, Rejects(lb, v, w, us)
  PROVE  ValidOk(lb, w)
<1>1. v.failing = {} /\ v.decls = {} /\ ~v.ir  BY DEF ValidOk, ValidShape, Built
<1>2. ValidShape(lb, w)  BY <1>1 DEF ValidOk, ValidShape, Rejects
<1>3. \A u \in Units(lb) : v.status[u] # "ok" => w.status[u] # "ok"  BY DEF Rejects
<1>4. Withdrawn(lb, w)
  <2>1. \A u \in w.failing : w.status[u] # "ok"  BY DEF Rejects
  <2>2. ASSUME NEW u \in Units(lb), w.status[u] = "ok" PROVE UnitNames(lb, u) \cap w.out = {}
    BY <1>3, <2>2 DEF ValidOk, Withdrawn, Rejects
  <2>3. ASSUME NEW u \in Units(lb), w.status[u] # "ok", lb.decls[u] = {} PROVE u \in w.out \cup w.failing
    BY <1>1, <2>3 DEF ValidOk, Withdrawn, Rejects
  <2> QED  BY <2>1, <2>2, <2>3 DEF Withdrawn
<1>5. Built(lb, w)  BY <1>1 DEF ValidOk, Built, Rejects
<1>6. Caused(lb, w)
  <2>1. ASSUME NEW u \in Units(lb), w.status[u] = "type_error"
        PROVE  OwnCause(lb, u, v.out) \/ \E x \in Units(lb) : w.status[x] # "ok" /\ HidesFault(lb, x)
    <3>1. v.status[u] = "type_error"  BY <2>1 DEF Rejects
    <3>2. OwnCause(lb, u, v.out) \/ \E x \in Units(lb) : v.status[x] # "ok" /\ HidesFault(lb, x)
      BY <3>1 DEF ValidOk, Caused
    <3> QED  BY <3>2, <1>3
  <2>2. ASSUME NEW u \in Units(lb), w.status[u] = "depends_on_unsupported"
        PROVE  SinksWith(lb, u, w.out) \/ (w.decls = {} /\ SinksWith(lb, u, w.out \cup w.failing))
    <3>1. CASE w.status[u] = v.status[u]
      <4>1. v.out \cup v.failing = v.out  BY <1>1
      <4>2. SinksWith(lb, u, v.out)  BY <2>2, <3>1, <4>1 DEF ValidOk, Caused
      <4> QED  BY <4>2 DEF Rejects
    <3>2. CASE w.status[u] # v.status[u]
      <4>1. SinksWith(lb, u, v.out \cup us)  BY <2>2, <3>2 DEF Rejects
      <4> QED  BY <4>1, <1>1 DEF Rejects
    <3> QED  BY <3>1, <3>2
  <2>3. w.out = v.out  BY DEF Rejects
  <2> QED  BY <2>1, <2>2, <2>3 DEF Caused
<1> QED  BY <1>2, <1>4, <1>5, <1>6 DEF ValidOk

(* The search for the unit behind a hidden fault of the generator keeps the*)
(* invariant.                                                              *)
LEMMA ValidBlame ==
  ASSUME Assembled(lib), ValidOk(lib, valid), valid.stage = "generate",
         NEW f \in GenFaults(lib, valid.out), BlameHidden(f)
  PROVE  ValidOk(lib, valid')
<1> DEFINE active == Active(valid)
      dangling == f.names \cap Noted(lib, valid.out)
      users == {u \in Ok(valid, Units(lib)) : WordsOf(lib, u) \cap dangling # {}}
      isolated == IF f.form = "mute" THEN 0 ELSE ExclusionCulprit(lib, active, valid.out, f)
      says == [o \in Blankings(lib) |-> Says(lib, o, f)]
      found == IF f.form = "mute" THEN 0 ELSE CulpritPrefix(active, valid.out, says, 0)
      after == Cascade(lib, valid.out \cup {active[isolated]})
      dependents == (Units(lib) \cap after) \ (valid.out \cup {active[isolated]})
<1> USE DEF ValidFields
<1>0. /\ DOMAIN valid = ValidFields /\ DOMAIN valid.status = Units(lib) /\ valid.failing = {} /\ valid.decls = {}
      /\ TypeChecks(lib, valid.out)
  BY DEF ValidOk, ValidShape, Built
<1>1. active \in Seq(Ok(valid, Units(lib)))  BY ActiveAre
<1>2. CASE users # {}
  <2>1. valid' = [valid EXCEPT !.status = With(@, users, "depends_on_unsupported"),
                            !.failing = users, !.stage = "blank"]
    BY <1>2 DEF BlameHidden
  <2>2. ASSUME NEW u \in users PROVE u \in Units(lib) /\ SinksWith(lib, u, valid.out \cup users)
    <3>1. u \in Units(lib) /\ valid.status[u] = "ok"  BY DEF Ok
    <3>2. PICK n \in WordsOf(lib, u) : n \in Noted(lib, valid.out)  OBVIOUS
    <3>3. UnitNames(lib, u) \cap valid.out = {} /\ valid.out \subseteq Parts(lib) \cup lib.loose
      BY <3>1 DEF ValidOk, ValidShape, Withdrawn
    <3>6. SinksWith(lib, u, valid.out)  BY <3>1, <3>2, <3>3, WordSinks
    <3> HIDE DEF users
    <3> QED  BY <3>1, <3>6, SinksGrow
  <2>3. Rejects(lib, valid, valid', users)
    <3> HIDE DEF users
    <3>1. valid'.status = [u \in Units(lib) |-> IF u \in users THEN "depends_on_unsupported" ELSE valid.status[u]]
      BY <2>1, <1>0 DEF With
    <3>2. DOMAIN valid' = ValidFields /\ valid'.out = valid.out /\ valid'.decls = valid.decls
          /\ valid'.lines = valid.lines /\ valid'.orphans = valid.orphans /\ valid'.start = valid.start
          /\ valid'.ir = valid.ir /\ valid'.link = valid.link /\ valid'.stage = "blank"
          /\ valid'.failing = users
      BY <2>1, <1>0
    <3> QED  BY <3>1, <3>2, <2>2 DEF Rejects
  <2> QED  BY <2>3, RejectsKeeps
<1>3. CASE users = {} /\ isolated # 0
  <2> DEFINE a == active[isolated]
             us == dependents \cup {a}
  <2>1. valid' = [valid EXCEPT !.status = With(With(@, Ok(valid, dependents), "depends_on_unsupported"),
                                            {a}, "codegen_error"),
                            !.failing = us, !.stage = "blank"]
    BY <1>3 DEF BlameHidden
  <2>2. a \in Ok(valid, Units(lib))
    <3>1. isolated = ExclusionCulprit(lib, active, valid.out, f)  BY <1>3
    <3> DEFINE cures(u) == LET rest == Cascade(lib, valid.out \cup {u})
                           IN  TypeChecks(lib, rest) /\ ~Says(lib, rest, f)
               set == {i \in 1..Len(active) : WordsOf(lib, active[i]) \cap f.names # {} /\ cures(active[i])}
    <3>2. set # {} /\ isolated = Min(set)
      <4>1. isolated = IF set = {} THEN 0 ELSE Min(set)
        <5> HIDE DEF isolated, active
        <5> QED  BY <3>1 DEF ExclusionCulprit
      <4> HIDE DEF isolated, set
      <4> QED  BY <4>1, <1>3
    <3>3. set \in SUBSET (1 .. Len(active)) /\ set \in SUBSET Nat  BY <1>1
    <3> HIDE DEF set, isolated
    <3>4. isolated \in set  BY <3>2, <3>3, FirstOf
    <3> HIDE DEF active
    <3> QED  BY <1>1, <3>3, <3>4
  <2> HIDE DEF a
  <2>3. a \in Units(lib) /\ valid.status[a] = "ok"  BY <2>2 DEF Ok
  <2>4. ASSUME NEW u \in dependents PROVE SinksWith(lib, u, valid.out \cup us)
    <3> DEFINE start == valid.out \cup {a}
               failing == valid.out \cup us
    <3>1. u \in Units(lib) /\ u \in Cascade(lib, start) /\ u \notin start  BY DEF a
    <3>2. Units(lib) \cap Cascade(lib, start) \subseteq failing  BY DEF a
    <3>3. valid.out \subseteq start /\ start \subseteq failing  OBVIOUS
    <3> HIDE DEF start, failing
    <3>4. lib.uses[u] \cap Sunk(lib, Gone(lib, failing)) # {}  BY <1>0, <3>1, <3>2, <3>3, CascadeSinks
    <3>5. lib.uses[u] \subseteq Mentions(lib, u)  BY DEF Mentions, UnitNames
    <3> QED  BY <3>4, <3>5 DEF SinksWith, failing
  <2>5. Rejects(lib, valid, valid', us)
    <3>0. dependents \subseteq Units(lib)  OBVIOUS
    <3> HIDE DEF dependents
    <3>1. valid'.status = [u \in Units(lib) |-> IF u = a THEN "codegen_error"
                             ELSE IF u \in Ok(valid, dependents) THEN "depends_on_unsupported"
                             ELSE valid.status[u]]
      <4> DEFINE s == With(With(valid.status, Ok(valid, dependents), "depends_on_unsupported"), {a}, "codegen_error")
      <4>1. valid'.status = s
        <5> HIDE DEF s
        <5>1. valid' = [valid EXCEPT !.status = s, !.failing = us, !.stage = "blank"]  BY <2>1 DEF s
        <5> QED  BY <5>1, <1>0
      <4>2. s = [u \in Units(lib) |-> IF u = a THEN "codegen_error"
                             ELSE IF u \in Ok(valid, dependents) THEN "depends_on_unsupported"
                             ELSE valid.status[u]]
        BY <1>0 DEF With
      <4> QED  BY <4>1, <4>2
    <3>2. DOMAIN valid' = ValidFields /\ valid'.out = valid.out /\ valid'.decls = valid.decls
          /\ valid'.lines = valid.lines /\ valid'.orphans = valid.orphans /\ valid'.start = valid.start
          /\ valid'.ir = valid.ir /\ valid'.link = valid.link /\ valid'.stage = "blank"
          /\ valid'.failing = us
      BY <2>1, <1>0
    <3>3. us \subseteq Units(lib)  BY <3>0, <2>3
    <3>4. Ok(valid, dependents) \subseteq dependents /\ \A u \in dependents \ Ok(valid, dependents) : valid.status[u] # "ok"
      BY DEF Ok
    <3> QED  BY <3>1, <3>2, <3>3, <3>4, <2>3, <2>4 DEF Rejects
  <2> QED  BY <2>5, RejectsKeeps
<1>4. CASE users = {} /\ isolated = 0 /\ found # 0
  <2> DEFINE a == active[found]
  <2>1. valid' = [valid EXCEPT !.status = With(@, {a}, "codegen_error"),
                            !.failing = {a}, !.stage = "blank"]
    BY <1>4 DEF BlameHidden
  <2>2. a \in Ok(valid, Units(lib))
    <3>1. found = CulpritPrefix(active, valid.out, says, 0) /\ 0 \in Nat  BY <1>4
    <3> HIDE DEF found, active, says
    <3> QED  BY <1>1, <1>4, <3>1, CulpritIs
  <2> HIDE DEF a
  <2>3. a \in Units(lib)  BY <2>2 DEF Ok
  <2>4. Rejects(lib, valid, valid', {a})
    <3>1. valid'.status = [u \in Units(lib) |-> IF u \in {a} THEN "codegen_error" ELSE valid.status[u]]
      BY <2>1, <1>0 DEF With
    <3>2. DOMAIN valid' = ValidFields /\ valid'.out = valid.out /\ valid'.decls = valid.decls
          /\ valid'.lines = valid.lines /\ valid'.orphans = valid.orphans /\ valid'.start = valid.start
          /\ valid'.ir = valid.ir /\ valid'.link = valid.link /\ valid'.stage = "blank"
          /\ valid'.failing = {a}
      BY <2>1, <1>0
    <3> QED  BY <3>1, <3>2, <2>3 DEF Rejects
  <2> QED  BY <2>4, RejectsKeeps
<1>5. CASE users = {} /\ isolated = 0 /\ found = 0
  <2>1. valid' = [valid EXCEPT !.conf = @ \cup {"CODEGEN"}, !.stage = "finish"]
    <3> HIDE DEF users, isolated, found, dangling, says, active
    <3> QED  BY <1>5 DEF BlameHidden, users, isolated, found, dangling, says, active
  <2>2. Rejects(lib, valid, valid', {})  BY <2>1, <1>0 DEF Rejects
  <2> QED  BY <2>2, RejectsKeeps
<1> QED  BY <1>2, <1>3, <1>4, <1>5

(* Generating code keeps the invariant: it succeeds only without a fault.  *)
LEMMA ValidGenerate ==
  ASSUME Assembled(lib), ValidOk(lib, valid), GenerateIR PROVE ValidOk(lib, valid')
<1> DEFINE errors == GenFaults(lib, valid.out)
           hit == {UnitOf(lib, f.of) : f \in {g \in errors : g.form = "located"}}
           dies == GenPanics(lib, valid.out)
<1> USE DEF ValidFields
<1>0. /\ DOMAIN valid = ValidFields /\ DOMAIN valid.status = Units(lib) /\ valid.failing = {} /\ valid.decls = {}
      /\ TypeChecks(lib, valid.out) /\ valid.stage = "generate" /\ ~valid.ir
      /\ \A u \in Units(lib) : valid.link[u] = "not_run"
  BY DEF ValidOk, ValidShape, Built, GenerateIR
<1>1. CASE dies
  <2>1. valid' = [valid EXCEPT !.panic = "codegen", !.stage = "panic"]
    <3> HIDE DEF dies
    <3> QED  BY <1>1 DEF GenerateIR, dies
  <2>2. Rejects(lib, valid, valid', {})  BY <2>1, <1>0 DEF Rejects
  <2> QED  BY <2>2, <1>0, RejectsKeeps
<1>2. CASE ~dies /\ errors = {} /\ lib.compat = "ok"
  <2>1. valid' = [valid EXCEPT !.ir = TRUE, !.start = 0, !.stage = "finish"]
    <3> HIDE DEF dies, errors
    <3> QED  BY <1>2 DEF GenerateIR, dies, errors
  <2>2. DOMAIN valid' = ValidFields /\ valid'.out = valid.out /\ valid'.decls = valid.decls
          /\ valid'.lines = valid.lines /\ valid'.orphans = valid.orphans /\ valid'.start = 0
          /\ valid'.ir = TRUE /\ valid'.link = valid.link /\ valid'.stage = "finish"
          /\ valid'.failing = valid.failing /\ valid'.status = valid.status
    BY <2>1, <1>0
  <2>3. ValidShape(lib, valid')  BY <2>2, <1>0 DEF ValidOk, ValidShape
  <2>4. Withdrawn(lib, valid')  BY <2>2, <1>0 DEF ValidOk, Withdrawn
  <2>5. Built(lib, valid')  BY <2>2, <1>0, <1>2 DEF Built
  <2>6. Caused(lib, valid')  BY <2>2 DEF ValidOk, Caused
  <2> QED  BY <2>3, <2>4, <2>5, <2>6 DEF ValidOk
<1>3. CASE /\ ~dies /\ ~(errors = {} /\ lib.compat = "ok") /\ (hit # {} \/ lib.compat = "gen")
  <2>1. valid' = [valid EXCEPT !.status = With(@, hit, "codegen_error"), !.failing = hit,
                               !.conf = IF lib.compat = "gen" THEN @ \cup {"CODEGEN"} ELSE @,
                               !.stage = IF hit = {} THEN "finish" ELSE "blank"]
    <3> HIDE DEF dies, errors, hit
    <3> QED  BY <1>3 DEF GenerateIR, dies, errors, hit
  <2>2. hit \subseteq Units(lib)
    <3> SUFFICES ASSUME NEW f \in errors PROVE UnitOf(lib, f.of) \in Units(lib)  OBVIOUS
    <3>1. f \in Live(lib, valid.out, "gen")  BY DEF GenFaults
    <3>2. f.of \in Parts(lib)  BY <3>1 DEF Live
    <3> QED  BY <3>2, UnitOfHas
  <2> HIDE DEF hit
  <2>3. valid'.status = [u \in Units(lib) |-> IF u \in hit THEN "codegen_error" ELSE valid.status[u]]
    BY <2>1, <1>0 DEF With
  <2>4. DOMAIN valid' = ValidFields /\ valid'.out = valid.out /\ valid'.decls = valid.decls
          /\ valid'.lines = valid.lines /\ valid'.orphans = valid.orphans /\ valid'.start = valid.start
          /\ valid'.ir = valid.ir /\ valid'.link = valid.link /\ valid'.stage \in {"finish", "blank"}
          /\ valid'.failing = hit
    BY <2>1, <1>0
  <2>5. Rejects(lib, valid, valid', hit)  BY <2>2, <2>3, <2>4 DEF Rejects
  <2> QED  BY <2>5, <1>0, RejectsKeeps
<1>4. CASE /\ ~dies /\ ~(errors = {} /\ lib.compat = "ok") /\ ~(hit # {} \/ lib.compat = "gen")
  <2>1. \E f \in errors : BlameHidden(f)
    <3> HIDE DEF dies, errors, hit
    <3> QED  BY <1>4 DEF GenerateIR, dies, errors, hit
  <2> QED  BY <2>1, <1>0, ValidBlame
<1> HIDE DEF dies, errors, hit
<1> QED  BY <1>1, <1>2, <1>3, <1>4

(* Attributing a panic keeps the invariant.                                *)
LEMMA ValidPanic ==
  ASSUME Assembled(lib), ValidOk(lib, valid), AttributePanic PROVE ValidOk(lib, valid')
<1> DEFINE active == Active(valid)
         dies == [o \in Blankings(lib) |->
                   IF valid.panic = "codegen" THEN GenPanics(lib, o) ELSE CheckPanics(lib, o)]
         culprit == CulpritPrefix(active, valid.out, dies, valid.start)
         u == active[culprit]
         blocked == (WordsOf(lib, u) \cap Noted(lib, valid.out)) \ {u}
         verdict == IF blocked # {} THEN "depends_on_unsupported"
                    ELSE IF valid.panic = "check" THEN "compiler_panic" ELSE "codegen_panic"
<1> USE DEF ValidFields
<1>0. /\ DOMAIN valid = ValidFields /\ DOMAIN valid.status = Units(lib) /\ valid.start \in Nat
      /\ valid.stage = "panic" /\ ~valid.ir /\ \A w \in Units(lib) : valid.link[w] = "not_run"
  BY DEF ValidOk, ValidShape, Built, AttributePanic
<1>1. valid' = IF culprit = 0
              THEN [valid EXCEPT !.conf = @ \cup {"PANIC"}, !.stage = "finish"]
              ELSE [valid EXCEPT !.status[u] = verdict, !.failing = @ \cup {u},
                             !.start = culprit - 1, !.stage = "blank"]
  BY DEF AttributePanic
<1>2. active \in Seq(Ok(valid, Units(lib)))  BY ActiveAre
<1>3. CASE culprit = 0
  <2>1. valid' = [valid EXCEPT !.conf = @ \cup {"PANIC"}, !.stage = "finish"]
    <3> HIDE DEF culprit, u, verdict
    <3> QED  BY <1>1, <1>3
  <2>2. DOMAIN valid' = ValidFields /\ valid'.out = valid.out /\ valid'.decls = valid.decls
          /\ valid'.lines = valid.lines /\ valid'.orphans = valid.orphans /\ valid'.start = valid.start
          /\ valid'.ir = valid.ir /\ valid'.link = valid.link /\ valid'.stage = "finish"
          /\ valid'.failing = valid.failing /\ valid'.status = valid.status
    BY <2>1, <1>0
  <2>3. ValidShape(lib, valid')  BY <2>2, <1>0 DEF ValidOk, ValidShape
  <2>4. Withdrawn(lib, valid')  BY <2>2 DEF ValidOk, Withdrawn
  <2>5. Built(lib, valid')  BY <2>2, <1>0 DEF Built
  <2>6. Caused(lib, valid')  BY <2>2 DEF ValidOk, Caused
  <2> QED  BY <2>3, <2>4, <2>5, <2>6 DEF ValidOk
<1>4. CASE culprit # 0
  <2>1. valid' = [valid EXCEPT !.status[u] = verdict, !.failing = @ \cup {u},
                             !.start = culprit - 1, !.stage = "blank"]
    <3> HIDE DEF culprit, u, verdict
    <3> QED  BY <1>1, <1>4
  <2>2. u \in Ok(valid, Units(lib)) /\ culprit - 1 \in Nat
    <3> HIDE DEF active, dies
    <3>1. culprit = CulpritPrefix(active, valid.out, dies, valid.start)  OBVIOUS
    <3> HIDE DEF culprit
    <3> QED  BY <1>0, <1>2, <1>4, <3>1, CulpritIs
  <2>3. u \in Units(lib) /\ valid.status[u] = "ok"  BY <2>2 DEF Ok
  <2>4. verdict \in {"depends_on_unsupported", "compiler_panic", "codegen_panic"}
    <3> HIDE DEF blocked, u
    <3> QED  OBVIOUS
  <2>5. verdict = "depends_on_unsupported" => SinksWith(lib, u, valid.out)
    <3> HIDE DEF u
    <3>1. verdict = "depends_on_unsupported" => blocked # {}  OBVIOUS
    <3>2. ASSUME NEW n \in blocked PROVE SinksWith(lib, u, valid.out)
      <4>1. UnitNames(lib, u) \cap valid.out = {} /\ valid.out \subseteq Parts(lib) \cup lib.loose
        BY <2>3 DEF ValidOk, ValidShape, Withdrawn
      <4> QED  BY <4>1, <2>3, WordSinks
    <3> HIDE DEF verdict, blocked
    <3> QED  BY <3>1, <3>2
  <2> HIDE DEF u, verdict, culprit
  <2>6. DOMAIN valid' = ValidFields /\ valid'.out = valid.out /\ valid'.decls = valid.decls
          /\ valid'.lines = valid.lines /\ valid'.orphans = valid.orphans /\ valid'.start = culprit - 1
          /\ valid'.ir = valid.ir /\ valid'.link = valid.link /\ valid'.stage = "blank"
          /\ valid'.failing = valid.failing \cup {u}
          /\ valid'.status = [valid.status EXCEPT ![u] = verdict]
    BY <2>1, <1>0
  <2>7. DOMAIN valid'.status = Units(lib)
        /\ \A w \in Units(lib) : valid'.status[w] = IF w = u THEN verdict ELSE valid.status[w]
    BY <2>6, <1>0
  <2>8. ValidShape(lib, valid')  BY <2>2, <2>3, <2>6, <2>7 DEF ValidOk, ValidShape
  <2>9. Withdrawn(lib, valid')
    <3>1. \A w \in valid'.failing : valid'.status[w] # "ok"
      <4>1. valid.failing \subseteq Units(lib)  BY DEF ValidOk, ValidShape
      <4> QED  BY <2>3, <2>4, <2>6, <2>7, <4>1 DEF ValidOk, Withdrawn
    <3>2. ASSUME NEW w \in Units(lib), valid'.status[w] = "ok" PROVE UnitNames(lib, w) \cap valid'.out = {}
      <4>1. valid.status[w] = "ok"  BY <2>3, <2>7, <3>2
      <4> QED  BY <4>1, <2>6 DEF ValidOk, Withdrawn
    <3>3. ASSUME NEW w \in Units(lib), valid'.status[w] # "ok", lib.decls[w] = {}
          PROVE w \in valid'.out \cup valid'.failing
      <4>1. CASE w = u  BY <2>6, <4>1
      <4>2. CASE w # u
        <5>1. valid.status[w] # "ok"  BY <2>7, <3>3, <4>2
        <5> QED  BY <5>1, <2>6, <3>3 DEF ValidOk, Withdrawn
      <4> QED  BY <4>1, <4>2
    <3> QED  BY <3>1, <3>2, <3>3 DEF Withdrawn
  <2>10. Built(lib, valid')  BY <2>6, <1>0 DEF Built
  <2>11. Caused(lib, valid')
    <3>0. \A w \in Units(lib) : valid.status[w] # "ok" => valid'.status[w] # "ok"  BY <2>3, <2>7
    <3>1. ASSUME NEW w \in Units(lib), valid'.status[w] = "type_error"
          PROVE  OwnCause(lib, w, valid.out) \/ \E x \in Units(lib) : valid'.status[x] # "ok" /\ HidesFault(lib, x)
      <4>1. valid.status[w] = "type_error"  BY <2>4, <2>7, <3>1
      <4>2. OwnCause(lib, w, valid.out) \/ \E x \in Units(lib) : valid.status[x] # "ok" /\ HidesFault(lib, x)
        BY <4>1 DEF ValidOk, Caused
      <4> QED  BY <4>2, <3>0
    <3>2. ASSUME NEW w \in Units(lib), valid'.status[w] = "depends_on_unsupported"
          PROVE  SinksWith(lib, w, valid'.out) \/ (valid'.decls = {} /\ SinksWith(lib, w, valid'.out \cup valid'.failing))
      <4>1. CASE w = u  BY <2>5, <2>6, <2>7, <3>2, <4>1
      <4>2. CASE w # u
        <5>1. valid.status[w] = "depends_on_unsupported"  BY <2>7, <3>2, <4>2
        <5>2. SinksWith(lib, w, valid.out) \/ (valid.decls = {} /\ SinksWith(lib, w, valid.out \cup valid.failing))
          BY <5>1 DEF ValidOk, Caused
        <5>3. valid.out \cup valid.failing \subseteq valid'.out \cup valid'.failing  BY <2>6
        <5>4. SinksWith(lib, w, valid.out \cup valid.failing) => SinksWith(lib, w, valid'.out \cup valid'.failing)
          BY <5>3, SinksGrow
        <5> QED  BY <5>2, <5>4, <2>6
      <4> QED  BY <4>1, <4>2
    <3> QED  BY <2>6, <3>1, <3>2 DEF Caused
  <2> QED  BY <2>8, <2>9, <2>10, <2>11 DEF ValidOk
<1> QED  BY <1>3, <1>4

(* Blanking the rejected units keeps the invariant: their text, the lines  *)
(* of shared lists and what was orphaned leave the build.                  *)
LEMMA ValidBlank ==
  ASSUME Assembled(lib), ValidOk(lib, valid), BlankFailing PROVE ValidOk(lib, valid')
<1> DEFINE new == valid.failing \ valid.out
         some(u) == (valid.decls \cap lib.decls[u]) \ valid.out
         partly == {u \in new : some(u) # {} /\ valid.partial[u] < PartialLimit}
         stuck == valid.conf # {} /\ valid.failing = {} /\ valid.lines = {}
         nothing == new = {} /\ valid.lines = {}
         parts == UNION {some(u) : u \in partly}
<1> USE DEF ValidFields
<1>0. /\ DOMAIN valid = ValidFields /\ DOMAIN valid.status = Units(lib) /\ valid.start \in Nat
      /\ valid.stage = "blank" /\ ~valid.ir /\ \A w \in Units(lib) : valid.link[w] = "not_run"
  BY DEF ValidOk, ValidShape, Built, BlankFailing
<1>1. CASE stuck \/ nothing
  <2>1. valid' = [valid EXCEPT !.stage = "finish"]  BY <1>1 DEF BlankFailing
  <2>2. DOMAIN valid' = ValidFields /\ valid'.out = valid.out /\ valid'.decls = valid.decls
          /\ valid'.lines = valid.lines /\ valid'.orphans = valid.orphans /\ valid'.start = valid.start
          /\ valid'.ir = valid.ir /\ valid'.link = valid.link /\ valid'.stage = "finish"
          /\ valid'.failing = valid.failing /\ valid'.status = valid.status
    BY <2>1, <1>0
  <2>3. ValidShape(lib, valid')  BY <2>2, <1>0 DEF ValidOk, ValidShape
  <2>4. Withdrawn(lib, valid')  BY <2>2 DEF ValidOk, Withdrawn
  <2>5. Built(lib, valid')  BY <2>2, <1>0 DEF Built
  <2>6. Caused(lib, valid')  BY <2>2 DEF ValidOk, Caused
  <2> QED  BY <2>3, <2>4, <2>5, <2>6 DEF ValidOk
<1>2. CASE ~(stuck \/ nothing)
  <2>1. valid' = [valid EXCEPT !.out = @ \cup valid.lines \cup (new \ partly) \cup parts,
                             !.partial = [u \in DOMAIN @ |-> IF u \in partly THEN @[u] + 1 ELSE @[u]],
                             !.start = IF valid.panic = "none" THEN 0 ELSE @,
                             !.failing = {}, !.decls = {}, !.lines = {}, !.panic = "none",
                             !.round = @ + 1, !.stage = "check"]
    <3> HIDE DEF stuck, nothing, parts
    <3> QED  BY <1>2 DEF BlankFailing, stuck, nothing, parts
  <2>2. DOMAIN valid' = ValidFields /\ valid'.out = valid.out \cup valid.lines \cup (new \ partly) \cup parts
          /\ valid'.decls = {} /\ valid'.lines = {} /\ valid'.orphans = valid.orphans
          /\ valid'.start \in Nat /\ valid'.ir = valid.ir /\ valid'.link = valid.link
          /\ valid'.stage = "check" /\ valid'.failing = {} /\ valid'.status = valid.status
    <3> HIDE DEF new, partly, parts
    <3> QED  BY <2>1, <1>0
  <2>3. valid.failing \subseteq Units(lib) /\ partly \subseteq valid.failing /\ new \subseteq valid.failing
    BY DEF ValidOk, ValidShape
  <2>4. ASSUME NEW p \in parts PROVE \E w \in valid.failing : p \in lib.decls[w] /\ p \in valid.decls
    BY <2>3
  <2> HIDE DEF parts, some
  <2>5. ASSUME NEW w \in Units(lib)
        PROVE  UnitNames(lib, w) \subseteq Parts(lib) /\ UnitNames(lib, w) \cap lib.loose = {}
    BY NamesAreParts DEF Assembled, DistinctPlaces
  <2>6. parts \subseteq Parts(lib) /\ parts \cap lib.loose = {}
    <3> SUFFICES ASSUME NEW p \in parts PROVE p \in Parts(lib) /\ p \notin lib.loose  OBVIOUS
    <3>1. PICK w \in valid.failing : p \in lib.decls[w]  BY <2>4
    <3>2. w \in Units(lib) /\ p \in UnitNames(lib, w)  BY <2>3, <3>1 DEF UnitNames
    <3> QED  BY <3>2, <2>5
  <2>7. new \subseteq Parts(lib) /\ new \cap lib.loose = {}
    <3> SUFFICES ASSUME NEW w \in new PROVE w \in Parts(lib) /\ w \notin lib.loose  OBVIOUS
    <3>1. w \in Units(lib) /\ w \in UnitNames(lib, w)  BY <2>3 DEF UnitNames
    <3> QED  BY <3>1, <2>5
  <2> HIDE DEF partly
  <2>8. ValidShape(lib, valid')
    <3>1. valid'.out \subseteq Parts(lib) \cup lib.loose
      BY <2>2, <2>6, <2>7 DEF ValidOk, ValidShape
    <3>2. valid'.out \cap lib.loose \subseteq valid'.orphans
      <4>1. valid.lines \subseteq valid.orphans /\ valid.out \cap lib.loose \subseteq valid.orphans
        BY DEF ValidOk, ValidShape
      <4> QED  BY <2>2, <2>6, <2>7, <4>1
    <3> QED  BY <2>2, <1>0, <3>1, <3>2 DEF ValidShape
  <2>9. Withdrawn(lib, valid')
    <3>1. ASSUME NEW u \in Units(lib), valid.status[u] = "ok" PROVE UnitNames(lib, u) \cap valid'.out = {}
      <4> SUFFICES ASSUME NEW p \in UnitNames(lib, u), p \in valid'.out PROVE FALSE  OBVIOUS
      <4>1. p \notin valid.out  BY <3>1 DEF ValidOk, Withdrawn
      <4>2. p \notin valid.lines
        <5>1. p \notin lib.loose  BY <2>5
        <5> QED  BY <5>1 DEF ValidOk, ValidShape
      <4>3. \A w \in valid.failing : w # u /\ w \in Units(lib)  BY <3>1, <2>3 DEF ValidOk, Withdrawn
      <4>4. p \notin new
        <5>1. ASSUME p \in valid.failing PROVE FALSE
          <6>1. p # u /\ p \in Units(lib)  BY <4>3, <5>1
          <6>2. p \in lib.decls[u]  BY <6>1 DEF UnitNames
          <6> QED  BY <6>1, <6>2 DEF Assembled, DistinctPlaces
        <5> QED  BY <5>1
      <4>5. p \notin parts
        <5> SUFFICES ASSUME p \in parts PROVE FALSE  OBVIOUS
        <5>1. PICK w \in valid.failing : p \in lib.decls[w]  BY <2>4
        <5>2. w # u /\ w \in Units(lib)  BY <4>3, <5>1
        <5>3. p # u  BY <5>1, <5>2 DEF Assembled, DistinctPlaces
        <5>4. p \in lib.decls[u]  BY <5>3 DEF UnitNames
        <5> QED  BY <5>1, <5>2, <5>4 DEF Assembled, DistinctPlaces
      <4> QED  BY <2>2, <4>1, <4>2, <4>4, <4>5
    <3>2. ASSUME NEW u \in Units(lib), valid.status[u] # "ok", lib.decls[u] = {} PROVE u \in valid'.out
      <4>1. u \in valid.out \cup valid.failing  BY <3>2 DEF ValidOk, Withdrawn
      <4>2. u \notin partly
        <5>1. some(u) = {}  BY <3>2 DEF some
        <5> QED  BY <5>1 DEF partly
      <4> QED  BY <2>2, <4>1, <4>2
    <3> QED  BY <2>2, <3>1, <3>2 DEF Withdrawn
  <2>10. Built(lib, valid')  BY <2>2, <1>0 DEF Built
  <2>11. Caused(lib, valid')
    <3>1. ASSUME NEW u \in Units(lib), valid'.status[u] = "depends_on_unsupported"
          PROVE  SinksWith(lib, u, valid'.out)
      <4>1. SinksWith(lib, u, valid.out) \/ (valid.decls = {} /\ SinksWith(lib, u, valid.out \cup valid.failing))
        BY <2>2, <3>1 DEF ValidOk, Caused
      <4>2. CASE SinksWith(lib, u, valid.out)
        <5>1. valid.out \subseteq valid'.out  BY <2>2
        <5> QED  BY <4>2, <5>1, SinksGrow
      <4>3. CASE valid.decls = {} /\ SinksWith(lib, u, valid.out \cup valid.failing)
        <5>1. partly = {}
          <6>1. \A w : some(w) = {}  BY <4>3 DEF some
          <6> QED  BY <6>1 DEF partly
        <5>2. valid.out \cup valid.failing \subseteq valid'.out  BY <2>2, <5>1
        <5> QED  BY <4>3, <5>2, SinksGrow
      <4> QED  BY <4>1, <4>2, <4>3
    <3>2. \A u \in Units(lib) : valid'.status[u] = "type_error" =>
            OwnCause(lib, u, valid'.out) \/ \E w \in Units(lib) : valid'.status[w] # "ok" /\ HidesFault(lib, w)
      <4>1. Gone(lib, valid.out) \subseteq Gone(lib, valid'.out)
        <5>1. valid.out \subseteq valid'.out  BY <2>2
        <5> QED  BY <5>1, GoneGrows
      <4>2. \A u \in Units(lib) : OwnCause(lib, u, valid.out) => OwnCause(lib, u, valid'.out)
        BY <4>1 DEF OwnCause
      <4> QED  BY <2>2, <4>2 DEF ValidOk, Caused
    <3> QED  BY <3>1, <3>2 DEF Caused
  <2> QED  BY <2>8, <2>9, <2>10, <2>11 DEF ValidOk
<1> QED  BY <1>1, <1>2

(* Giving up after the last round keeps the invariant.                     *)
LEMMA ValidStop ==
  ASSUME ValidOk(lib, valid), StopRounds PROVE ValidOk(lib, valid')
<1> USE DEF ValidFields
<1>0. /\ DOMAIN valid = ValidFields /\ DOMAIN valid.status = Units(lib) /\ valid.start \in Nat
      /\ valid.stage = "check" /\ ~valid.ir /\ \A w \in Units(lib) : valid.link[w] = "not_run"
  BY DEF ValidOk, ValidShape, Built, StopRounds
<1>1. DOMAIN valid' = ValidFields /\ valid'.out = valid.out /\ valid'.decls = valid.decls
          /\ valid'.lines = valid.lines /\ valid'.orphans = valid.orphans /\ valid'.start = valid.start
          /\ valid'.ir = valid.ir /\ valid'.link = valid.link /\ valid'.stage = "finish"
          /\ valid'.failing = valid.failing /\ valid'.status = valid.status
  BY <1>0 DEF StopRounds
<1>2. ValidShape(lib, valid')  BY <1>0, <1>1 DEF ValidOk, ValidShape
<1>3. Withdrawn(lib, valid')  BY <1>1 DEF ValidOk, Withdrawn
<1>4. Built(lib, valid')  BY <1>0, <1>1 DEF Built
<1>5. Caused(lib, valid')  BY <1>1 DEF ValidOk, Caused
<1> QED  BY <1>2, <1>3, <1>4, <1>5 DEF ValidOk

(* The link step passes units only if nothing is undefined.                *)
LEMMA ValidLink ==
  ASSUME ValidOk(lib, valid), LinkUnits PROVE ValidOk(lib, valid')
<1> USE DEF ValidFields
<1> DEFINE built == Ok(valid, Units(lib))
         bad == (UNION {lib.calls[u] : u \in Units(lib) \ valid.out}) \cap lib.noSymbol
         linked(u) == IF lib.native = "object" THEN "object_failed"
                      ELSE IF bad = {} /\ lib.native = "ok" THEN "passed"
                      ELSE IF Reaches(u) \cap bad # {} THEN "undefined_symbols" ELSE "link_failed"
         lk == [u \in Units(lib) |-> IF u \in built THEN linked(u) ELSE "not_run"]
         undef == [u \in Units(lib) |-> IF u \in built /\ lib.native # "object" THEN Reaches(u) \cap bad ELSE {}]
<1>0. /\ DOMAIN valid = ValidFields /\ DOMAIN valid.status = Units(lib) /\ valid.start \in Nat
      /\ valid.stage = "finish" /\ \A w \in Units(lib) : valid.link[w] = "not_run"
  BY DEF ValidOk, ValidShape, Built, LinkUnits
<1>1. valid' = IF ~valid.ir THEN [valid EXCEPT !.stage = "done"]
               ELSE [valid EXCEPT !.undefined = undef, !.link = lk, !.stage = "done"]
  BY DEF LinkUnits
<1>2. DOMAIN valid' = ValidFields /\ valid'.out = valid.out /\ valid'.decls = valid.decls
          /\ valid'.lines = valid.lines /\ valid'.orphans = valid.orphans /\ valid'.start = valid.start
          /\ valid'.ir = valid.ir /\ valid'.stage = "done"
          /\ (valid'.link = valid.link \/ valid'.link = lk)
          /\ valid'.failing = valid.failing /\ valid'.status = valid.status
  <2> HIDE DEF undef, lk
  <2> QED  BY <1>0, <1>1
<1>3. \A u \in Units(lib) : lk[u] = "passed" => bad = {}
  <2> HIDE DEF bad
  <2> QED  OBVIOUS
<1>4. \A u \in Units(lib) : valid'.link[u] = "passed" => Undefined(lib, valid'.out) = {}
  <2>1. Undefined(lib, valid'.out) = bad  BY <1>2 DEF Undefined
  <2> HIDE DEF bad, lk
  <2> QED  BY <1>0, <1>2, <1>3, <2>1
<1>5. ValidShape(lib, valid')  BY <1>0, <1>2 DEF ValidOk, ValidShape
<1>6. Withdrawn(lib, valid')  BY <1>2 DEF ValidOk, Withdrawn
<1>7. Built(lib, valid')
  <2> HIDE DEF lk
  <2> QED  BY <1>0, <1>2, <1>4 DEF ValidOk, Built
<1>8. Caused(lib, valid')  BY <1>2 DEF ValidOk, Caused
<1> QED  BY <1>5, <1>6, <1>7, <1>8 DEF ValidOk

(* The units of the program itself, as opposed to its libraries.           *)
OwnOf(lb) == {u \in Units(lb) : lb.fileOf[u] = Primary}
(* The program is whole: none of its text was blanked, and all that it     *)
(* refers to is there.                                                     *)
Whole(lb, v) ==
  LET own == UNION {UnitNames(lb, u) : u \in OwnOf(lb)}
  IN  /\ v.out \cap (own \cup (lb.loose \ lb.far)) = {}
      /\ (UNION {lb.uses[p] : p \in own}) \cap (Gone(lb, v.out) \cup lb.missing) = {}
      /\ (UNION {lb.calls[u] : u \in OwnOf(lb)}) \cap lb.noSymbol = {}

(* The inductive invariant of the intake: the library is a source until it *)
(* is assembled, a validation satisfies its own invariant, and a report of *)
(* "semantic" fidelity is of a whole program.                              *)
IntakeInv ==
  /\ closure.stage # "none" => lib \in Sources /\ norm = NoNormalization /\ valid = NoValidation
  /\ norm.stage # "none" => Assembled(lib)
  /\ norm.stage # "done" => valid = NoValidation
  /\ valid.stage \in {"none", "failed"} \/ ValidOk(lib, valid)
  /\ report.fidelity = "semantic" => valid.stage = "done" /\ Whole(lib, valid)

(* Assembling the files of a source gives a library whose names are each   *)
(* defined in one place.                                                   *)
LEMMA AssembleKeeps ==
  ASSUME lib \in Sources, AssembleFiles PROVE Assembled(lib')
<1> DEFINE own == lib.files[Primary]
         from(f) == CASE f = Primary -> own
                      [] f = "S" -> IF lib.supplement
                                    THEN Kept(lib.files[f], ToSet(lib.files[f]) \ ToSet(own)) ELSE <<>>
                      [] OTHER -> IF f \in ToSet(closure.done)
                                  THEN Kept(lib.files[f], ToSet(lib.files[f]) \ lib.entry) ELSE <<>>
         units == from("D") \o from("E") \o own \o from("S")
         U == UnitsOfFiles(lib)
<1>1. /\ DOMAIN lib = SourceFields /\ lib.compat \in {"ok", "error", "exit", "panic", "gen"}
      /\ \A f \in {"D", "E", "P", "S"} : lib.files[f] \in Seq(UnitsOfFiles(lib))
      /\ DistinctPlaces(lib, UnitsOfFiles(lib)) /\ "none" \notin lib.loose
  BY SourceAssumption
<1>2. ASSUME NEW f \in {"D", "E", "P", "S"}, NEW keep PROVE Kept(lib.files[f], keep) \in Seq(U)
  <2>1. lib.files[f] \in Seq(U)  BY <1>1
  <2> HIDE DEF U
  <2>2. Kept(lib.files[f], keep) \in Seq(U \cap keep)  BY <2>1, KeptType
  <2> QED  BY <2>2
<1>3. own \in Seq(U)  BY <1>1 DEF Primary
<1>4. from("D") \in Seq(U) /\ from("E") \in Seq(U) /\ from("S") \in Seq(U)
  <2> HIDE DEF U, own
  <2> QED  BY <1>2 DEF Primary
<1>5. units \in Seq(U)
  <2> HIDE DEF from, U, own
  <2> QED  BY <1>3, <1>4
<1>6. \E fo, ms : lib' = [name \in DOMAIN lib \cup {"units", "fileOf", "missing"} |->
                   CASE name = "units" -> units
                     [] name = "fileOf" -> fo
                     [] name = "missing" -> ms
                     [] OTHER -> lib[name]]
  <2> HIDE DEF from
  <2> QED  BY DEF AssembleFiles, from
<1> HIDE DEF units, U
<1>7. /\ DOMAIN lib' = SourceFields \cup {"units", "fileOf", "missing"} /\ lib'.units = units
      /\ lib'.compat = lib.compat /\ lib'.loose = lib.loose /\ lib'.decls = lib.decls /\ lib'.extra = lib.extra
  BY <1>1, <1>6 DEF SourceFields
<1>8. Units(lib') \subseteq U  BY <1>5, <1>7 DEF Units, ToSet
<1>9. lib'.units \in Seq(Units(lib'))
  <2>1. \A i \in 1 .. Len(units) : units[i] \in Units(lib')  BY <1>5, <1>7 DEF Units, ToSet
  <2> QED  BY <1>5, <1>7, <2>1
<1>10. DistinctPlaces(lib', Units(lib'))
  <2>1. \A u : UnitNames(lib', u) = UnitNames(lib, u)  BY <1>7 DEF UnitNames
  <2> QED  BY <1>1, <1>7, <1>8, <2>1 DEF DistinctPlaces, U
<1> QED  BY <1>1, <1>7, <1>9, <1>10 DEF Assembled

(* The normalization rules keep that.                                      *)
LEMMA RulesKeep ==
  ASSUME Assembled(lib), ApplyRules PROVE Assembled(lib')
<1> USE DEF SourceFields
<1>1. \E fs : lib' = [lib EXCEPT !.faults = fs]  BY DEF ApplyRules
<1>2. /\ DOMAIN lib' = DOMAIN lib /\ lib'.units = lib.units /\ lib'.compat = lib.compat
      /\ lib'.loose = lib.loose /\ lib'.decls = lib.decls /\ lib'.extra = lib.extra
  BY <1>1 DEF Assembled
<1>3. Units(lib') = Units(lib)  BY <1>2 DEF Units
<1>4. \A u : UnitNames(lib', u) = UnitNames(lib, u)  BY <1>2 DEF UnitNames
<1> QED  BY <1>2, <1>3, <1>4 DEF Assembled, DistinctPlaces

(* A report may call a library semantically faithful only when it is.      *)
LEMMA SemanticReport ==
  ASSUME Assembled(lib), ValidOk(lib, valid), valid.stage = "done", Fidelity = "semantic"
  PROVE  Whole(lib, valid)
<1>1. Level = "full" /\ Behaviour = "rule_equivalence" /\ lib.stubs = {}  BY DEF Fidelity
<1>2. {u \in Own : IsPOU(u)} # {} /\ AcceptedUnits = Own /\ Unparsed = {}  BY <1>1 DEF Level
<1>3. Own = OwnOf(lib) /\ Own \subseteq Units(lib)  BY DEF Own, OwnOf
<1>4. PICK a \in Own : IsPOU(a)  BY <1>2
<1>5. valid.ir /\ valid.link[a] = "passed"  BY <1>2, <1>4 DEF AcceptedUnits
<1>6. \A u \in Own : valid.status[u] = "ok"  BY <1>2 DEF AcceptedUnits
<1>7. \A u \in Own : UnitNames(lib, u) \cap valid.out = {}  BY <1>3, <1>6 DEF ValidOk, Withdrawn
<1>8. valid.out \cap (lib.loose \ lib.far) = {}  BY <1>2 DEF ValidOk, ValidShape, Unparsed
<1>9. TypeChecks(lib, valid.out) /\ Undefined(lib, valid.out) = {}  BY <1>3, <1>4, <1>5 DEF ValidOk, Built
<1>10. ASSUME NEW u \in Own, NEW p \in UnitNames(lib, u)
       PROVE  lib.uses[p] \cap (Gone(lib, valid.out) \cup lib.missing) = {}
  <2>1. p \in Parts(lib)  BY <1>3, NamesAreParts
  <2>2. p \notin Off(lib, valid.out)  BY <1>3, <1>7, WholeStays
  <2>3. Diagnostics(lib, valid.out) = {} /\ ~CheckPanics(lib, valid.out)  BY <1>9 DEF TypeChecks
  <2>4. ASSUME NEW n \in lib.uses[p] \cap (Gone(lib, valid.out) \cup lib.missing) PROVE FALSE
    <3>1. [part |-> p, refers |-> n] \in Diagnostics(lib, valid.out)
      BY <2>1, <2>2, <2>3, <2>4 DEF Diagnostics
    <3> QED  BY <3>1, <2>3
  <2> QED  BY <2>4
<1>11. \A u \in Own : lib.calls[u] \cap lib.noSymbol = {}
  <2> SUFFICES ASSUME NEW u \in Own PROVE lib.calls[u] \cap lib.noSymbol = {}  OBVIOUS
  <2>1. u \in Units(lib) \ valid.out  BY <1>3, <1>7 DEF UnitNames
  <2> QED  BY <2>1, <1>9 DEF Undefined
<1> DEFINE own == UNION {UnitNames(lib, u) : u \in OwnOf(lib)}
<1>12. valid.out \cap (own \cup (lib.loose \ lib.far)) = {}  BY <1>3, <1>7, <1>8
<1>13. (UNION {lib.uses[p] : p \in own}) \cap (Gone(lib, valid.out) \cup lib.missing) = {}  BY <1>3, <1>10
<1>14. (UNION {lib.calls[u] : u \in OwnOf(lib)}) \cap lib.noSymbol = {}  BY <1>3, <1>11
<1> QED  BY <1>12, <1>13, <1>14 DEF Whole

(* It holds before anything is read.                                       *)
LEMMA IntakeInit == Init => IntakeInv
  BY DEF Init, IntakeInv, NoNormalization, NoValidation, NoReport

(* Every step keeps it.                                                    *)
LEMMA IntakeNext ==
  ASSUME IntakeInv, [Next]_intakeVars PROVE IntakeInv'
<1> USE DEF NoNormalization, NoValidation, NoReport, NoClosure
<1>1. CASE VisitDependency \/ LeaveFile
  <2>1. UNCHANGED <<lib, valid, norm, report>> /\ closure.stage = "walk"  BY <1>1 DEF VisitDependency, LeaveFile
  <2> QED  BY <2>1 DEF IntakeInv
<1>2. CASE AssembleFiles
  <2>1. closure.stage = "walked" /\ norm' = BeginNormalize /\ closure' = NoClosure /\ UNCHANGED <<valid, report>>
    BY <1>2 DEF AssembleFiles
  <2>2. lib \in Sources /\ valid = NoValidation  BY <2>1 DEF IntakeInv
  <2>3. Assembled(lib')  BY <2>2, <1>2, AssembleKeeps
  <2> QED  BY <2>1, <2>2, <2>3 DEF IntakeInv, BeginNormalize
<1>3. CASE NormalizeStep /\ UNCHANGED <<closure, report, env, gen>>
  <2>1. norm.stage = "normalize" /\ UNCHANGED <<valid, closure, report>>
    BY <1>3 DEF NormalizeStep, NormalizeDone, ApplyRules, MaskUnits, StopNormalizing, RoundsLeft, buildVars
  <2>2. Assembled(lib) /\ valid = NoValidation /\ closure.stage = "none"  BY <2>1 DEF IntakeInv
  <2>3. Assembled(lib')
    <3>1. CASE ApplyRules  BY <3>1, <2>2, RulesKeep
    <3>2. CASE ~ApplyRules
      <4>1. lib' = lib  BY <1>3, <3>2 DEF NormalizeStep, NormalizeDone, MaskUnits, StopNormalizing, buildVars
      <4> QED  BY <4>1, <2>2
    <3> QED  BY <3>1, <3>2
  <2> QED  BY <2>1, <2>2, <2>3 DEF IntakeInv
<1>4. CASE StartBuild
  <2>1. norm.stage = "done" /\ valid = NoValidation /\ UNCHANGED <<lib, norm, closure>>  BY <1>4 DEF StartBuild
  <2>2. Assembled(lib) /\ closure.stage = "none" /\ report.fidelity # "semantic"  BY <2>1 DEF IntakeInv
  <2>3. ValidOk(lib, Begin(lib))  BY <2>2, ValidBegin
  <2>4. \/ valid' = Begin(lib) /\ report' = report
        \/ valid' = [stage |-> "failed"] /\ report'.fidelity = "none"
    BY <1>4 DEF StartBuild
  <2> QED  BY <2>1, <2>2, <2>3, <2>4 DEF IntakeInv
<1>5. CASE ValidateStep /\ UNCHANGED <<norm, closure, report, env, gen>>
  <2>1. lib' = lib /\ valid.stage \notin {"none", "failed", "done"}
    BY <1>5, Zenon DEF ValidateStep, CheckUnits, GenerateIR, AttributePanic, BlankFailing, StopRounds, LinkUnits
  <2>2. norm.stage = "done"  BY <2>1 DEF IntakeInv
  <2>3. Assembled(lib) /\ closure.stage = "none" /\ ValidOk(lib, valid) /\ report.fidelity # "semantic"
    BY <2>1, <2>2 DEF IntakeInv
  <2>4. ValidOk(lib, valid')
    BY <1>5, <2>3, ValidCheck, ValidGenerate, ValidPanic, ValidBlank, ValidStop, ValidLink DEF ValidateStep
  <2>5. norm' = norm /\ closure' = closure /\ report' = report  BY <1>5
  <2> QED  BY <2>1, <2>2, <2>3, <2>4, <2>5 DEF IntakeInv
<1>6. CASE WriteReport
  <2>1. valid.stage = "done" /\ UNCHANGED <<lib, valid, norm, closure>> /\ report'.fidelity = Fidelity
    BY <1>6 DEF WriteReport
  <2>2. norm.stage = "done"  BY <2>1 DEF IntakeInv
  <2>3. Assembled(lib) /\ closure.stage = "none" /\ ValidOk(lib, valid)
    BY <2>1, <2>2 DEF IntakeInv
  <2>4. Fidelity = "semantic" => Whole(lib, valid)  BY <2>1, <2>3, SemanticReport
  <2> QED  BY <2>1, <2>2, <2>3, <2>4 DEF IntakeInv
<1>7. CASE StartStubs
  <2>1. valid' = NoValidation /\ norm' = NoNormalization /\ closure' = NoClosure /\ report'.fidelity = "none"
    BY <1>7 DEF StartStubs
  <2> QED  BY <2>1 DEF IntakeInv
<1>8. CASE UNCHANGED <<lib, valid, norm, closure, report>>  BY <1>8 DEF IntakeInv
<1> QED  BY <1>1, <1>2, <1>3, <1>4, <1>5, <1>6, <1>7, <1>8 DEF Next, Rest, intakeVars

(* For every source, every schedule of the checks and every outcome of the *)
(* searches: at the end of a validation the accepted units type check,     *)
(* generate and link as reported, and every rejection has the cause that   *)
(* its reason names (compiler/intake/validate/build.py).                   *)
THEOREM VerdictsHold == Spec => []VerdictsAreRight
<1>1. IntakeInv => VerdictsAreRight
  <2> SUFFICES ASSUME IntakeInv, valid.stage \notin {"none", "failed"}
               PROVE  VerdictsAreRight
    BY DEF VerdictsAreRight, AcceptedTextBuilds, RejectionHasCause
  <2>1. ValidOk(lib, valid)  BY DEF IntakeInv
  <2>2. AcceptedTextBuilds  BY <2>1 DEF AcceptedTextBuilds, ValidOk, Built, Withdrawn
  <2>3. RejectionHasCause
    <3>1. (\E w \in Units(lib) : valid.status[w] # "ok" /\ HidesFault(lib, w)) => ListHidesFault
      BY DEF ListHidesFault, HidesFault
    <3>2. \A u \in Units(lib) : SinksWith(lib, u, valid.out) => SinksWith(lib, u, valid.out \cup valid.failing)
      BY SinksGrow
    <3> QED  BY <2>1, <3>1, <3>2 DEF RejectionHasCause, ValidOk, Caused, OwnCause, SinksWith
  <2> QED  BY <2>2, <2>3 DEF VerdictsAreRight
<1> QED  BY <1>1, IntakeInit, IntakeNext, PTL DEF Spec

(* A report of "semantic" fidelity is of a program none of whose text was  *)
(* blanked and that refers to nothing that was, in no file, and to no name *)
(* or symbol without a definition.                                         *)
THEOREM SemanticHolds == Spec => []SemanticIsWhole
<1>1. IntakeInv => SemanticIsWhole
  BY DEF IntakeInv, SemanticIsWhole, Whole, Own, OwnOf
<1> QED  BY <1>1, IntakeInit, IntakeNext, PTL DEF Spec
=============================================================================
