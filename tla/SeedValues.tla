----------------------------- MODULE SeedValues -----------------------------
(***************************************************************************)
(* The simpler values the seed reducer tries for a record, in the order it *)
(* tries them.  A value is a sequence of integers: a Boolean or an integer *)
(* n is <<n>>, a float is <<n>> for n / FloatUnit, a text is <<n>> for the *)
(* first n characters of the text in the seed, and a byte string written   *)
(* as 0x... (hex) is the sequence of its bytes.                            *)
(***************************************************************************)
EXTENDS Integers, Sequences, SequencesExt

CONSTANT FloatUnit         \* floats are multiples of 1 / FloatUnit

INTEGER_BOUNDS ==
  [SINT |-> <<-128, 127>>, USINT |-> <<0, 255>>, BYTE |-> <<0, 255>>,
   INT |-> <<-32768, 32767>>, UINT |-> <<0, 65535>>, WORD |-> <<0, 65535>>,
   CHAR |-> <<0, 255>>]

FLOAT_TYPES == {"REAL", "LREAL"}
STRING_TYPES == {"STRING", "WSTRING"}
BYTE_TYPES == {"POINTER", "ARRAY"}

\* The entries of s in order, each at its first occurrence.
OrderedUnique(s) ==
  LET First == {i \in DOMAIN s : \A j \in 1 .. i - 1 : s[j] # s[i]}
      Order == SetToSortSeq(First, <)
  IN  [k \in DOMAIN Order |-> s[Order[k]]]

Abs(n) == IF n < 0 THEN -n ELSE n

\* n / 2, n / 4, ... rounded towards zero, until the limit is reached.
Halves(n, limit) ==
  LET h[m \in Nat] == IF m <= limit THEN << >>
                      ELSE <<m \div 2>> \o h[m \div 2]
  IN  [k \in DOMAIN h[Abs(n)] |-> IF n < 0 THEN -h[Abs(n)][k] ELSE h[Abs(n)][k]]

\* 1, -1, 2, -2, 4, -4, ... for the powers of two below n.
SignedPowers(n) ==
  LET p[m \in Nat] == IF m >= n THEN << >> ELSE <<m, -m>> \o p[2 * m]
  IN  p[1]

IntegerCandidates(original, bounds) ==
  LET lo == bounds[1]
      hi == bounds[2]
      Raw == <<0, 1, -1>> \o Halves(original, 1) \o SignedPowers(Abs(original))
             \o SelectSeq(<<lo, hi, lo + 1, hi - 1>>,
                          LAMBDA b : Abs(b) <= Abs(original))
      Legal(v) == lo <= v /\ v <= hi /\ v # original
  IN  OrderedUnique(SelectSeq(Raw, Legal))

FloatCandidates(original) ==
  OrderedUnique(SelectSeq(<<0, FloatUnit, -FloatUnit>> \o Halves(original, FloatUnit),
                          LAMBDA v : v # original))

\* Prefixes, given by their lengths.
StringCandidates(length) ==
  LET Shorter == SelectSeq(<<2, 4, 8, 16, 32, 64, 128>>, LAMBDA n : n < length)
  IN  OrderedUnique(SelectSeq(<<0, IF length = 0 THEN 0 ELSE 1>>
                              \o Halves(length, 0) \o Shorter,
                              LAMBDA n : n # length))

Zeros(n) == [k \in 1 .. n |-> 0]

\* For every chunk of the given size: the data without it, then with it cleared.
ChunkEdits(data, chunk) ==
  LET n == Len(data)
      Starts == {s \in 0 .. n - 1 : s % chunk = 0}
      Cut(s) == SubSeq(data, 1, s) \o SubSeq(data, s + chunk + 1, n)
      Cleared(s) == [k \in 1 .. n |-> IF k \in s + 1 .. s + chunk THEN 0 ELSE data[k]]
      Order == SetToSortSeq(Starts, <)
  IN  FlattenSeq([k \in DOMAIN Order |-> <<Cut(Order[k]), Cleared(Order[k])>>])

HexByteCandidates(data) ==
  LET n == Len(data)
      Half == IF n < 2 THEN 1 ELSE n \div 2
      Chunks == <<Half>> \o SelectSeq(Halves(Half, 0), LAMBDA c : c > 0)
      Prefixed == SelectSeq(Halves(n, 0), LAMBDA c : c > 0)
      Raw == <<<<>>, <<0>>, Zeros(n)>>
             \o [k \in DOMAIN Prefixed |-> SubSeq(data, 1, Prefixed[k])]
             \o FlattenSeq([k \in DOMAIN Chunks |-> ChunkEdits(data, Chunks[k])])
  IN  OrderedUnique(SelectSeq(Raw, LAMBDA v : v # data))

Wrap(s) == [k \in DOMAIN s |-> <<s[k]>>]

ValueCandidates(r) ==
  CASE r.ty = "BOOL" -> Wrap(SelectSeq(<<0, 1>>, LAMBDA v : <<v>> # r.value))
    [] r.ty \in DOMAIN INTEGER_BOUNDS ->
         Wrap(IntegerCandidates(r.value[1], INTEGER_BOUNDS[r.ty]))
    [] r.ty \in FLOAT_TYPES -> Wrap(FloatCandidates(r.value[1]))
    [] r.ty \in STRING_TYPES -> Wrap(StringCandidates(r.value[1]))
    [] r.ty \in BYTE_TYPES /\ r.hex -> HexByteCandidates(r.value)
    [] r.ty \in BYTE_TYPES /\ ~r.hex -> Wrap(StringCandidates(r.value[1]))
    [] OTHER -> << >>

\* The record with the value its type defaults to.
WithDefault(r) ==
  IF r.ty \in BYTE_TYPES THEN [r EXCEPT !.value = <<0>>, !.hex = TRUE]
  ELSE [r EXCEPT !.value = <<0>>]
=============================================================================
