---------------------------- MODULE PostingCodec -----------------------------
(***************************************************************************)
(* How a posting is laid out on its way to a block: the flat list of the   *)
(* index cache, the serialised and delta-coded integers of a chunk, and    *)
(* the bytes of the variable-byte code.                                    *)
(*                                                                         *)
(* Cache layout of a posting:   FID tf (LID T E)^tf, with tf once more at  *)
(* the end of the list.  Block layout: FID tf LID^tf T^tf E^tf.            *)
(***************************************************************************)
EXTENDS Integers, Sequences, SequencesExt

CONSTANT Radix  \* the values of the 7 data bits of a byte: 128

ASSUME RadixAssumption == Radix \in Nat \ {0, 1}

-----------------------------------------------------------------------------
(* VByteCODEC: a byte is a digit, plus Radix if it is the last of a value. *)

\* The third threshold is missed by one.
Bug_ByteCount(n) ==
  CASE n < Radix -> 1 [] n < Radix^2 -> 2 [] n <= Radix^3 -> 3 [] n < Radix^4 -> 4 [] OTHER -> 5

ByteCount(n) ==
  CASE n < Radix -> 1 [] n < Radix^2 -> 2 [] n < Radix^3 -> 3 [] n < Radix^4 -> 4 [] OTHER -> 5

\* Every byte but the last is masked, which is cut to 8 bits.
ValueBytes(n) ==
  [i \in 1..ByteCount(n) |->
     IF i < ByteCount(n) THEN (n \div Radix^(i - 1)) % Radix
     ELSE LET digit == n \div Radix^(i - 1) IN IF digit < Radix THEN digit + Radix ELSE digit % (2 * Radix)]

VByteEncode(values) == FlattenSeq([i \in 1..Len(values) |-> ValueBytes(values[i])])

DecodeByte(state, c) ==
  LET e == state.e + (c % Radix) * state.weight
  IN  IF c >= Radix THEN [out |-> Append(state.out, e), e |-> 0, weight |-> 1]
      ELSE [out |-> state.out, e |-> e, weight |-> state.weight * Radix]

VByteDecode(bytes) == FoldLeft(DecodeByte, [out |-> <<>>, e |-> 0, weight |-> 1], bytes).out

-----------------------------------------------------------------------------
(* IndexCache::Update.                                                     *)

\* Whatever is in the list is kept a second time.
Bug_RepeatsKept(list, lf) == FALSE

\* The last occurrence is compared by its time only.
Bug_RepeatsByTime(list, lf) == list[Len(list) - 2] = lf[2]

\* The occurrence the list ends with, before the trailing count.
Repeats(list, lf) == SubSeq(list, Len(list) - 3, Len(list) - 1) = lf

\* The count after the FID is left as it was.
Bug_CountStays(list, FID, lf) ==
  LET open == Len(list) - 3 * Last(list) - 2
  IN  IF list # <<>> /\ list[open] = FID
      THEN IF Repeats(list, lf) THEN list ELSE Front(list) \o lf \o <<Last(list) + 1>>
      ELSE (IF list = <<>> THEN list ELSE Front(list)) \o <<FID, 1>> \o lf \o <<1>>

\* lf is <<LID, T, E>>.
Update(list, FID, lf) ==
  LET tf   == Last(list)
      open == Len(list) - 3 * tf - 2   \* where the last posting starts
      body == Front(list)
  IN  CASE list = <<>> -> <<FID, 1>> \o lf \o <<1>>
        [] list # <<>> /\ list[open] = FID ->
             IF Repeats(list, lf) THEN list
             ELSE [body EXCEPT ![open + 1] = @ + 1] \o lf \o <<tf + 1>>
        [] list # <<>> /\ list[open] < FID -> body \o <<FID, 1>> \o lf \o <<1>>

\* DoFlush's walk over the list, posting by posting up to the last.
CachedPostings(list) ==
  LET last == Len(list) - 3 * Last(list) - 2
      from[p \in Nat] ==
        IF p > last THEN <<>>
        ELSE LET size == 2 + 3 * list[p + 1]
             IN  <<SubSeq(list, p, p + size - 1)>> \o from[p + size]
  IN  IF list = <<>> THEN <<>> ELSE from[1]

-----------------------------------------------------------------------------
(* BlockEncoder.                                                           *)

\* The field of every occurrence of a posting: 0 is LID, 1 is T, 2 is E.
Fields(p, field) == [i \in 1..p[2] |-> p[2 + 3 * (i - 1) + field + 1]]

Deltas(s) == [i \in 1..Len(s) |-> IF i = 1 THEN s[1] ELSE s[i] - s[i - 1]]

Serialize(chunk, FIDo) ==
  FlattenSeq([n \in 1..Len(chunk) |->
    <<chunk[n][1] - (IF n = 1 THEN FIDo ELSE chunk[n - 1][1]), chunk[n][2]>>
      \o Deltas(Fields(chunk[n], 0)) \o Deltas(Fields(chunk[n], 1)) \o Fields(chunk[n], 2)])

Sums(s) == FoldLeft(LAMBDA acc, d : Append(acc, d + (IF acc = <<>> THEN 0 ELSE Last(acc))), <<>>, s)

\* DeltaCodec: FIDs, LIDs and Ts are summed up, errors are not.
DeltaDecode(v) ==
  LET from[p \in Nat, bfid \in Nat] ==
        IF p > Len(v) THEN <<>>
        ELSE LET tf == v[p + 1]
             IN  <<v[p] + bfid, tf>> \o Sums(SubSeq(v, p + 2, p + 1 + tf))
                   \o Sums(SubSeq(v, p + 2 + tf, p + 1 + 2 * tf))
                   \o SubSeq(v, p + 2 + 2 * tf, p + 1 + 3 * tf)
                   \o from[p + 2 + 3 * tf, v[p] + bfid]
  IN  from[1, 0]

EncodeChunk(chunk, FIDo) == VByteEncode(Serialize(chunk, FIDo))

DecodeBlock(bytes) == DeltaDecode(VByteDecode(bytes))
=============================================================================
