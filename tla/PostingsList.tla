---------------------------- MODULE PostingsList ----------------------------
(***************************************************************************)
(* The data of one postings list of the fingerprint index: the blocks it   *)
(* is cut into, their headers, and the delta coding of the fingerprint     *)
(* identifiers (FIDs) of their bodies.                                     *)
(*                                                                         *)
(* A posting is abstracted to its FID: the occurrences <LID, T, E> it      *)
(* carries play no part in the choice of a block, and the byte size of a   *)
(* coded posting is abstracted to one unit.  FIDs are 32-bit words in the  *)
(* code; FidMod stands for 2^32.                                           *)
(***************************************************************************)
EXTENDS Integers, Sequences, SequencesExt

CONSTANT FidMod

ASSUME FidModAssumption == FidMod \in Nat \ {0}

\* PListBlockHeader, and the zero-initialised header IsNull recognises.
NullHdr == [ID |-> 0, BodySize |-> 0, FIDmax |-> 0]

\* A record of the store: the list header (the number of blocks, kept in
\* the first block only), the block header and the coded body.
NoBlock == [lh |-> 0, hdr |-> NullHdr, body |-> <<>>]

BlockRecords ==
  [lh : Nat, hdr : [ID : Nat, BodySize : Nat, FIDmax : Nat], body : Seq(Nat)]

\* Bug_ operators are wrong forms of the definition after them, kept to show
\* that the properties notice: here the deltas are taken the wrong way round.
Bug_EncodeReversed(fids, base) ==
  [i \in 1..Len(fids) |-> (IF i = 1 THEN base ELSE fids[i - 1]) - fids[i]]

\* Serialize: the first FID is coded against base, every other one against
\* the posting before it, in unsigned arithmetic.
Encode(fids, base) ==
  [i \in 1..Len(fids) |->
     (fids[i] - (IF i = 1 THEN base ELSE fids[i - 1])) % FidMod]

\* DecodeBlock with DDECODE: FIDs are the running sums of the deltas, the
\* first one of a block being coded against zero.
Decode(body) ==
  LET sum[i \in 0..Len(body)] == IF i = 0 THEN 0 ELSE (sum[i - 1] + body[i]) % FidMod
  IN  [i \in 1..Len(body) |-> sum[i]]

\* PListIterator: the postings of the blocks 1, 2, ... of a list, up to the
\* first block that is missing or empty.  blocks maps block numbers to
\* records.
ListOf(blocks) ==
  LET Readable(n) == \A b \in 1..n : b \in DOMAIN blocks /\ blocks[b].body # <<>>
      Count == CHOOSE n \in 0..Cardinality(DOMAIN blocks) : Readable(n) /\ ~Readable(n + 1)
  IN  FlattenSeq([b \in 1..Count |-> Decode(blocks[b].body)])

StrictlyIncreasing(s) == \A i \in 1..(Len(s) - 1) : s[i] < s[i + 1]
=============================================================================
