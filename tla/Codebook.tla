------------------------------- MODULE Codebook -------------------------------
(***************************************************************************)
(* The audio codes: clusters of descriptors, whose centroids are the words *)
(* local fingerprints are quantized to, and how they are kept in a file.   *)
(* A codebook is the sequence of its clusters, cluster c of the code is    *)
(* codebook[c + 1]; bit x of a vector v is v[x + 1].                       *)
(***************************************************************************)
EXTENDS Integers, Sequences, SequencesExt, FiniteSets, FiniteSetsExt

CONSTANTS
  IDI,       \* bits of a descriptor
  BlockBits, \* bits of a block of a binary vector (BITBLOCK_SIZE)
  MaxDist    \* greatest distance a fingerprint can hold, 255

ASSUME CodebookAssumption == {IDI, BlockBits, MaxDist} \subseteq Nat \ {0}

Vectors == [1..IDI -> {0, 1}]

\* Utils::Dh
Dh(v, w) == Cardinality({x \in DOMAIN v : v[x] # w[x]})

-----------------------------------------------------------------------------
(* quantize                                                                *)

Similarity(v, cluster) == IDI - Dh(v, cluster.Centroid)

\* Bug_ operators are wrong forms of the definition after them, kept to show
\* that the properties notice: here clusters below the best are kept.
Bug_AnySimilar(codebook, v) == {codebook[c].ID : c \in DOMAIN codebook}

\* The IDs of the most similar clusters.
MostSimilar(codebook, v) ==
  LET sims == {Similarity(v, codebook[c]) : c \in DOMAIN codebook}
  IN  {codebook[c].ID : c \in {d \in DOMAIN codebook : Similarity(v, codebook[d]) = Max(sims)}}

Clipped(dist) == IF dist <= MaxDist THEN dist ELSE MaxDist

\* Of clusters as similar as each other, the one with the greatest ID.
quantize(codebook, v) ==
  [word |-> Max(MostSimilar(codebook, v)),
   dist |-> Clipped(IDI - Max({Similarity(v, codebook[c]) : c \in DOMAIN codebook}))]

-----------------------------------------------------------------------------
(* serialize, deserialize: a record is three numbers and the blocks of the *)
(* centroid, here one element of the file each.                            *)

csize == (IDI + BlockBits - 1) \div BlockBits

ClusterRecordSize == 3 + csize

\* Bits beyond the vector's are zero.
Blocks(v) ==
  [b \in 1..csize |-> [i \in 1..BlockBits |->
     LET x == (b - 1) * BlockBits + i IN IF x <= IDI THEN v[x] ELSE 0]]

ClusterRecord(c) == <<c.ID, c.SumD, c.Npoints>> \o Blocks(c.Centroid)

serialize(codebook) == FlattenSeq([c \in DOMAIN codebook |-> ClusterRecord(codebook[c])])

\* The data pointer is not moved to the next record.
Bug_FirstRecord(w) == 0

RecordAt(w) == (w - 1) * ClusterRecordSize

ClusterAt(data, w) ==
  LET at == RecordAt(w)
  IN  [ID |-> data[at + 1], SumD |-> data[at + 2], Npoints |-> data[at + 3],
       Centroid |-> [x \in 1..IDI |->
         data[at + 4 + (x - 1) \div BlockBits][((x - 1) % BlockBits) + 1]]]

\* A rest of the data that is no record is passed over.
Bug_RestPassedOver(data) == Len(data) >= ClusterRecordSize

\* Otherwise deserialize throws.
IsCodebook(data) == data # <<>> /\ Len(data) % ClusterRecordSize = 0

deserialize(data) == [w \in 1..Len(data) \div ClusterRecordSize |-> ClusterAt(data, w)]
==============================================================================
