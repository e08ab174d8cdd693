------------------------------ MODULE BVQuantizer ------------------------------
(***************************************************************************)
(* How a codebook comes to be: BVQuantizer clusters the descriptors of a   *)
(* set of fingerprints (k-medians), the codebook is saved, and a program   *)
(* that loads it quantizes with it.  Steps are those of the loops of       *)
(* KmeansPP and Kmedians; points are assigned in parallel, but each to     *)
(* fields of its own, so that a round is one step.                         *)
(***************************************************************************)
EXTENDS Codebook

CONSTANTS
  Descriptors, \* the descriptors there may be
  MaxPoints,   \* bound: points given
  K,           \* m_K
  MaxIt,       \* rounds after which the loop ends anyway, 30
  MaxChange,   \* changed points it ends with, in percent
  Written      \* where the writing of the file may end

ASSUME BVQuantizerAssumption ==
  /\ Descriptors \subseteq Vectors
  /\ {MaxPoints, K} \subseteq Nat \ {0} /\ MaxIt \in Nat /\ MaxChange \in 0..100
  /\ Written \subseteq 1 .. K * ClusterRecordSize

VARIABLES
  points,     \* m_Points: [bits, label, distance, changed]
  clusters,   \* m_Clusters
  pdf,        \* p of KmeansPP, a distance per point
  it,         \* rounds of Kmedians
  BitCounter, \* bits counted: of cluster c at x, <<zeros, ones>>
  stage,      \* "adding", "seeding", "clustering", "trained", "failed"
  file,       \* the file of the codebook
  loaded      \* the codebook loaded from it, <<>> before

vars == <<points, clusters, pdf, it, BitCounter, stage, file, loaded>>

Infinite == IDI + 1  \* numeric_limits<float>::max()

NewPoint(v) == [bits |-> v, label |-> -1, distance |-> 0, changed |-> FALSE]

NewCluster(id, v) == [ID |-> id, SumD |-> 0, Npoints |-> 0, Centroid |-> v]

NoBits == [c \in 1..K |-> [x \in 1..IDI |-> <<0, 0>>]]

Init ==
  /\ points = <<>> /\ clusters = <<>> /\ pdf = <<>> /\ it = 0
  /\ BitCounter = NoBits /\ stage = "adding" /\ file = <<>> /\ loaded = <<>>

addPoint(v) ==
  /\ stage = "adding" /\ Len(points) < MaxPoints
  /\ points' = Append(points, NewPoint(v))
  /\ UNCHANGED <<clusters, pdf, it, BitCounter, stage, file, loaded>>

-----------------------------------------------------------------------------
(* KmeansPP                                                                *)

\* Kmedians asserts that there are more points than clusters.
FirstSeed(h) ==
  /\ stage = "adding" /\ Len(points) > K
  /\ clusters' = <<NewCluster(0, points[h].bits)>>
  /\ pdf' = [i \in DOMAIN points |-> Infinite]
  /\ stage' = IF K = 1 THEN "clustering" ELSE "seeding"
  /\ UNCHANGED <<points, it, BitCounter, file, loaded>>

\* The generator of the first seed's index includes the number of points: the
\* point past the last is not one, and the program is taken to die of it.
SeedPastPoints ==
  /\ stage = "adding" /\ Len(points) > K
  /\ stage' = "failed"
  /\ UNCHANGED <<points, clusters, pdf, it, BitCounter, file, loaded>>

ToLastSeed(i) == Dh(points[i].bits, Last(clusters).Centroid)

\* Only the last seed counts.
Bug_LastSeedOnly(i) == ToLastSeed(i)

ToSeeds(i) == Min({ToLastSeed(i), pdf[i]})

\* A point is drawn with a probability that grows with its distance from the
\* seeds.  None is if all points are seeds (0/0), nor if the weights, rounded,
\* add up to less than the number drawn: the assertion on the number of
\* clusters fails.
NextSeed ==
  /\ stage = "seeding"
  /\ pdf' = [i \in DOMAIN points |-> ToSeeds(i)]
  /\ \/ \E v \in DOMAIN points :
          /\ pdf'[v] > 0
          /\ clusters' = Append(clusters, NewCluster(Len(clusters), points[v].bits))
          /\ stage' = IF Len(clusters') = K THEN "clustering" ELSE "seeding"
     \/ stage' = "failed" /\ UNCHANGED clusters
  /\ UNCHANGED <<points, it, BitCounter, file, loaded>>

-----------------------------------------------------------------------------
(* Kmedians                                                                *)

\* The first of the nearest.
Nearest(v) ==
  LET d == [c \in 1..K |-> Dh(v, clusters[c].Centroid)]
  IN  Min({c \in 1..K : \A e \in 1..K : d[c] <= d[e]})

Assigned(p) ==
  LET c == Nearest(p.bits)
  IN  [p EXCEPT !.label = c - 1, !.distance = Dh(p.bits, clusters[c].Centroid),
                !.changed = p.label # c - 1]

Members(ps, c) == {i \in DOMAIN ps : ps[i].label = c - 1}

\* The statistics of a cluster are added to.
CountIn(ps, c) ==
  LET is == Members(ps, c)
  IN  [clusters[c] EXCEPT !.Npoints = @ + Cardinality(is),
                          !.SumD = @ + FoldSet(LAMBDA i, s : s + ps[i].distance, 0, is)]

With(ps, c, x, bit) == Cardinality({i \in Members(ps, c) : ps[i].bits[x] = bit})

Bits(ps) ==
  [c \in 1..K |-> [x \in 1..IDI |->
    <<BitCounter[c][x][1] + With(ps, c, x, 0), BitCounter[c][x][2] + With(ps, c, x, 1)>>]]

\* The rarer bit is taken.
Bug_Minority(zeros, ones, bit) == IF zeros > ones THEN 1 ELSE IF zeros < ones THEN 0 ELSE bit

\* The majority of the cluster's points, and no change without one.
Majority(zeros, ones, bit) == IF zeros > ones THEN 0 ELSE IF zeros < ones THEN 1 ELSE bit

Median(c, bits) == [x \in 1..IDI |-> Majority(bits[x][1], bits[x][2], c.Centroid[x])]

\* The statistics are not reset.
Bug_StatsStay(c, v) == [c EXCEPT !.Centroid = v]

Moved(c, v) == [c EXCEPT !.Centroid = v, !.Npoints = 0, !.SumD = 0]

\* The counters are not reset.
Bug_CountersStay(bits) == bits

CountersAfter(bits) == NoBits

\* Whether another round follows.
Unstable(ps) ==
  /\ Cardinality({i \in DOMAIN ps : ps[i].changed}) * 100 > MaxChange * Len(ps)
  /\ it <= MaxIt

Cluster ==
  /\ stage = "clustering"
  /\ \E ps \in {[i \in DOMAIN points |-> Assigned(points[i])]} :
     \E cs \in {[c \in 1..K |-> CountIn(ps, c)]} : \E bits \in {Bits(ps)} :
       /\ points' = ps
       /\ IF Unstable(ps)
          THEN /\ clusters' = [c \in 1..K |-> Moved(cs[c], Median(cs[c], bits[c]))]
               /\ BitCounter' = CountersAfter(bits) /\ it' = it + 1 /\ UNCHANGED stage
          ELSE /\ clusters' = cs
               /\ BitCounter' = bits /\ stage' = "trained" /\ UNCHANGED it
  /\ UNCHANGED <<pdf, file, loaded>>

-----------------------------------------------------------------------------
(* Save, Load                                                              *)

\* A write that fails leaves the file as long as it got.
Save(n) ==
  /\ stage = "trained" /\ file = <<>>
  /\ file' = SubSeq(serialize(clusters), 1, n)
  /\ UNCHANGED <<points, clusters, pdf, it, BitCounter, stage, loaded>>

Load ==
  /\ loaded = <<>> /\ IsCodebook(file)
  /\ loaded' = deserialize(file)
  /\ UNCHANGED <<points, clusters, pdf, it, BitCounter, stage, file>>

Next ==
  \/ \E v \in Descriptors : addPoint(v)
  \/ \E h \in DOMAIN points : FirstSeed(h)
  \/ SeedPastPoints
  \/ NextSeed
  \/ Cluster
  \/ \E n \in Written : Save(n)
  \/ Load

Spec == Init /\ [][Next]_vars

-----------------------------------------------------------------------------
(* Properties.                                                             *)

Stages == {"adding", "seeding", "clustering", "trained", "failed"}

TypeOK ==
  /\ stage \in Stages /\ it \in 0..MaxIt + 1
  /\ \A i \in DOMAIN points : /\ points[i].bits \in Descriptors /\ points[i].label \in -1..K - 1
                              /\ points[i].distance \in 0..IDI /\ points[i].changed \in BOOLEAN
  /\ \A c \in DOMAIN clusters : clusters[c].Centroid \in Vectors /\ clusters[c].ID = c - 1
  /\ \A c \in 1..K : \A x \in 1..IDI : ToSet(BitCounter[c][x]) \subseteq 0..Len(points)

\* No two seeds are the same vector: KmeansPP draws no point that is a seed
\* already, although the points may hold a vector several times.
SeedsDistinct ==
  it = 0 => \A c, d \in DOMAIN clusters : c # d => clusters[c].Centroid # clusters[d].Centroid

\* A round of Kmedians never makes the sum of the points' distances grow: the
\* medians are no worse than the centroids before, nor the assignment to them.
TotalError(ps) == FoldSet(LAMBDA i, s : s + ps[i].distance, 0, DOMAIN ps)

ErrorNeverGrows ==
  [][stage = "clustering" /\ it > 0 => TotalError(points') <= TotalError(points)]_vars

\* The statistics of the clusters in the codebook are those of its own points:
\* those of the last assignment, once, and to the centroids they are saved with.
StatsOfLastRound ==
  stage = "trained" =>
    \A c \in 1..K :
      /\ clusters[c].Npoints = Cardinality(Members(points, c))
      /\ clusters[c].SumD =
           FoldSet(LAMBDA i, s : s + Dh(points[i].bits, clusters[c].Centroid), 0, Members(points, c))

\* Training starts from different words and ends with their own points.
ClustersSound == TypeOK /\ SeedsDistinct /\ StatsOfLastRound

\* A codebook that could be loaded is made of clusters of the trained one, in
\* order, even if the file was cut: never of pieces of two records, and of the
\* whole file, a rest of which makes deserialize refuse it.
LoadedIsPrefix ==
  loaded # <<>> => IsPrefix(loaded, clusters) /\ serialize(loaded) = file

\* The program that loads the codebook quantizes a descriptor it was made from
\* with the error training found, even if to another word: training takes the
\* first of the nearest clusters, quantize the last.
QuantizedAsTrained ==
  Len(loaded) = K => \A i \in DOMAIN points :
    LET q == quantize(loaded, points[i].bits)
    IN  /\ q.dist = Clipped(points[i].distance)
        /\ Dh(points[i].bits, loaded[q.word + 1].Centroid) = points[i].distance

\* What was trained is what is quantized with.
CodesKept == LoadedIsPrefix /\ QuantizedAsTrained

-----------------------------------------------------------------------------
(* A statement the code does not keep (README, section 5): no run has it.   *)

MoreExact(c, d) == c.Npoints > 0 /\ d.Npoints > 0 => c.SumD * d.Npoints <= d.SumD * c.Npoints

\* "Ties are broken by choosing the cluster with minimum ME", says quantize
\* (the mean error of a cluster is SumD / Npoints).
TiesByError ==
  Len(loaded) = K => \A v \in Descriptors :
    \A id \in MostSimilar(loaded, v) :
      MoreExact(loaded[quantize(loaded, v).word + 1], loaded[id + 1])
==============================================================================
