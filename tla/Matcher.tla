------------------------------- MODULE Matcher -------------------------------
(***************************************************************************)
(* The Matcher: it collects the LFs of the audio to identify, looks up     *)
(* batches of them in the index, document at a time (the iterators of all  *)
(* terms advance together), scores the documents in time histograms and    *)
(* accumulates the scores of the best.  One action is one call, or one     *)
(* round of the loop over documents.  Fingerprint FID n is Recordings[n].  *)
(***************************************************************************)
EXTENDS Terms, Functions

CONSTANTS
  Recordings,    \* the fingerprints of the data store: a sequence of LF sequences
  Queries,       \* bound: the LFs the client's audio may yield
  Modes,         \* match types
  HistoSizes,    \* bins the histogram may be given (SetMaxRecordingDuration)
  Nk,            \* LFs of a batch
  Tk,            \* time span of a bin
  Ntf,           \* LFs of the neighbourhood graphs
  Smax, IDI,     \* score of a match, greatest distance
  TopK,          \* scores kept
  TieMax,        \* documents of equal score kept
  Threshold,     \* m_RerankThreshold, in hundredths
  ReadsFail      \* whether the data store may throw

ASSUME MatcherAssumption ==
  /\ Modes \subseteq {"MSCALE", "XSCALE"} /\ HistoSizes \subseteq Nat
  /\ {Nk, Tk, Smax, IDI, TopK, TieMax} \subseteq Nat \ {0} /\ Nk > 1
  /\ Ntf \in Nat /\ Threshold \in 0..100 /\ ReadsFail \in BOOLEAN
  /\ \A r \in Range(Recordings) \cup Queries : \A i \in 1..Len(r) - 1 : r[i].T <= r[i + 1].T

VARIABLES
  type,    \* m_MatchType
  query,   \* the LFs of the client's audio
  Xk,      \* those received; LF k of the code is Xk[k + 1]
  ko,      \* m_ko, start of the batch
  H,       \* m_H, the time histogram [Ht, Bmax, out]
  TopKMc,  \* best documents of the batch: score -> sequence of [Qi, H]
  results, \* m_Results
  scan,    \* DoMatch: [on, kn, visits, FID, cur, eol, done]
  call,    \* "none", "Process" or "Flush"
  seen,    \* history: the scores of the documents of the batch
  failed   \* history: whether a read has failed: "no", "yes", "again" when what that
           \* left made the next match fail too, "reset" after a Reset

vars == <<type, query, Xk, ko, H, TopKMc, results, scan, call, seen, failed>>

-----------------------------------------------------------------------------
(* The index: the documents that have a term, with its occurrences (see    *)
(* OccurrenceIndex).                                                       *)

Positions(mt, r, term) == {i \in 1..Len(r) : term \in ToSet(TermsOf(mt, r, i))}

PostingFor(mt, fid, term) ==
  LET r  == Recordings[fid]
      is == SetToSortSeq(Positions(mt, r, term), <)
  IN  [FID |-> fid, occ |-> [n \in 1..Len(is) |-> [LID |-> is[n], T |-> r[is[n]].T, E |-> r[is[n]].E]]]

PostingsFor(mt, term) ==
  LET fids == SetToSortSeq({f \in 1..Len(Recordings) : Positions(mt, Recordings[f], term) # {}}, <)
  IN  [n \in 1..Len(fids) |-> PostingFor(mt, fids[n], term)]

Indexed ==
  [mt \in Modes |->
    LET terms == UNION {ToSet(TermsOf(mt, r, i)) : <<r, i>> \in
                          UNION {{<<q, n>> : n \in 1..Len(q)} : q \in Range(Recordings)}}
    IN  [term \in terms |-> PostingsFor(mt, term)]]

\* What GetPListIterator iterates over.
ListOf(term) == IF term \in DOMAIN Indexed[type] THEN Indexed[type][term] ELSE <<>>

-----------------------------------------------------------------------------
(* Time clustering of one occurrence (Sij) of a term of query LF k.        *)

NewBin == [score |-> 0, last |-> 0, torder |-> 0, info |-> [l \in {} |-> 0]]

\* out: a bin beyond the histogram was touched, whatever that does.
NewHisto(size) == [Ht |-> [b \in 0..size - 1 |-> NewBin], Bmax |-> 0, out |-> FALSE]

Size(h) == Cardinality(DOMAIN h.Ht)

Resize(h, size) ==
  [h EXCEPT !.Ht = [b \in 0..size - 1 |-> IF b \in DOMAIN h.Ht THEN h.Ht[b] ELSE NewBin]]

\* The best bin is not reset.
Bug_BestBinStays(h) == [NewHisto(Size(h)) EXCEPT !.out = h.out, !.Bmax = h.Bmax]

\* Reset keeps the size.
ResetHisto(h) == [NewHisto(Size(h)) EXCEPT !.out = h.out]

\* Bug_ operators are wrong forms of the definition after them: here a
\* histogram that is grown by a tenth of nothing.
Bug_GrowToBin(h, b) == IF b >= Size(h) THEN Resize(h, b) ELSE h

\* Resize(bin * 1.1)
Room(b) == (11 * b) \div 10

Grown(h, b) == IF b >= Size(h) THEN Resize(h, Room(b)) ELSE h

Near(e1, e2) == (Smax * (IDI - (IF e1 < e2 THEN e2 - e1 ELSE e1 - e2))) \div IDI

\* The bin after the match of LF k with the occurrence.
Scored(bin, k, occ, lf) ==
  LET inorder == occ.T - bin.last >= -2
      torder  == bin.torder + (IF inorder THEN 1 ELSE 0)
      info    == [l \in DOMAIN bin.info \cup {occ.LID} |-> IF l = occ.LID THEN k ELSE bin.info[l]]
      order   == IF inorder THEN (Smax * torder) \div Cardinality(DOMAIN info) ELSE 0
  IN  [score |-> bin.score + Near(lf.E, occ.E) + order, last |-> occ.T, torder |-> torder, info |-> info]

\* A candidate LF is scored once in M-scale; in X-scale again by its pivot.
CanScore(mt, bin, k, lid) ==
  lid \in DOMAIN bin.info => mt = "XSCALE" /\ bin.info[lid] = k

\* The bin is not marked.
Bug_NotMarked(scored, b) == scored

\* An LF scores one candidate per bin.
Marked(scored, b) == scored \cup {b}

\* scored: the bins LF k has already scored with this posting.
ScoreOccurrence(mt, acc, k, occ) ==
  LET b == occ.T \div Tk
      h == Grown(acc.h, b)
  IN  IF b \in acc.scored THEN acc
      ELSE IF {b, h.Bmax} \ DOMAIN h.Ht # {} THEN [acc EXCEPT !.h = [h EXCEPT !.out = TRUE]]
      ELSE IF ~CanScore(mt, h.Ht[b], k, occ.LID) THEN [acc EXCEPT !.h = h]
      ELSE LET bin == Scored(h.Ht[b], k, occ, Xk[k])
           IN  [h |-> [h EXCEPT !.Ht[b] = bin,
                                !.Bmax = IF b = @ \/ bin.score > h.Ht[@].score THEN b ELSE @],
                scored |-> Marked(acc.scored, b)]

ScorePosting(mt, h, k, occ) ==
  FoldLeft(LAMBDA acc, o : ScoreOccurrence(mt, acc, k, o), [h |-> h, scored |-> {}], occ).h

-----------------------------------------------------------------------------
(* One round of FindCandidatesSWords or FindCandidatesBWords.  (That the   *)
(* latter skips batches of one LF changes nothing: there are none.)        *)

\* The terms that are visited, each with its LF; in X-scale the partners may
\* lie beyond the batch.
Visits(kn) ==
  FlattenSeq([n \in 1..kn - ko |->
    LET terms == TermsOf(type, Xk, ko + n) IN [j \in 1..Len(terms) |-> [k |-> ko + n, term |-> terms[j]]]])

\* A posting ahead of the current document is consumed too.
Bug_Skips(list, at, FID) == at <= Len(list)

Here(list, at, FID) == at <= Len(list) /\ list[at].FID = FID

Visit(s, v) ==
  LET list == ListOf(v.term)
      at   == s.cur[v.term]
  IN  [s EXCEPT !.eol = IF at > Len(list) THEN @ \cup {v.term} ELSE @,
                !.cur[v.term] = IF Here(list, @, s.FID) THEN @ + 1 ELSE @,
                !.h = IF Here(list, at, s.FID) THEN ScorePosting(type, @, v.k, list[at].occ) ELSE @]

VisitFirst(n) ==
  FoldLeft(Visit, [h |-> H, cur |-> scan.cur, eol |-> scan.eol, FID |-> scan.FID],
           SubSeq(scan.visits, 1, n))

\* The loop ends with the first list that is exhausted.
Bug_AnyExhausted(s) == s.eol # {} \/ DOMAIN s.cur = {}

Exhausted(s) == Cardinality(s.eol) >= Cardinality(DOMAIN s.cur)

-----------------------------------------------------------------------------
(* Top lists: functions from scores, the worst of which goes when there    *)
(* are too many.                                                           *)

Best(scores) == CHOOSE s \in scores : \A t \in scores : t <= s
Worst(scores) == CHOOSE s \in scores : \A t \in scores : s <= t

\* The best score goes.
Bug_CutBest(top) ==
  IF Cardinality(DOMAIN top) > TopK THEN Restrict(top, DOMAIN top \ {Best(DOMAIN top)}) ELSE top

CutOff(top) ==
  IF Cardinality(DOMAIN top) > TopK THEN Restrict(top, DOMAIN top \ {Worst(DOMAIN top)}) ELSE top

EmptyTop == [s \in {} |-> <<>>]

TiesKept == IF type = "MSCALE" THEN TieMax + 1 ELSE TieMax

AddTop(top, score, doc) ==
  LET ties == IF score \in DOMAIN top THEN top[score] ELSE <<>>
      kept == IF Len(ties) < TiesKept THEN Append(ties, doc) ELSE ties
  IN  IF score <= 2 * Smax THEN top
      ELSE CutOff([s \in DOMAIN top \cup {score} |-> IF s = score THEN kept ELSE top[s]])

-----------------------------------------------------------------------------
(* GraphMatching: pairs of LFs near a match, in the query and in the       *)
(* recording, are compared by their distances.                             *)

Rounded(x, q) == (2 * x + q) \div (2 * q)

\* 8 bits for each distance.
Edge(s, i, j, ref) ==
  LET t(n) == Rounded(s[n].T, qT)
      f(n) == Rounded(s[n].F, qF)
  IN  <<(t(j) - t(i)) % 256, (f(j) - f(i)) % 256, (t(ref) - t(i)) % 256, (f(ref) - f(i)) % 256>>

\* Of the pairs with the same edge the last stays.
Graph(s, from, to, ref) ==
  LET pairs == {<<i, j>> \in (from..to) \X (from..to) : i < j}
      edge  == [p \in pairs |-> Edge(s, p[1], p[2], ref)]
      later(p, q) == p[1] > q[1] \/ (p[1] = q[1] /\ p[2] >= q[2])
  IN  [e \in Range(edge) |->
         CHOOSE p \in pairs : edge[p] = e /\ \A q \in pairs : edge[q] = e => later(p, q)]

Least(a, b) == IF a < b THEN a ELSE b

\* The pairs that LF k and LF lid of the recording have in common.
CommonPairs(r, k, lid) ==
  LET before == Least(Ntf \div 2, k - 1)
      after  == Least(Ntf \div 2, Len(Xk) - k)
      Hx == Graph(Xk, k - before, k + after, k)
      Hq == Graph(r, lid - Least(lid - 1, before), lid + Least(after, Len(r) - lid), lid)
  IN  {<<Hq[e], Hx[e]>> : e \in DOMAIN Hq \cap DOMAIN Hx}

Alike(p, q) == IF p.W = q.W THEN Near(p.E, q.E) ELSE 0

\* Half of a pair's score goes to the bin of each of its LFs.
Half(r, pair) ==
  (Smax + Alike(r[pair[1][1]], Xk[pair[2][1]]) + Alike(r[pair[1][2]], Xk[pair[2][2]])) \div 2

Bin(lf) == lf.T \div Tk

\* The LFs matched in a bin of a document, each with a pair it has in common.
Matches(doc, bin) ==
  UNION {{<<lid, c>> : c \in CommonPairs(Recordings[doc.Qi], doc.Ht[bin].info[lid], lid)} :
           lid \in DOMAIN doc.Ht[bin].info}

\* Hr is as large as the histogram of the scan, and is resized for each pair
\* with a bin beyond that, to less than before if the bin is an earlier one.
RerankFits(doc, bin) ==
  LET bins   == {Bin(Recordings[doc.Qi][m[2][1][2]]) : m \in Matches(doc, bin)}
      beyond == {b \in bins : b >= Size(H)}
  IN  \A b, c \in beyond : c < Room(b)

\* The histogram Hr of the matches in a bin of a document.
Reranked(doc, bin) ==
  LET r  == Recordings[doc.Qi]
      ms == Matches(doc, bin)
      in(m, b) == Cardinality({n \in {1, 2} : Bin(r[m[2][1][n]]) = b})
  IN  [b \in {Bin(r[i]) : i \in DOMAIN r} |-> SumFunction([m \in ms |-> in(m, b) * Half(r, m[2])])]

BestShare(hr) == Best(Range(hr))

\* The bins that are reranked: peaks of the histogram that score enough.
Peaks(doc) ==
  {b \in DOMAIN doc.Ht : /\ doc.Ht[b].score > 3 * Smax
                         /\ \A j \in (b - 3..b + 3) \cap DOMAIN doc.Ht : doc.Ht[j].score <= doc.Ht[b].score}

\* What a document earns, and the bins that may be taken for the matching
\* time: of equal bins the one an unordered table shows first.
RerankEvidence(doc) ==
  LET hrs   == [b \in Peaks(doc) |-> Reranked(doc, b)]
      top   == {b \in DOMAIN hrs : \A c \in DOMAIN hrs : BestShare(hrs[c]) <= BestShare(hrs[b])}
      first == hrs[Worst(top)]
  IN  IF top = {} THEN [score |-> 0, bins |-> {0}]
      ELSE [score |-> SumFunction([b \in DOMAIN hrs |-> BestShare(hrs[b])]),
            bins  |-> {b \in DOMAIN first : first[b] = BestShare(first)}]

\* The best bin was not kept up to date.
Bug_FirstBin(doc) == [score |-> doc.Ht[doc.Bmax].score, bins |-> {0}]

PlainEvidence(doc) == [score |-> doc.Ht[doc.Bmax].score, bins |-> {doc.Bmax}]

\* Unless the best score stands out.
Reranks ==
  LET top1 == Best(DOMAIN TopKMc)
      rest == DOMAIN TopKMc \ {top1}
      top2 == IF rest = {} THEN 0 ELSE Best(rest)
  IN  100 * (top1 - top2) <= Threshold * (top1 + top2)

Docs == UNION {Range(TopKMc[s]) : s \in DOMAIN TopKMc}

\* Otherwise reranking stops at an exception or an assertion: the LFs of the
\* pairs are in the query and in the recording.
Consistent(doc) ==
  Reranks => \A b \in Peaks(doc) : LET info == doc.Ht[b].info IN
    /\ info # NewBin.info => doc.Qi \in DOMAIN Recordings /\ DOMAIN info \subseteq DOMAIN Recordings[doc.Qi]
    /\ Range(info) \subseteq DOMAIN Xk

Evidence == [doc \in {d \in Docs : Consistent(d)} |-> IF Reranks THEN RerankEvidence(doc) ELSE PlainEvidence(doc)]

-----------------------------------------------------------------------------
NoScan == [on |-> FALSE, kn |-> 0, visits |-> <<>>, FID |-> 1, cur |-> [t \in {} |-> 1], eol |-> {}, done |-> FALSE]

NoResults == [Qc |-> [q \in {} |-> 0], Top_K |-> EmptyTop]

Init ==
  /\ type \in Modes /\ query \in Queries /\ Xk = <<>> /\ ko = 0
  /\ \E n \in HistoSizes : H = NewHisto(n)
  /\ TopKMc = EmptyTop /\ results = NoResults /\ scan = NoScan /\ call = "none" /\ seen = <<>>
  /\ failed = "no"

\* Process appends the LFs and then matches the batches that are complete.
\* (Bound: a client whose matcher failed again resets it.)
Process(n) ==
  /\ call = "none" /\ failed # "again"
  /\ n <= Len(query) - Len(Xk)
  /\ Xk' = Xk \o SubSeq(query, Len(Xk) + 1, Len(Xk) + n)
  /\ call' = "Process"
  /\ UNCHANGED <<type, query, ko, H, TopKMc, results, scan, seen, failed>>

BeginScan(kn) ==
  /\ \E vs \in {Visits(kn)} :
       scan' = [NoScan EXCEPT !.on = TRUE, !.kn = kn, !.visits = vs,
                              !.cur = [t \in {vs[n].term : n \in DOMAIN vs} |-> 1]]
  /\ seen' = <<>>
  /\ UNCHANGED <<type, query, Xk, ko, H, TopKMc, results, failed>>

NextBatch ==
  /\ call = "Process" /\ ~scan.on
  /\ Len(Xk) - ko >= Nk
  /\ BeginScan(ko + Nk)
  /\ UNCHANGED call

ProcessReturns ==
  /\ call = "Process" /\ ~scan.on
  /\ Len(Xk) - ko < Nk
  /\ call' = "none"
  /\ UNCHANGED <<type, query, Xk, ko, H, TopKMc, results, scan, seen, failed>>

\* One LF alone is not matched.
Flush ==
  /\ call = "none" /\ failed # "again"
  /\ Len(Xk) - ko >= 2
  /\ call' = "Flush"
  /\ BeginScan(Len(Xk))

\* A round of the loop: all lists that are at document FID score it.
ScoreDocument ==
  /\ scan.on /\ ~scan.done
  /\ \E s \in {VisitFirst(Len(scan.visits))} :
       LET doc   == [Qi |-> scan.FID, Ht |-> s.h.Ht, Bmax |-> s.h.Bmax]
           score == IF s.h.Bmax \in DOMAIN s.h.Ht THEN s.h.Ht[s.h.Bmax].score ELSE 0
       IN  /\ TopKMc' = AddTop(TopKMc, score, doc)
           /\ H' = [ResetHisto(s.h) EXCEPT !.out = s.h.out \/ s.h.Bmax \notin DOMAIN s.h.Ht]
           /\ scan' = [scan EXCEPT !.FID = @ + 1, !.cur = s.cur, !.eol = s.eol, !.done = Exhausted(s)]
           /\ seen' = Append(seen, score)
  /\ UNCHANGED <<type, query, Xk, ko, results, call, failed>>

\* What was there is replaced.
Bug_Replaces(Qc, evidence) ==
  [q \in DOMAIN Qc \cup {d.Qi : d \in DOMAIN evidence} |->
     IF \A d \in DOMAIN evidence : d.Qi # q THEN Qc[q]
     ELSE LET ev == evidence[CHOOSE d \in DOMAIN evidence : d.Qi = q] IN [Ac |-> ev.score, bin |-> ev.bin]]

\* The results after the evidence for some documents; a document without any
\* gets no entry.
WithEvidence(Qc, evidence) ==
  LET earns(q) == {d \in DOMAIN evidence : d.Qi = q /\ evidence[d].score > 0}
      ac(q)    == IF q \in DOMAIN Qc THEN Qc[q].Ac ELSE 0
      bins(q)  == {evidence[d].bin : d \in earns(q)}
  IN  [q \in DOMAIN Qc \cup {d.Qi : d \in {e \in DOMAIN evidence : evidence[e].score > 0}} |->
         IF earns(q) = {} THEN Qc[q]
         ELSE [Ac  |-> ac(q) + SumFunction([d \in earns(q) |-> evidence[d].score]),
               bin |-> CHOOSE bin \in bins(q) : TRUE]]

\* ... with one of the bins for each.
Chosen(evidence) ==
  {ev \in [DOMAIN evidence -> [score : {e.score : e \in Range(evidence)}, bin : UNION {e.bins : e \in Range(evidence)}]] :
     \A d \in DOMAIN ev : ev[d].score = evidence[d].score /\ ev[d].bin \in evidence[d].bins}

Ranked(Qc) ==
  LET scores == {Qc[q].Ac : q \in DOMAIN Qc}
      kept   == {s \in scores : Cardinality({t \in scores : t > s}) < TopK}
  IN  [s \in kept |-> {q \in DOMAIN Qc : Qc[q].Ac = s}]

\* The candidates stay for the next batch.
Bug_CandidatesStay == TopKMc

Cleared == EmptyTop

\* The rest of DoMatch, and of the iteration of Process or Flush.
Accumulate ==
  /\ scan.done
  /\ \A d \in Docs : Consistent(d)
  /\ IF Docs = {} THEN UNCHANGED results
     ELSE \E ev \in {Evidence} : \E chosen \in Chosen(ev) : \E Qc \in {WithEvidence(results.Qc, chosen)} :
            results' = [Qc |-> Qc, Top_K |-> Ranked(Qc)]
  /\ TopKMc' = Cleared
  /\ ko' = scan.kn /\ scan' = NoScan
  /\ call' = IF call = "Flush" THEN "none" ELSE call
  /\ H' = [H EXCEPT !.out = @ \/ (Docs # {} /\ Reranks /\ \E d \in Docs : \E b \in Peaks(d) : ~RerankFits(d, b))]
  /\ UNCHANGED <<type, query, Xk, seen, failed>>

\* The data store throws while a document is scored...
ScanThrows ==
  /\ ReadsFail /\ failed = "no" /\ scan.on /\ ~scan.done
  /\ \E n \in 0..Len(scan.visits) : H' = VisitFirst(n).h
  /\ scan' = NoScan /\ call' = "none" /\ failed' = "yes"
  /\ UNCHANGED <<type, query, Xk, ko, TopKMc, results, seen>>

\* ... or while the candidates are reranked; or the candidates are wrong.
RerankThrows ==
  /\ scan.done /\ Docs # {} /\ Reranks
  /\ \/ ReadsFail /\ failed = "no" /\ failed' = "yes"
     \/ (\E d \in Docs : ~Consistent(d)) /\ failed' = "again"
  /\ \E ev \in {Evidence} : \E chosen \in Chosen(ev), ds \in SUBSET DOMAIN ev :
       results' = [results EXCEPT !.Qc = WithEvidence(@, Restrict(chosen, ds))]
  /\ scan' = NoScan /\ call' = "none"
  /\ UNCHANGED <<type, query, Xk, ko, H, TopKMc, seen>>

\* The histogram is left as it is.
Reset ==
  /\ call = "none"
  /\ query' \in Queries
  /\ Xk' = <<>> /\ ko' = 0 /\ TopKMc' = EmptyTop /\ results' = NoResults
  /\ failed' = IF failed = "no" THEN "no" ELSE "reset"
  /\ UNCHANGED <<type, H, scan, call, seen>>

\* (Bound: as long as nothing failed.)
SetMaxRecordingDuration(n) ==
  /\ call = "none" /\ failed = "no" /\ n # Size(H)
  /\ H' = Resize(H, n)
  /\ UNCHANGED <<type, query, Xk, ko, TopKMc, results, scan, call, seen, failed>>

Next ==
  \/ \E n \in 1..Len(query) : Process(n)
  \/ NextBatch \/ ProcessReturns \/ Flush \/ ScoreDocument \/ Accumulate
  \/ ScanThrows \/ RerankThrows \/ Reset
  \/ \E n \in HistoSizes : SetMaxRecordingDuration(n)

Spec == Init /\ [][Next]_vars

-----------------------------------------------------------------------------
(* Properties.                                                             *)

IsHisto(Ht) ==
  \A b \in DOMAIN Ht : /\ {Ht[b].score, Ht[b].last, Ht[b].torder} \subseteq Nat
                       /\ \A l \in DOMAIN Ht[b].info : Ht[b].info[l] \in 1..Len(Xk)

\* Batches begin and end within what was received, and between two documents
\* the histogram is empty, whatever its size.
TypeOK ==
  /\ type \in Modes /\ query \in Queries /\ IsPrefix(Xk, query) /\ ko \in 0..Len(Xk)
  /\ call \in {"none", "Process", "Flush"} /\ (scan.on => call # "none" /\ scan.kn \in ko + 2..Len(Xk))
  /\ failed = "no" =>
       /\ H = [NewHisto(Size(H)) EXCEPT !.out = H.out]
       /\ \A d \in Docs : d.Qi \in 1..Len(Recordings) /\ IsHisto(d.Ht)
       /\ \A q \in DOMAIN results.Qc : q \in 1..Len(Recordings) /\ results.Qc[q].Ac \in Nat

\* No list runs ahead or falls behind of the documents, and the loop ends, one
\* round after the last document, only when every list was read to its end:
\* no document with a term of the batch is left out.
ListsReadThrough ==
  scan.on =>
    /\ \A t \in DOMAIN scan.cur : LET list == ListOf(t) IN
         /\ \A n \in DOMAIN list : list[n].FID < scan.FID <=> n < scan.cur[t]
         /\ scan.done => scan.cur[t] > Len(list)
    /\ \A t \in DOMAIN scan.cur : scan.FID <= Len(Recordings) + 2

\* The evidence for a document is its own: the LFs it was scored for exist in
\* it, lie in that bin and share a term with the query's LF.
IsOwnEvidence ==
  \A d \in Docs : \A b \in DOMAIN d.Ht : \A l \in DOMAIN d.Ht[b].info :
    LET r == Recordings[d.Qi]
    IN  /\ l \in DOMAIN r /\ Bin(r[l]) = b
        /\ ToSet(TermsOf(type, r, l)) \cap ToSet(TermsOf(type, Xk, d.Ht[b].info[l])) # {}

OwnEvidence == failed = "no" => IsOwnEvidence

\* No document is a candidate twice, with evidence that would count twice.
CandidateOnce ==
  failed = "no" =>
  \A s, t \in DOMAIN TopKMc : \A i \in DOMAIN TopKMc[s], j \in DOMAIN TopKMc[t] :
    TopKMc[s][i].Qi = TopKMc[t][j].Qi => s = t /\ i = j

\* The candidates are the documents with the TopK best scores of those seen,
\* the first ones where too many have the same.
TopIsBest ==
  scan.on /\ failed = "no" =>
    LET good == {s \in Range(seen) : s > 2 * Smax}
    IN  /\ DOMAIN TopKMc = {s \in good : Cardinality({t \in good : t > s}) < TopK}
        /\ \A s \in DOMAIN TopKMc :
             /\ Len(TopKMc[s]) = Least(TiesKept, Cardinality({q \in DOMAIN seen : seen[q] = s}))
             /\ \A i \in DOMAIN TopKMc[s] : seen[TopKMc[s][i].Qi] = s

\* In M-scale a query LF scores one candidate LF of a bin, and a candidate LF
\* is scored once: no bin scores more than a perfect match of its LFs would.
ScoredOnce ==
  type = "MSCALE" /\ failed = "no" =>
    \A d \in Docs : \A b \in DOMAIN d.Ht :
      /\ IsInjective(d.Ht[b].info)
      /\ d.Ht[b].score <= 2 * Smax * Cardinality(DOMAIN d.Ht[b].info)

\* A time that is reported as the matching time is one where the recording
\* has LFs.
CueInRecording ==
  failed = "no" =>
  \A q \in DOMAIN results.Qc : \E i \in DOMAIN Recordings[q] : Bin(Recordings[q][i]) = results.Qc[q].bin

\* The histogram is large enough for every time of every recording: what
\* growing it on demand is for.
BinInRange == failed = "no" => ~H.out

\* The evidence of a document is its own, all of it, and counted once.
EvidenceRight ==
  /\ TypeOK /\ BinInRange
  /\ OwnEvidence /\ CandidateOnce /\ ScoredOnce /\ CueInRecording

\* What the recognizer builds on (Matched in module Recognizer): until a
\* reset, best matches are not lost and the best score only grows.
BestOnlyGrows ==
  [][Xk' # <<>> /\ results.Top_K # EmptyTop =>
       /\ results'.Top_K # EmptyTop
       /\ Best(DOMAIN results.Top_K) <= Best(DOMAIN results'.Top_K)]_vars

-----------------------------------------------------------------------------
(* A statement the code does not keep (README, section 5): no run has it.   *)

\* The evidence is a document's own, too, once a matcher was reset after a
\* failed read: "Reset the internal state of the matching" (Matcher.h:244).
OwnAfterReset == failed \in {"no", "reset"} => IsOwnEvidence
=============================================================================
