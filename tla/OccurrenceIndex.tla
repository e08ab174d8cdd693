-------------------------- MODULE OccurrenceIndex ---------------------------
(***************************************************************************)
(* From the local fingerprints (LFs) of recordings to the occurrences a    *)
(* reader finds in the lists, byte for byte: terms, index cache, chunks,   *)
(* blocks and PListIterator.  The store is a faithful one (see             *)
(* IndexingSession and CBSession for those that are not); flushes are      *)
(* atomic and fall between the steps of a reader.                          *)
(***************************************************************************)
EXTENDS PostingCodec, TermCodes

CONSTANTS
  Recordings,   \* the recordings: sequences of [T, F, W, E], in order of T
  Modes,        \* \subseteq {"MSCALE", "XSCALE"}
  Gaps,         \* bound: the steps the client's FIDs go up by
  ChunkInts,    \* POSTINGSLIST_CHUNK_THRESHOLD, in integers
  BlockBytes,   \* POSTINGSLIST_BLOCK_THRESHOLD
  MaxRecordings \* bound: recordings indexed

ASSUME OccurrenceIndexAssumption ==
  /\ MaxRecordings \in Nat /\ Modes \subseteq {"MSCALE", "XSCALE"}
  /\ {ChunkInts, BlockBytes} \cup Gaps \subseteq Nat \ {0}
  /\ \A r \in Recordings : \A i \in 1..Len(r) - 1 : r[i].T <= r[i + 1].T
  /\ \A r \in Recordings : \A i \in 1..Len(r) :
       r[i].W \in 0..Kmed - 1 /\ r[i].F \in Kmin..Nbands * qB - 1
  /\ \A g \in Gaps : g * MaxRecordings < Radix^5   \* 32-bit values, in 5 bytes

VARIABLES
  mode,    \* m_MatchType
  cache,   \* IndexCache::m_Buffer
  lists,   \* the lists in the store: term -> the blocks [FIDmax, body]
  it,      \* the reader's PListIterator; history: what it has returned, and the
           \* last FID that was in the store when it began
  indexed  \* history: <<FID, recording, flushed>> in the order indexed

vars == <<mode, cache, lists, it, indexed>>

-----------------------------------------------------------------------------
(* The index cache.                                                        *)

\* LFs are numbered from 0.
Occurrence(r, i) == <<i - 1, r[i].T, r[i].E>>

CacheOf(c, term) == IF term \in DOMAIN c THEN c[term] ELSE <<>>

UpdateAll(c, FID, r) ==
  LET updates == FlattenSeq([i \in 1..Len(r) |->
                   [n \in 1..Len(TermsOf(mode, r, i)) |-> <<TermsOf(mode, r, i)[n], Occurrence(r, i)>>]])
      one(acc, u) == [t \in DOMAIN acc \cup {u[1]} |->
                        IF t = u[1] THEN Update(CacheOf(acc, t), FID, u[2]) ELSE acc[t]]
  IN  FoldLeft(one, c, updates)

-----------------------------------------------------------------------------
(* DoFlush of one list.                                                    *)

Ints(postings) == FoldLeft(LAMBDA n, p : n + Len(p), 0, postings)

\* A chunk is closed by the posting that takes it to the threshold.
Closes(open, p) == Ints(open) + Len(p) >= ChunkInts

Chunks(postings) ==
  LET add(state, p) == IF Closes(state.open, p)
                       THEN [done |-> Append(state.done, Append(state.open, p)), open |-> <<>>]
                       ELSE [done |-> state.done, open |-> Append(state.open, p)]
      end == FoldLeft(add, [done |-> <<>>, open |-> <<>>], postings)
  IN  IF end.open = <<>> THEN end.done ELSE Append(end.done, end.open)

\* A chunk goes to the last block while that is below the threshold.
Fits(blocks) == blocks # <<>> /\ Len(Last(blocks).body) < BlockBytes

Base(blocks) == IF Fits(blocks) THEN Last(blocks).FIDmax ELSE 0

AppendChunk(blocks, chunk) ==
  LET body  == EncodeChunk(chunk, Base(blocks))
      maxed == Last(chunk)[1]
  IN  IF Fits(blocks)
      THEN [blocks EXCEPT ![Len(blocks)] = [FIDmax |-> maxed, body |-> @.body \o body]]
      ELSE Append(blocks, [FIDmax |-> maxed, body |-> body])

FlushList(blocks, list) == FoldLeft(AppendChunk, blocks, Chunks(CachedPostings(list)))

-----------------------------------------------------------------------------
(* PListIterator.                                                          *)

NoReader == [term |-> <<>>, next |-> 1, buf |-> <<>>, begin |-> 0, cursor |-> <<>>, EOL |-> TRUE,
             read |-> <<>>, upto |-> 0]

BlocksOf(term) == IF term \in DOMAIN lists THEN lists[term] ELSE <<>>

\* The decoded posting at a position of the block, in the cache's layout.
PostingAt(buf, p) ==
  <<buf[p], buf[p + 1]>> \o FlattenSeq([i \in 1..buf[p + 1] |->
     <<buf[p + 1 + i], buf[p + 1 + buf[p + 1] + i], buf[p + 1 + 2 * buf[p + 1] + i]>>])

NextPosting(r) ==
  IF r.begin <= Len(r.buf)
  THEN [r EXCEPT !.cursor = PostingAt(r.buf, r.begin), !.begin = @ + 2 + 3 * r.buf[r.begin + 1]]
  ELSE [r EXCEPT !.cursor = <<>>]

\* The same block is fetched again.
Bug_SameBlock(r) ==
  IF r.next <= Len(BlocksOf(r.term))
  THEN [r EXCEPT !.buf = DecodeBlock(BlocksOf(r.term)[r.next].body), !.begin = 1]
  ELSE [r EXCEPT !.cursor = <<>>, !.EOL = TRUE]

NextBlock(r) ==
  IF r.next <= Len(BlocksOf(r.term))
  THEN [r EXCEPT !.buf = DecodeBlock(BlocksOf(r.term)[r.next].body), !.begin = 1, !.next = @ + 1]
  ELSE [r EXCEPT !.cursor = <<>>, !.EOL = TRUE]

\* The end of a block is taken for the end of the list.
Bug_EndOfBlock(r) ==
  LET r1 == NextPosting(r)
      r2 == NextBlock(r1)
  IN  IF r.EOL THEN r ELSE IF r1.cursor # <<>> THEN r1
      ELSE IF r2.EOL \/ r.next > 1 THEN [r2 EXCEPT !.cursor = <<>>, !.EOL = TRUE] ELSE NextPosting(r2)

\* next(): at the end of a block, the first posting of the next one.
NextOf(r) ==
  LET r1 == NextPosting(r)
      r2 == NextBlock(r1)
  IN  IF r.EOL THEN r ELSE IF r1.cursor # <<>> THEN r1 ELSE IF r2.EOL THEN r2 ELSE NextPosting(r2)

-----------------------------------------------------------------------------
Init ==
  /\ mode \in Modes /\ cache = [t \in {} |-> <<>>] /\ lists = [t \in {} |-> <<>>]
  /\ it = NoReader /\ indexed = <<>>

LastFID == IF indexed = <<>> THEN 0 ELSE Last(indexed)[1]

Index(gap, r) ==
  /\ Len(indexed) < MaxRecordings
  /\ cache' = UpdateAll(cache, LastFID + gap, r)
  /\ indexed' = Append(indexed, <<LastFID + gap, r, FALSE>>)
  /\ UNCHANGED <<mode, lists, it>>

Flush ==
  /\ DOMAIN cache # {}
  /\ lists' = [t \in DOMAIN lists \cup DOMAIN cache |-> FlushList(BlocksOf(t), CacheOf(cache, t))]
  /\ cache' = [t \in {} |-> <<>>]
  /\ indexed' = [n \in 1..Len(indexed) |-> [indexed[n] EXCEPT ![3] = TRUE]]
  /\ UNCHANGED <<mode, it>>

\* GetPListIterator and the first get().
StartReading(term) ==
  /\ it.EOL
  /\ LET seen == {indexed[n][1] : n \in {k \in 1..Len(indexed) : indexed[k][3]}}
         r    == NextOf([NoReader EXCEPT !.term = term, !.begin = 1, !.EOL = FALSE, !.upto = Max(seen)])
     IN  it' = [r EXCEPT !.read = <<r.cursor>>]
  /\ UNCHANGED <<mode, cache, lists, indexed>>

ReadNext ==
  /\ ~it.EOL
  /\ LET r == NextOf(it) IN it' = [r EXCEPT !.read = IF r.EOL THEN @ ELSE Append(@, r.cursor)]
  /\ UNCHANGED <<mode, cache, lists, indexed>>

Next ==
  \/ \E gap \in Gaps, r \in Recordings : Index(gap, r)
  \/ Flush
  \/ \E term \in DOMAIN lists : StartReading(term)
  \/ ReadNext

Spec == Init /\ [][Next]_vars

-----------------------------------------------------------------------------
(* Properties.                                                             *)

\* What a list should hold, from the recordings: an LF with the term, once.
Occurrences(r, term) ==
  LET is == {i \in 1..Len(r) : term \in ToSet(TermsOf(mode, r, i))}
      js == SetToSortSeq(is, <)
  IN  [n \in 1..Len(js) |-> Occurrence(r, js[n])]

Reference(term, flushed) ==
  LET with(e) == Occurrences(e[2], term)
      es      == SelectSeq(indexed, LAMBDA e : e[3] = flushed /\ with(e) # <<>>)
  IN  [n \in 1..Len(es) |-> <<es[n][1], Len(with(es[n]))>> \o FlattenSeq(with(es[n]))]

\* The cache is a sequence of well-formed postings whose two counts agree.
TypeOK ==
  /\ mode \in Modes
  /\ \A t \in DOMAIN cache :
       LET ps == CachedPostings(cache[t])
       IN  /\ Len(cache[t]) = Ints(ps) + 1 /\ Last(ps)[2] = Last(cache[t])
           /\ \A n \in 1..Len(ps) : Len(ps[n]) = 2 + 3 * ps[n][2]
  /\ \A t \in DOMAIN lists : \A b \in 1..Len(lists[t]) : ToSet(lists[t][b].body) \subseteq 0..2 * Radix - 1

\* Terms are told apart by the integers they are packed into, whose bit fields
\* (Indexer.cpp:43-50) hold the parts that the two loops form: no two terms'
\* occurrences are mixed in one list, negative frequency differences included.
TermsApart ==
  LET terms == DOMAIN cache \cup DOMAIN lists
  IN  IF mode = "MSCALE"
      THEN terms \subseteq STerms /\ \A s, t \in terms : SCode(s) = SCode(t) => s = t
      ELSE /\ \A t \in terms : t \in XTerms /\ t[4] < PowerFor(Vpt_max) /\ t[5] % 64 < VpfValues
           /\ \A s, t \in terms : XCode(s) = XCode(t) => s = t

\* What waits in the cache are the occurrences of the recordings not flushed
\* yet: an LF that has a term several times, paired with several partners, is
\* in its posting once (IndexCache::Update skips it).
CachedOnce == \A t \in DOMAIN cache : CachedPostings(cache[t]) = Reference(t, FALSE)

\* The coder's assertions (BlockCodec.cpp:111-140): FIDs and, in a posting,
\* LF numbers increase, times do not decrease.
CodedInOrder ==
  \A t \in DOMAIN cache :
    LET ps == CachedPostings(cache[t])
    IN  /\ \A n \in 1..Len(ps) - 1 : ps[n][1] < ps[n + 1][1]
        /\ \A n \in 1..Len(ps) : \A i \in 1..ps[n][2] - 1 :
             Fields(ps[n], 0)[i] < Fields(ps[n], 0)[i + 1] /\ Fields(ps[n], 1)[i] <= Fields(ps[n], 1)[i + 1]

\* What waits in the cache is right, and fit for the coder.
CacheSound == TypeOK /\ CachedOnce /\ CodedInOrder

DecodedList(blocks) ==
  LET ofblock(b) ==
        LET v == DecodeBlock(b.body)
            from[p \in Nat] == IF p > Len(v) THEN <<>> ELSE <<PostingAt(v, p)>> \o from[p + 2 + 3 * v[p + 1]]
        IN  from[1]
  IN  FlattenSeq([n \in 1..Len(blocks) |-> ofblock(blocks[n])])

\* Whatever the chunks and blocks it was cut into, a list decodes to the
\* occurrences that were indexed.
ListsDecode == \A t \in DOMAIN lists : DecodedList(lists[t]) = Reference(t, TRUE)

\* A reader returns a list's postings in order and none twice; flushes that
\* come in between may make it miss postings, but not see wrong ones.
ReaderInOrder ==
  /\ \A n \in 1..Len(it.read) - 1 : it.read[n][1] < it.read[n + 1][1]
  /\ ToSet(it.read) \subseteq ToSet(Reference(it.term, TRUE))

\* A reader that has reached the end has seen every posting that was in the
\* list when it began.
ReaderComplete ==
  it.EOL => ToSet(SelectSeq(Reference(it.term, TRUE), LAMBDA p : p[1] <= it.upto)) \subseteq ToSet(it.read)

\* The iterator, in between flushes, shows postings in order and misses none
\* it could have shown.
ReaderRight == ReaderInOrder /\ ReaderComplete
=============================================================================
