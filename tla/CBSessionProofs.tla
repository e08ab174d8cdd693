-------------------------- MODULE CBSessionProofs ---------------------------
(***************************************************************************)
(* Proofs about CBSession, for any number of lists, FIDs and sessions, any *)
(* limits of chunks, blocks, batches, cache and merge buffer, and whatever *)
(* requests the server fails.                                              *)
(***************************************************************************)
EXTENDS CBSession, PostingsListProofs

-----------------------------------------------------------------------------
(* The records of an index.                                                *)

BlockKeys == Terms \X Nat

Headers == [ID : Nat, BodySize : Nat, FIDmax : Nat]

AreRecords(f, K) == DOMAIN f \subseteq K /\ f \in [DOMAIN f -> BlockRecords]

IsIndex(ix) ==
  /\ ix \in [server : {ix.server}, sched : Seq(BlockKeys \X BlockRecords),
             status : {"ok", "failed"}, keys : Seq(BlockKeys),
             clist : Terms \cup {NoTerm}, accum : Nat, cache : {ix.cache}]
  /\ AreRecords(ix.server, BlockKeys)
  /\ AreRecords(ix.cache, Nat) /\ IsFiniteSet(DOMAIN ix.cache)
  /\ DOMAIN ix.cache # {} => ix.clist \in Terms

\* The scheduled stores, one by one.
LEMMA SchedElements ==
  ASSUME NEW ix, IsIndex(ix)
  PROVE  /\ Len(ix.sched) \in Nat /\ DOMAIN ix.sched = 1..Len(ix.sched)
         /\ \A i \in DOMAIN ix.sched : /\ ix.sched[i] \in BlockKeys \X BlockRecords
                                       /\ ix.sched[i][1] \in BlockKeys
                                       /\ ix.sched[i][2] \in BlockRecords
<1>1. ix.sched \in Seq(BlockKeys \X BlockRecords)
  BY DEF IsIndex
<1>2. Len(ix.sched) \in Nat /\ DOMAIN ix.sched = 1..Len(ix.sched)
  BY <1>1, LenProperties
<1>3. \A i \in DOMAIN ix.sched : ix.sched[i] \in BlockKeys \X BlockRecords
  BY <1>1, <1>2, ElementOfSeq
<1>4. QED
  BY <1>2, <1>3

\* The bucket after a wait: records, the last store of a key that was
\* executed on top.
LEMMA StoredType ==
  ASSUME NEW ix, IsIndex(ix), NEW lost
  PROVE  /\ AreRecords(Stored(ix, lost), BlockKeys)
         /\ \A k : StoresOn(ix, k, lost) # {} =>
              /\ Max(StoresOn(ix, k, lost)) \in StoresOn(ix, k, lost)
              /\ \A i \in StoresOn(ix, k, lost) : Max(StoresOn(ix, k, lost)) >= i
<1>1. /\ Len(ix.sched) \in Nat /\ DOMAIN ix.sched = 1..Len(ix.sched)
      /\ \A i \in DOMAIN ix.sched : ix.sched[i][1] \in BlockKeys /\ ix.sched[i][2] \in BlockRecords
  BY SchedElements
<1> DEFINE D == DOMAIN ix.server \cup {ix.sched[i][1] : i \in DOMAIN ix.sched \ lost}
<1>2. D \subseteq BlockKeys
  BY <1>1 DEF IsIndex, AreRecords
<1>3. ASSUME NEW k, StoresOn(ix, k, lost) # {}
      PROVE  /\ Max(StoresOn(ix, k, lost)) \in StoresOn(ix, k, lost)
             /\ \A i \in StoresOn(ix, k, lost) : Max(StoresOn(ix, k, lost)) >= i
  <2>1. StoresOn(ix, k, lost) \in SUBSET (1..Len(ix.sched))
    BY <1>1 DEF StoresOn
  <2>2. QED
    BY <1>1, <1>3, <2>1, MaxInSet
<1>4. ASSUME NEW k \in D
      PROVE  (IF StoresOn(ix, k, lost) = {} THEN ix.server[k]
              ELSE ix.sched[Max(StoresOn(ix, k, lost))][2]) \in BlockRecords
  <2>1. CASE StoresOn(ix, k, lost) = {}
    <3>1. k \in DOMAIN ix.server
      BY <2>1, <1>4 DEF StoresOn
    <3>2. QED
      BY <2>1, <3>1 DEF IsIndex, AreRecords
  <2>2. CASE StoresOn(ix, k, lost) # {}
    <3>1. Max(StoresOn(ix, k, lost)) \in DOMAIN ix.sched
      BY <1>3, <2>2 DEF StoresOn
    <3>2. QED
      BY <1>1, <2>2, <3>1
  <2>3. QED
    BY <2>1, <2>2
<1>5. AreRecords(Stored(ix, lost), BlockKeys)
  BY <1>2, <1>4, Zenon DEF Stored, AreRecords
<1>6. QED
  BY <1>3, <1>5

\* What a read returns.
LEMMA ReadType ==
  ASSUME NEW ix, IsIndex(ix), NEW t, NEW id
  PROVE  /\ ReadBlock(ix, t, id) \in BlockRecords
         /\ GetPListHeader(ix, t) \in Nat
         /\ GetPListBlockHeader(ix, t, id) \in Headers
<1>1. NoBlock \in BlockRecords
  BY DEF NoBlock, NullHdr, BlockRecords
<1>2. AreRecords(View(ix), BlockKeys)
  BY StoredType DEF View
<1>3. \A i : ReadBlock(ix, t, i) \in BlockRecords
  BY <1>1, <1>2 DEF ReadBlock, AreRecords
<1>4. QED
  BY <1>3 DEF GetPListHeader, GetPListBlockHeader, BlockRecords, Headers

-----------------------------------------------------------------------------
(* The operations of an index keep its type.                               *)

\* An index no process has worked on.
LEMMA NewType ==
  /\ AreRecords(NoRecords, BlockKeys) /\ AreRecords(NoRecords, Nat)
  /\ DOMAIN NoRecords = {} /\ IsFiniteSet(DOMAIN NoRecords)
  /\ \A r : AreRecords(r, BlockKeys) => IsIndex([NewIndex EXCEPT !.server = r])
  /\ IsIndex(NewIndex)
<1>1. AreRecords(NoRecords, BlockKeys) /\ AreRecords(NoRecords, Nat) /\ DOMAIN NoRecords = {}
  BY DEF NoRecords, AreRecords
<1>2. IsFiniteSet({}) /\ 0 \in Nat
  BY FS_EmptySet
<1>3. <<>> \in Seq(BlockKeys \X BlockRecords) /\ <<>> \in Seq(BlockKeys)
  OBVIOUS
<1>4. ASSUME NEW r, AreRecords(r, BlockKeys)
      PROVE  IsIndex([server |-> r, sched |-> <<>>, status |-> "ok", keys |-> <<>>,
                      clist |-> NoTerm, accum |-> 0, cache |-> NoRecords])
  BY <1>1, <1>2, <1>3, <1>4 DEF IsIndex
<1>5. QED
  BY <1>1, <1>2, <1>4 DEF NewIndex

\* A wait.
LEMMA WaitType ==
  ASSUME NEW ix, IsIndex(ix), NEW fault, NEW w \in Waits(ix, fault)
  PROVE  /\ IsIndex(w)
         /\ w.sched = <<>> /\ w.keys = ix.keys
         /\ w.clist = ix.clist /\ w.accum = ix.accum /\ w.cache = ix.cache
         /\ fault # "store" => w.server = View(ix)
<1>1. PICK lost \in IF fault = "store" THEN SUBSET DOMAIN ix.sched ELSE {{}} : w \in Wait(ix, lost)
  BY DEF Waits
<1>2. PICK s \in {"ok", "failed"} :
        w = [ix EXCEPT !.server = Stored(ix, lost), !.sched = <<>>, !.status = s]
  BY <1>1 DEF Wait, Statuses, IsIndex
<1> DEFINE r == Stored(ix, lost)
<1>3. AreRecords(r, BlockKeys)
  BY StoredType
<1>4. fault # "store" => r = View(ix)
  BY <1>1 DEF View
<1> HIDE DEF r
<1>5. w = [server |-> r, sched |-> <<>>, status |-> s, keys |-> ix.keys,
           clist |-> ix.clist, accum |-> ix.accum, cache |-> ix.cache]
  BY <1>2 DEF IsIndex, r
<1>6. <<>> \in Seq(BlockKeys \X BlockRecords)
  OBVIOUS
<1>7. IsIndex(w)
  BY <1>3, <1>5, <1>6 DEF IsIndex
<1>8. QED
  BY <1>4, <1>5, <1>7

\* Dropping what is scheduled, emptying the bucket, forgetting the caches.
LEMMA CloseType ==
  ASSUME NEW ix, IsIndex(ix)
  PROVE  IsIndex(Close(ix)) /\ IsIndex(Drop(ix)) /\ IsIndex(ResetCaches(ix)) /\ IsIndex(FlushedCache(ix))
<1>1. <<>> \in Seq(BlockKeys \X BlockRecords) /\ <<>> \in Seq(BlockKeys) /\ 0 \in Nat
  OBVIOUS
<1>2. IsIndex(Close(ix))
  BY <1>1 DEF IsIndex, Close
<1>3. IsIndex(Drop(ix))
  BY <1>1, NewType DEF IsIndex, Drop
<1>4. IsIndex(ResetCaches(ix))
  BY <1>1, NewType DEF IsIndex, ResetCaches
<1>5. IsIndex(FlushedCache(ix))
  BY <1>1, NewType DEF IsIndex, FlushedCache
<1>6. QED
  BY <1>2, <1>3, <1>4, <1>5

\* One store is scheduled.
LEMMA WriteType ==
  ASSUME NEW ix, IsIndex(ix), NEW t \in Terms, NEW id \in Nat, NEW b \in BlockRecords
  PROVE  IsIndex(WriteBlock(ix, t, id, b))
<1>1. <<<<t, id>>, b>> \in BlockKeys \X BlockRecords
  BY DEF BlockKeys
<1>2. Append(ix.sched, <<<<t, id>>, b>>) \in Seq(BlockKeys \X BlockRecords)
  BY <1>1 DEF IsIndex
<1>3. QED
  BY <1>2 DEF IsIndex, WriteBlock

\* The order in which the cached blocks are scheduled.
LEMMA CachedOrder ==
  ASSUME NEW ix, IsIndex(ix)
  PROVE  LET ids == SetToSeq(DOMAIN ix.cache)
         IN  /\ Len(ids) \in Nat /\ ids \in [1..Len(ids) -> DOMAIN ix.cache]
             /\ \A b \in DOMAIN ix.cache : \E i \in 1..Len(ids) : ids[i] = b
             /\ \A i, j \in 1..Len(ids) : ids[i] = ids[j] => i = j
<1> DEFINE S == DOMAIN ix.cache
           n == Cardinality(S)
           ids == SetToSeq(S)
<1>1. IsFiniteSet(S)
  BY DEF IsIndex
<1> HIDE DEF S
<1>2. n \in Nat /\ ExistsBijection(1..n, S)
  BY <1>1, FS_CardinalityType
<1>3. \E f \in [1..n -> S] : IsInjective(f)
  BY <1>2 DEF ExistsBijection, Bijection, Injection, IsInjective
<1>4. ids \in [1..n -> S] /\ IsInjective(ids)
  BY <1>3 DEF SetToSeq
<1>5. IsFiniteSet(1..n) /\ Cardinality(1..n) = n
  BY <1>2, FS_Interval
<1> HIDE DEF n, ids
<1>6. \A b \in S : \E i \in 1..n : ids[i] = b
  <2>1. ids \in Injection(1..n, S)
    BY <1>4 DEF Injection, IsInjective
  <2>2. ids \in Surjection(1..n, S)
    BY <1>1, <1>5, <2>1, FS_Injection DEF n
  <2>3. QED
    BY <2>2 DEF Surjection
<1>7. Len(ids) = n
  BY <1>2, <1>4
<1>8. QED
  BY <1>2, <1>4, <1>6, <1>7 DEF IsInjective, S, ids

\* The cache moves to another list.
LEMMA SwitchType ==
  ASSUME NEW ix, IsIndex(ix), NEW t \in Terms
  PROVE  /\ IsIndex(SwitchList(ix, t))
         /\ SwitchList(ix, t).server = ix.server /\ SwitchList(ix, t).sched = ix.sched
         /\ SwitchList(ix, t).keys = ix.keys /\ SwitchList(ix, t).clist = t
         /\ SwitchList(ix, t).cache = NoRecords
BY NewType DEF IsIndex, SwitchList

\* The cached blocks are scheduled; the cache moves to another list.
LEMMA WriteCachedType ==
  ASSUME NEW ix, IsIndex(ix)
  PROVE  /\ IsIndex(WriteCached(ix))
         /\ WriteCached(ix).server = ix.server /\ WriteCached(ix).keys = ix.keys
         /\ WriteCached(ix).clist = ix.clist /\ WriteCached(ix).cache = ix.cache
         /\ WriteCached(ix).accum = ix.accum
         /\ \A t \in Terms : IsIndex(SwitchList(WriteCached(ix), t))
<1> DEFINE ids == SetToSeq(DOMAIN ix.cache)
           writes == [i \in 1..Len(ids) |-> <<<<ix.clist, ids[i]>>, ix.cache[ids[i]]>>]
           sched == ix.sched \o writes
<1>1. Len(ids) \in Nat /\ ids \in [1..Len(ids) -> DOMAIN ix.cache]
  BY CachedOrder
<1> HIDE DEF ids
<1>2. ASSUME NEW i \in 1..Len(ids)
      PROVE  <<<<ix.clist, ids[i]>>, ix.cache[ids[i]]>> \in BlockKeys \X BlockRecords
  <2>1. ids[i] \in DOMAIN ix.cache
    BY <1>1
  <2>2. ix.clist \in Terms /\ ids[i] \in Nat /\ ix.cache[ids[i]] \in BlockRecords
    BY <2>1 DEF IsIndex, AreRecords
  <2>3. QED
    BY <2>2 DEF BlockKeys
<1>3. writes \in Seq(BlockKeys \X BlockRecords)
  <2>1. writes \in [1..Len(ids) -> BlockKeys \X BlockRecords]
    BY <1>2
  <2>2. QED
    BY <1>1, <2>1
<1>4. sched \in Seq(BlockKeys \X BlockRecords)
  <2> HIDE DEF writes
  <2>1. QED
    BY <1>3, ConcatProperties DEF IsIndex
<1>5. WriteCached(ix) = [ix EXCEPT !.sched = sched]
  BY DEF WriteCached, ids
<1> HIDE DEF sched
<1>6. /\ WriteCached(ix).server = ix.server /\ WriteCached(ix).keys = ix.keys
      /\ WriteCached(ix).clist = ix.clist /\ WriteCached(ix).cache = ix.cache
      /\ WriteCached(ix).accum = ix.accum
  BY <1>5 DEF IsIndex
<1>7. IsIndex(WriteCached(ix))
  BY <1>4, <1>5 DEF IsIndex
<1>8. ASSUME NEW t \in Terms PROVE IsIndex(SwitchList(WriteCached(ix), t))
  BY <1>7, <1>8, SwitchType
<1>9. QED
  BY <1>6, <1>7, <1>8

\* A block put in the cache.
LEMMA PutType ==
  ASSUME NEW c, AreRecords(c, Nat), IsFiniteSet(DOMAIN c), NEW id \in Nat, NEW b \in BlockRecords
  PROVE  /\ AreRecords(Put(c, id, b), Nat) /\ IsFiniteSet(DOMAIN Put(c, id, b))
         /\ DOMAIN Put(c, id, b) = DOMAIN c \cup {id}
         /\ Put(c, id, b)[id] = b
         /\ \A k \in DOMAIN c : k # id => Put(c, id, b)[k] = c[k]
<1> DEFINE d == Put(c, id, b)
<1>1. DOMAIN d = DOMAIN c \cup {id}
  BY DEF Put
<1>2. \A k \in DOMAIN d : d[k] = IF k = id THEN b ELSE c[k]
  BY DEF Put
<1>3. AreRecords(d, Nat)
  <2>1. DOMAIN d \subseteq Nat
    BY <1>1 DEF AreRecords
  <2>2. \A k \in DOMAIN d : d[k] \in BlockRecords
    BY <1>1, <1>2 DEF AreRecords
  <2>3. d = [k \in DOMAIN d |-> d[k]]
    BY DEF Put
  <2> HIDE DEF d
  <2>4. QED
    BY <2>1, <2>2, <2>3 DEF AreRecords
<1>4. IsFiniteSet(DOMAIN d)
  <2> HIDE DEF d
  <2>1. QED
    BY <1>1, FS_AddElement, Zenon
<1>5. QED
  BY <1>1, <1>2, <1>3, <1>4

\* The block a chunk is appended to.
LEMMA FetchType ==
  ASSUME NEW ix, IsIndex(ix), NEW t, NEW id, NEW new \in BOOLEAN
  PROVE  Fetch(ix, t, id, new) \in BlockRecords
<1>1. NoBlock \in BlockRecords
  BY DEF NoBlock, NullHdr, BlockRecords
<1>2. ReadBlock(ix, t, id) \in BlockRecords
  BY ReadType
<1>3. id \in DOMAIN ix.cache => ix.cache[id] \in BlockRecords
  BY DEF IsIndex, AreRecords
<1>4. QED
  BY <1>1, <1>2, <1>3 DEF Fetch, Cached

\* The fields of an index whose block cache and keys grew.
LEMMA GrownFields ==
  ASSUME NEW ix, IsIndex(ix), NEW keys, NEW n, NEW c
  PROVE  /\ [ix EXCEPT !.accum = n, !.cache = c, !.keys = keys].server = ix.server
         /\ [ix EXCEPT !.accum = n, !.cache = c, !.keys = keys].sched = ix.sched
         /\ [ix EXCEPT !.accum = n, !.cache = c, !.keys = keys].keys = keys
         /\ [ix EXCEPT !.accum = n, !.cache = c, !.keys = keys].clist = ix.clist
         /\ [ix EXCEPT !.accum = n, !.cache = c, !.keys = keys].accum = n
         /\ [ix EXCEPT !.accum = n, !.cache = c, !.keys = keys].cache = c
BY DEF IsIndex

\* An index whose block cache and keys grew.
LEMMA GrownType ==
  ASSUME NEW ix, IsIndex(ix), ix.clist \in Terms, NEW keys \in Seq(BlockKeys), NEW n \in Nat,
         NEW c, AreRecords(c, Nat), IsFiniteSet(DOMAIN c)
  PROVE  IsIndex([ix EXCEPT !.accum = n, !.cache = c, !.keys = keys])
<1> DEFINE w == [ix EXCEPT !.accum = n, !.cache = c, !.keys = keys]
<1>1. /\ w.server = ix.server /\ w.sched = ix.sched /\ w.status = ix.status /\ w.keys = keys
      /\ w.clist = ix.clist /\ w.accum = n /\ w.cache = c
  BY DEF IsIndex
<1>2. w \in [server : {w.server}, sched : Seq(BlockKeys \X BlockRecords),
             status : {"ok", "failed"}, keys : Seq(BlockKeys),
             clist : Terms \cup {NoTerm}, accum : Nat, cache : {w.cache}]
  BY DEF IsIndex
<1> HIDE DEF w
<1>3. IsIndex(w)
  BY <1>1, <1>2 DEF IsIndex
<1>4. QED
  BY <1>1, <1>3 DEF w

\* The keys of an index and one more.
LEMMA KeysType ==
  ASSUME NEW ix, IsIndex(ix), NEW t \in Terms, NEW id \in Nat, NEW old
  PROVE  Keys(ix, t, id, old) \in Seq(BlockKeys)
<1>1. ix.keys \in Seq(BlockKeys) /\ <<t, id>> \in BlockKeys
  BY DEF IsIndex, BlockKeys
<1>2. QED
  BY <1>1, AppendProperties DEF Keys

\* A chunk appended to a block of the cached list.
LEMMA AppendType ==
  ASSUME NEW ix, IsIndex(ix), NEW t \in Terms, ix.clist = t, NEW lh \in Nat, NEW hdr \in Headers,
         NEW chunk \in Seq(Nat), NEW new \in BOOLEAN
  PROVE  IsIndex(AppendChunk(ix, t, lh, hdr, chunk, new))
<1> DEFINE old   == Fetch(ix, t, hdr.ID, new)
           block == [lh |-> IF hdr.ID = 1 THEN lh ELSE 0, hdr |-> hdr, body |-> old.body \o chunk]
           c1    == Put(ix.cache, hdr.ID, block)
           k1    == Keys(ix, t, hdr.ID, old)
           i1    == [ix EXCEPT !.accum = ix.accum + Len(chunk), !.cache = c1, !.keys = k1]
           first == Fetch(i1, t, 1, FALSE)
           c2    == Put(i1.cache, 1, [first EXCEPT !.lh = lh])
           k2    == Keys(i1, t, 1, first)
<1>1. old \in BlockRecords
  BY FetchType
<1>2. hdr.ID \in Nat /\ Len(chunk) \in Nat /\ ix.accum + Len(chunk) \in Nat
  BY DEF IsIndex, Headers
<1>3. block \in BlockRecords
  <2> HIDE DEF old
  <2>1. old.body \o chunk \in Seq(Nat)
    BY <1>1, ConcatProperties DEF BlockRecords
  <2>2. QED
    BY <2>1 DEF BlockRecords, Headers
<1>4. AreRecords(c1, Nat) /\ IsFiniteSet(DOMAIN c1)
  <2> HIDE DEF block
  <2>1. QED
    BY <1>2, <1>3, PutType DEF IsIndex
<1>5. k1 \in Seq(BlockKeys)
  BY <1>2, KeysType
<1> HIDE DEF old, c1, k1
<1>6. IsIndex(i1) /\ i1.clist = t
  <2>1. IsIndex(i1)
    BY <1>2, <1>4, <1>5, GrownType
  <2>2. i1.clist = ix.clist
    BY GrownFields
  <2>3. QED
    BY <2>1, <2>2
<1>7. AppendChunk(ix, t, lh, hdr, chunk, new)
        = IF new /\ hdr.ID # 1 THEN UpdateListHeader(i1, t, lh) ELSE i1
  BY DEF AppendChunk, old, c1, k1
<1> HIDE DEF i1
<1>8. first \in BlockRecords
  BY <1>6, FetchType
<1>9. [first EXCEPT !.lh = lh] \in BlockRecords
  <2> HIDE DEF first
  <2>1. QED
    BY <1>8 DEF BlockRecords
<1>10. AreRecords(c2, Nat) /\ IsFiniteSet(DOMAIN c2)
  <2> DEFINE b == [first EXCEPT !.lh = lh]
  <2>1. b \in BlockRecords /\ 1 \in Nat
    BY <1>9
  <2> HIDE DEF b
  <2>2. AreRecords(Put(i1.cache, 1, b), Nat) /\ IsFiniteSet(DOMAIN Put(i1.cache, 1, b))
    BY <1>6, <2>1, PutType DEF IsIndex
  <2>3. QED
    BY <2>2 DEF b
<1>11. k2 \in Seq(BlockKeys)
  BY <1>6, KeysType
<1>12. UpdateListHeader(i1, t, lh) = [i1 EXCEPT !.accum = i1.accum, !.cache = c2, !.keys = k2]
  BY <1>6 DEF UpdateListHeader, IsIndex
<1> HIDE DEF c2, k2
<1>13. IsIndex([i1 EXCEPT !.accum = i1.accum, !.cache = c2, !.keys = k2])
  <2>1. i1.accum \in Nat
    BY <1>6 DEF IsIndex
  <2>2. QED
    BY <1>6, <1>10, <1>11, <2>1, GrownType
<1>14. QED
  BY <1>6, <1>7, <1>12, <1>13

\* A chunk that could not be appended for a failed read.
LEMMA FailsType ==
  ASSUME NEW ix, IsIndex(ix), NEW t \in Terms, ix.clist = t, NEW lh \in Nat, NEW hdr \in Headers,
         NEW chunk \in Seq(Nat), NEW new \in BOOLEAN
  PROVE  IsIndex(AppendFails(ix, t, lh, hdr, chunk, new))
<1> DEFINE block == [lh |-> 0, hdr |-> hdr, body |-> chunk]
           c1 == Put(ix.cache, hdr.ID, NoBlock)
           c2 == Put(ix.cache, hdr.ID, block)
           c3 == Put(c2, 1, NoBlock)
           k3 == Keys(ix, t, hdr.ID, NoBlock)
           n  == ix.accum + Len(chunk)
<1>1. hdr.ID \in Nat /\ 1 \in Nat /\ n \in Nat /\ ix.keys \in Seq(BlockKeys)
  BY DEF IsIndex, Headers
<1>2. NoBlock \in BlockRecords /\ block \in BlockRecords
  BY DEF NoBlock, NullHdr, BlockRecords, Headers
<1> HIDE DEF block
<1>3. /\ AreRecords(c1, Nat) /\ IsFiniteSet(DOMAIN c1)
      /\ AreRecords(c2, Nat) /\ IsFiniteSet(DOMAIN c2)
  BY <1>1, <1>2, PutType DEF IsIndex
<1> HIDE DEF c1, c2
<1>4. AreRecords(c3, Nat) /\ IsFiniteSet(DOMAIN c3)
  BY <1>1, <1>2, <1>3, PutType
<1>5. k3 \in Seq(BlockKeys)
  BY <1>1, KeysType
<1> HIDE DEF c3, k3, n
<1>6. AppendFails(ix, t, lh, hdr, chunk, new) \in
        {[ix EXCEPT !.accum = n, !.cache = c1, !.keys = ix.keys],
         [ix EXCEPT !.accum = n, !.cache = c3, !.keys = k3]}
  <2>1. [ix EXCEPT !.accum = n, !.cache = c1] = [ix EXCEPT !.accum = n, !.cache = c1, !.keys = ix.keys]
    BY DEF IsIndex
  <2>2. QED
    BY <2>1 DEF AppendFails, n, c1, c2, c3, k3, block
<1>7. IsIndex([ix EXCEPT !.accum = n, !.cache = c1, !.keys = ix.keys])
  BY <1>1, <1>3, GrownType
<1>8. IsIndex([ix EXCEPT !.accum = n, !.cache = c3, !.keys = k3])
  BY <1>1, <1>4, <1>5, GrownType
<1>9. QED
  BY <1>6, <1>7, <1>8

\* A live record and a delta record merge into a record.
LEMMA MergedType ==
  ASSUME NEW l \in BlockRecords, NEW d \in BlockRecords, NEW id, NEW stale \in BOOLEAN
  PROVE  MergedBlock(l, d, id, stale) \in BlockRecords
<1>1. l.body \o d.body \in Seq(Nat)
  BY ConcatProperties DEF BlockRecords
<1>2. QED
  BY <1>1 DEF MergedBlock, BlockRecords

-----------------------------------------------------------------------------
(* Types.  A chunk has a last posting because a list under way has some    *)
(* left and a list to do has some cached: TypeOK is not inductive alone.   *)

Jobs == [term : Terms \cup {NoTerm}, lh : Nat, hdr : Headers, rest : Seq(1..MaxFID)]

CallTypes == job \in Jobs /\ mkeys \in Seq(BlockKeys) /\ troubles \in Nat

JobHasPostings == job # NoJob => job.term \in Terms /\ job.rest # <<>>

TodoIsCached == pc \in {"flush", "batch"} => \A t \in todo : cache[t] # <<>>

\* Only a flush has a list under way, and a batch is for one.
JobInFlush ==
  /\ job # NoJob => pc \in {"flush", "batch"}
  /\ pc = "batch" => job # NoJob

ScalarTypes ==
  /\ {open, dbOpen, failed} \subseteq BOOLEAN /\ op \in Ops /\ run \in 0..2
  /\ currFID \in 0..MaxFID /\ cache \in [Terms -> Seq(1..MaxFID)]
  /\ pc \in {"idle", "flush", "batch", "end", "merge"} /\ ret \in {"idle", "end"}
  /\ todo \subseteq Terms /\ mbuf \in Nat
  /\ {accepted, session, acked} \subseteq SUBSET (Terms \X (1..MaxFID)) /\ fps \subseteq 1..MaxFID

TypeInv ==
  /\ ScalarTypes /\ IsIndex(main) /\ IsIndex(delta)
  /\ CallTypes /\ JobHasPostings /\ TodoIsCached /\ JobInFlush

\* The FIDs of a piece of a list.
LEMMA FIDsType ==
  ASSUME NEW s \in Seq(1..MaxFID)
  PROVE  Len(s) \in Nat /\ \A i \in 1..Len(s) : s[i] \in 1..MaxFID /\ s[i] \in Nat
<1> DEFINE S == 1..MaxFID
<1>1. \A x \in S : x \in Nat
  BY CBSessionAssumption
<1> HIDE DEF S
<1>2. s \in Seq(S)
  BY DEF S
<1>3. Len(s) \in Nat /\ \A i \in 1..Len(s) : s[i] \in S
  BY <1>2, ElementOfSeq
<1>4. QED
  BY <1>1, <1>3 DEF S

\* The codes of a chunk are numbers.
LEMMA EncodeType ==
  ASSUME NEW fids \in Seq(1..MaxFID), NEW base \in Nat
  PROVE  Encode(fids, base) \in Seq(Nat)
<1>1. Len(fids) \in Nat
  OBVIOUS
<1>2. ASSUME NEW i \in 1..Len(fids)
      PROVE  (fids[i] - (IF i = 1 THEN base ELSE fids[i - 1])) % FidMod \in Nat
  <2>1. fids[i] \in Int
    BY <1>1, <1>2, FIDsType
  <2>2. i # 1 => i - 1 \in 1..Len(fids)
    BY <1>1, <1>2
  <2>3. i # 1 => fids[i - 1] \in Int
    BY <2>2, FIDsType
  <2>4. fids[i] - (IF i = 1 THEN base ELSE fids[i - 1]) \in Int
    BY <2>1, <2>3
  <2>5. QED
    BY <2>4, FidModAssumption
<1>3. QED
  BY <1>1, <1>2 DEF Encode

\* A chunk is a nonempty piece of the list under way.
LEMMA ChunkType ==
  ASSUME TypeInv, job # NoJob
  PROVE  /\ Chunk \in Seq(1..MaxFID) /\ Len(Chunk) \in 1..Len(job.rest)
         /\ Last(Chunk) \in 1..MaxFID
         /\ Base \in Nat /\ ChunkHeader \in Headers
         /\ SubSeq(job.rest, Len(Chunk) + 1, Len(job.rest)) \in Seq(1..MaxFID)
<1> DEFINE r == job.rest
           n == IF Len(r) < ChunkLimit THEN Len(r) ELSE ChunkLimit
<1>1. r \in Seq(1..MaxFID) /\ r # <<>> /\ job.hdr \in Headers
  BY DEF TypeInv, CallTypes, Jobs, JobHasPostings
<1> HIDE DEF r
<1>2. Len(r) \in Nat \ {0} /\ ChunkLimit \in Nat \ {0}
  BY <1>1, EmptySeq, CBSessionAssumption
<1>3. n \in 1..Len(r)
  BY <1>2
<1>4. Chunk = SubSeq(r, 1, n)
  BY DEF Chunk, r
<1> HIDE DEF n
<1>5. Chunk \in Seq(1..MaxFID) /\ Len(Chunk) = n
  <2>1. \A i \in 1..n : r[i] \in 1..MaxFID
    BY <1>1, <1>2, <1>3, FIDsType
  <2>2. QED
    BY <1>3, <1>4, <2>1, SubSeqProperties
<1>6. Last(Chunk) \in 1..MaxFID
  BY <1>3, <1>5, FIDsType DEF Last
<1>7. Base \in Nat /\ ChunkHeader \in Headers
  <2>1. Len(Chunk) \in Nat /\ Last(Chunk) \in Nat
    BY <1>2, <1>3, <1>5, <1>6, CBSessionAssumption
  <2>2. /\ job.hdr.FIDmax \in Nat /\ job.hdr.ID + 1 \in Nat
        /\ job.hdr.BodySize + Len(Chunk) \in Nat
    BY <1>1, <2>1 DEF Headers
  <2>3. [job.hdr EXCEPT !.BodySize = job.hdr.BodySize + Len(Chunk), !.FIDmax = Last(Chunk)] \in Headers
    BY <1>1, <2>1, <2>2 DEF Headers
  <2>4. QED
    BY <1>1, <2>1, <2>2, <2>3 DEF Base, ChunkHeader, Headers
<1>8. SubSeq(r, n + 1, Len(r)) \in Seq(1..MaxFID)
  <2>1. \A i \in n + 1..Len(r) : r[i] \in 1..MaxFID
    BY <1>1, <1>2, <1>3, FIDsType
  <2>2. QED
    BY <1>2, <1>3, <2>1, SubSeqProperties
<1>9. QED
  BY <1>3, <1>5, <1>6, <1>7, <1>8 DEF r

\* What the steps need is more than TypeOK.
LEMMA InvTypes == TypeInv => TypeOK
<1> SUFFICES ASSUME TypeInv PROVE TypeOK
  OBVIOUS
<1>1. ASSUME NEW ix \in {main, delta}
      PROVE  /\ ix.status \in {"ok", "failed"} /\ ix.clist \in Terms \cup {NoTerm} /\ ix.accum \in Nat
             /\ DOMAIN ix.server \subseteq Terms \X Nat /\ ix.keys \in Seq(Terms \X Nat)
             /\ \A k \in DOMAIN ix.server : ix.server[k] \in BlockRecords
  <2>1. IsIndex(ix)
    BY DEF TypeInv
  <2>2. QED
    BY <2>1 DEF IsIndex, AreRecords, BlockKeys
<1>2. QED
  BY <1>1 DEF TypeInv, ScalarTypes, TypeOK

\* The index a flush writes to.
LEMMA TargetType ==
  ASSUME TypeInv
  PROVE  /\ IsIndex(Target)
         /\ \A S : (\A ix \in S : IsIndex(ix)) /\ SetTarget(S) => IsIndex(main') /\ IsIndex(delta')
BY DEF TypeInv, Target, SetTarget

\* No list under way.
LEMMA NoJobType == NoJob \in Jobs
BY DEF NoJob, NullHdr, Jobs, Headers

\* The initial state has the types.
LEMMA InitType == Init => TypeInv
<1> SUFFICES ASSUME Init PROVE TypeInv
  OBVIOUS
<1>1. IsIndex(main) /\ IsIndex(delta)
  BY NewType DEF Init
<1>2. EmptyCache \in [Terms -> Seq(1..MaxFID)]
  BY DEF EmptyCache
<1>3. MergeBuffer \in Nat /\ 0 \in 0..MaxFID /\ 0 \in 0..2 /\ 0 \in Nat /\ <<>> \in Seq(BlockKeys)
  BY CBSessionAssumption
<1>4. ScalarTypes
  BY <1>2, <1>3 DEF Init, ScalarTypes
<1>5. CallTypes
  BY <1>3, NoJobType DEF Init, CallTypes
<1>6. JobHasPostings /\ TodoIsCached /\ JobInFlush
  BY DEF Init, JobHasPostings, TodoIsCached, JobInFlush
<1>7. QED
  BY <1>1, <1>4, <1>5, <1>6 DEF TypeInv

\* The death of the process, or of its objects.
LEMMA GoneType ==
  ASSUME TypeInv, Gone, troubles' \in Nat
  PROVE  TypeInv'
<1>1. IsIndex(main') /\ IsIndex(delta')
  <2>1. PICK lost \in SUBSET DOMAIN main.sched : main' = [NewIndex EXCEPT !.server = Stored(main, lost)]
    BY DEF Gone
  <2>2. PICK gone \in SUBSET DOMAIN delta.sched : delta' = [NewIndex EXCEPT !.server = Stored(delta, gone)]
    BY DEF Gone
  <2>3. AreRecords(Stored(main, lost), BlockKeys) /\ AreRecords(Stored(delta, gone), BlockKeys)
    BY StoredType DEF TypeInv
  <2>4. QED
    BY <2>1, <2>2, <2>3, NewType
<1>2. EmptyCache \in [Terms -> Seq(1..MaxFID)]
  BY DEF EmptyCache
<1>3. MergeBuffer \in Nat /\ 0 \in 0..MaxFID /\ 0 \in 0..2 /\ <<>> \in Seq(BlockKeys)
  BY CBSessionAssumption
<1>4. /\ open' = FALSE /\ currFID' = 0 /\ cache' = EmptyCache /\ dbOpen' = FALSE /\ run' = 0
      /\ pc' = "idle" /\ ret' = "idle" /\ todo' = {} /\ job' = NoJob
      /\ mkeys' = <<>> /\ mbuf' = MergeBuffer /\ failed' = FALSE /\ session' = {}
      /\ op' = op /\ fps' = fps /\ accepted' = accepted /\ acked' = acked
  BY DEF Gone
<1>5. ScalarTypes'
  <2>1. {accepted, session, acked}' \subseteq SUBSET (Terms \X (1..MaxFID)) /\ fps' \subseteq 1..MaxFID
        /\ op' \in Ops
    BY <1>4 DEF TypeInv, ScalarTypes
  <2>2. /\ {open, dbOpen, failed}' \subseteq BOOLEAN /\ run' \in 0..2 /\ currFID' \in 0..MaxFID
        /\ cache' \in [Terms -> Seq(1..MaxFID)] /\ todo' \subseteq Terms /\ mbuf' \in Nat
    BY <1>2, <1>3, <1>4
  <2>3. pc' \in {"idle", "flush", "batch", "end", "merge"} /\ ret' \in {"idle", "end"}
    BY <1>4
  <2>4. QED
    BY <2>1, <2>2, <2>3 DEF ScalarTypes
<1>6. CallTypes' /\ JobHasPostings' /\ TodoIsCached' /\ JobInFlush'
  BY <1>3, <1>4, NoJobType DEF CallTypes, JobHasPostings, TodoIsCached, JobInFlush
<1>7. QED
  BY <1>1, <1>5, <1>6 DEF TypeInv

\* A flush begins over the cache that is flushed.
LEMMA BeginFlushType ==
  ASSUME TypeInv, job = NoJob, NEW after \in {"idle", "end"}, BeginFlush(cache', after)
  PROVE  /\ run' \in 0..2 /\ pc' = "flush" /\ ret' \in {"idle", "end"} /\ todo' \subseteq Terms
         /\ failed' = failed /\ mbuf' = mbuf /\ job' = NoJob /\ mkeys' = mkeys
         /\ JobHasPostings' /\ TodoIsCached' /\ JobInFlush'
BY DEF BeginFlush, JobHasPostings, TodoIsCached, JobInFlush

\* A call fails.
LEMMA FailType ==
  ASSUME TypeInv, Fail
  PROVE  /\ {open, dbOpen}' \subseteq BOOLEAN => {open, dbOpen, failed}' \subseteq BOOLEAN
         /\ pc' = "idle" /\ ret' = "idle" /\ todo' \subseteq Terms
         /\ mbuf' \in Nat /\ job' \in Jobs /\ mkeys' \in Seq(BlockKeys)
         /\ JobHasPostings' /\ TodoIsCached' /\ JobInFlush'
BY NoJobType DEF Fail, JobHasPostings, TodoIsCached, JobInFlush, TypeInv, ScalarTypes, CallTypes

\* The bound of troubles.
LEMMA CountType ==
  ASSUME TypeInv, NEW fault, Count(fault)
  PROVE  troubles' \in Nat
BY DEF Count, TypeInv, CallTypes

\* The steps outside a flush keep the types.
LEMMA OuterType ==
  ASSUME TypeInv,
         \/ OpenStore \/ ReadList \/ CloseStore \/ ClearStore \/ Crash \/ Abandon \/ Start
         \/ \E flush \in BOOLEAN : End(flush)
         \/ Flush \/ EndSession \/ EndMerge
  PROVE  TypeInv'
<1>1. CASE OpenStore
  BY <1>1 DEF OpenStore, TypeInv, ScalarTypes, CallTypes, JobHasPostings, TodoIsCached, JobInFlush,
              indexer, call, history
<1>2. CASE ReadList
  <2>1. IsIndex(main') /\ troubles' \in Nat
    <3>1. PICK fault \in Faults : Count(fault) /\ main' \in Waits(main, fault)
      BY <1>2 DEF ReadList
    <3>2. QED
      BY <3>1, CountType, WaitType DEF TypeInv
  <2>2. QED
    BY <1>2, <2>1 DEF ReadList, TypeInv, ScalarTypes, CallTypes, JobHasPostings, TodoIsCached,
                      JobInFlush, indexer, call, history
<1>3. CASE CloseStore
  <2>1. IsIndex(main') /\ IsIndex(delta')
    BY <1>3, CloseType DEF CloseStore, TypeInv
  <2>2. QED
    BY <1>3, <2>1 DEF CloseStore, TypeInv, ScalarTypes, CallTypes, JobHasPostings, TodoIsCached,
                      JobInFlush, indexer, call, history
<1>4. CASE ClearStore
  <2>1. IsIndex(main')
    BY <1>4, CloseType DEF ClearStore, TypeInv
  <2>2. QED
    BY <1>4, <2>1 DEF ClearStore, TypeInv, ScalarTypes, CallTypes, JobHasPostings, TodoIsCached,
                      JobInFlush, indexer, call
<1>5. CASE Crash
  <2>1. Gone /\ troubles' \in Nat
    BY <1>5 DEF Crash, TypeInv, CallTypes
  <2>2. QED
    BY <2>1, GoneType
<1>6. CASE Abandon
  <2>1. Gone /\ troubles' \in Nat
    BY <1>6 DEF Abandon, TypeInv, CallTypes
  <2>2. QED
    BY <2>1, GoneType
<1>7. CASE Start
  <2>1. IsIndex(main') /\ IsIndex(delta')
    BY <1>7, CloseType DEF Start, TypeInv
  <2>2. EmptyCache \in [Terms -> Seq(1..MaxFID)] /\ 0 \in 0..MaxFID /\ 0 \in 0..2
    BY CBSessionAssumption DEF EmptyCache
  <2>3. /\ open' = TRUE /\ currFID' = 0 /\ cache' = EmptyCache /\ session' = {} /\ run' = 0
        /\ pc = "idle" /\ pc' = pc
        /\ UNCHANGED <<dbOpen, op, fps, pc, ret, todo, job, mkeys, mbuf, failed, troubles, accepted, acked>>
    BY <1>7 DEF Start, call, Idle
  <2>4. ScalarTypes'
    BY <2>2, <2>3 DEF TypeInv, ScalarTypes
  <2>5. CallTypes' /\ JobHasPostings' /\ TodoIsCached' /\ JobInFlush'
    BY <2>3 DEF TypeInv, CallTypes, JobHasPostings, TodoIsCached, JobInFlush
  <2>6. QED
    BY <2>1, <2>4, <2>5 DEF TypeInv
<1>8. CASE Flush
  <2>1. cache' = cache /\ BeginFlush(cache', "idle") /\ job = NoJob
        /\ UNCHANGED <<open, currFID, dbOpen, op, main, delta, fps, troubles, accepted, session, acked>>
    BY <1>8 DEF Flush, indexer, history, Idle, TypeInv, JobInFlush
  <2>2. /\ run' \in 0..2 /\ pc' = "flush" /\ ret' \in {"idle", "end"} /\ todo' \subseteq Terms
        /\ failed' = failed /\ mbuf' = mbuf /\ job' = NoJob /\ mkeys' = mkeys
        /\ JobHasPostings' /\ TodoIsCached' /\ JobInFlush'
    BY <2>1, BeginFlushType
  <2>3. QED
    BY <2>1, <2>2, NoJobType DEF TypeInv, ScalarTypes, CallTypes
<1>9. ASSUME NEW flush \in BOOLEAN, End(flush) PROVE TypeInv'
  <2>1. cache' = cache /\ job = NoJob
        /\ UNCHANGED <<open, currFID, dbOpen, op, main, delta, fps, troubles, accepted, acked>>
    BY <1>9 DEF End, indexer, Idle, TypeInv, JobInFlush
  <2>2. session' \subseteq Terms \X (1..MaxFID)
    BY <1>9 DEF End, TypeInv, ScalarTypes
  <2>3. CASE BeginFlush(cache', "end")
    <3>1. /\ run' \in 0..2 /\ pc' = "flush" /\ ret' \in {"idle", "end"} /\ todo' \subseteq Terms
          /\ failed' = failed /\ mbuf' = mbuf /\ job' = NoJob /\ mkeys' = mkeys
          /\ JobHasPostings' /\ TodoIsCached' /\ JobInFlush'
      BY <2>1, <2>3, BeginFlushType
    <3>2. QED
      BY <2>1, <2>2, <3>1, NoJobType DEF TypeInv, ScalarTypes, CallTypes
  <2>4. CASE pc' = "end" /\ UNCHANGED <<run, ret, todo, job, mkeys, mbuf, failed>>
    BY <2>1, <2>2, <2>4 DEF TypeInv, ScalarTypes, CallTypes, JobHasPostings, TodoIsCached, JobInFlush
  <2>5. QED
    BY <1>9, <2>1, <2>3, <2>4 DEF End
<1>10. CASE EndSession
  <2>1. /\ open' = FALSE /\ pc' \in {"idle", "merge"} /\ pc = "end"
        /\ UNCHANGED <<currFID, cache, dbOpen, op, run, main, fps, ret, todo, job, accepted>>
        /\ failed' \in {failed, TRUE} /\ mbuf' \in {mbuf, MergeBuffer}
    BY <1>10 DEF EndSession
  <2>2. session' \in {session, {}} /\ acked' \in {acked, acked \cup session}
    BY <1>10 DEF EndSession, Acknowledge
  <2>3. IsIndex(delta') /\ mkeys' \in {mkeys, delta.keys} /\ troubles' \in Nat
    <3>1. CASE op = "BUILD"
      BY <1>10, <3>1 DEF EndSession, TypeInv, CallTypes
    <3>2. CASE op # "BUILD"
      <4>1. PICK fault \in Faults \ {"get"} : \E ix \in Waits(WriteCached(delta), fault) :
              /\ Count(fault)
              /\ delta' \in {ix, delta, FlushedCache(ix)} /\ mkeys' \in {mkeys, delta.keys}
        BY <1>10, <3>2 DEF EndSession
      <4>2. PICK ix \in Waits(WriteCached(delta), fault) :
              /\ Count(fault)
              /\ delta' \in {ix, delta, FlushedCache(ix)} /\ mkeys' \in {mkeys, delta.keys}
        BY <4>1
      <4>3. IsIndex(WriteCached(delta))
        BY WriteCachedType DEF TypeInv
      <4>4. IsIndex(ix) /\ IsIndex(FlushedCache(ix))
        BY <4>3, WaitType, CloseType
      <4>5. QED
        BY <4>2, <4>4, CountType DEF TypeInv
    <3>3. QED
      BY <3>1, <3>2
  <2>4. ScalarTypes'
    <3>1. {accepted, session, acked}' \subseteq SUBSET (Terms \X (1..MaxFID))
      <4> DEFINE P == Terms \X (1..MaxFID)
      <4>1. accepted \in SUBSET P /\ session \in SUBSET P /\ acked \in SUBSET P
        BY DEF TypeInv, ScalarTypes
      <4> HIDE DEF P
      <4>2. accepted' \in SUBSET P /\ session' \in SUBSET P /\ acked' \in SUBSET P
        BY <2>1, <2>2, <4>1
      <4>3. QED
        BY <4>2 DEF P
    <3>2. {open, dbOpen, failed}' \subseteq BOOLEAN /\ pc' \in {"idle", "flush", "batch", "end", "merge"}
      BY <2>1 DEF TypeInv, ScalarTypes
    <3>3. mbuf' \in Nat
      BY <2>1, CBSessionAssumption DEF TypeInv, ScalarTypes
    <3>4. QED
      BY <2>1, <3>1, <3>2, <3>3 DEF TypeInv, ScalarTypes
  <2>5. mkeys' \in Seq(BlockKeys)
    BY <2>3 DEF TypeInv, CallTypes, IsIndex
  <2>6. QED
    BY <2>1, <2>3, <2>4, <2>5 DEF TypeInv, CallTypes, JobHasPostings, TodoIsCached, JobInFlush
<1>11. CASE EndMerge
  <2>1. PICK fault \in Faults \ {"store"} :
          /\ Count(fault)
          /\ IF fault = "get" THEN Fail /\ UNCHANGED <<delta, session, acked>>
             ELSE /\ delta' = Drop(delta) /\ Acknowledge
                  /\ pc' = "idle" /\ UNCHANGED <<ret, todo, job, mkeys, mbuf, failed>>
    BY <1>11, Zenon DEF EndMerge
  <2>2. UNCHANGED <<open, currFID, cache, dbOpen, op, run, main, fps, accepted>>
    BY <1>11 DEF EndMerge, indexer
  <2>3. troubles' \in Nat
    BY <2>1, CountType
  <2>4. CASE fault = "get"
    <3>1. Fail /\ UNCHANGED <<delta, session, acked>>
      BY <2>1, <2>4
    <3>2. QED
      BY <2>2, <2>3, <3>1, FailType DEF TypeInv, ScalarTypes, CallTypes
  <2>5. CASE fault # "get"
    <3>1. /\ delta' = Drop(delta) /\ session' = {} /\ acked' = acked \cup session
          /\ pc' = "idle" /\ UNCHANGED <<ret, todo, job, mkeys, mbuf, failed>>
      BY <2>1, <2>5 DEF Acknowledge
    <3>2. IsIndex(delta')
      BY <3>1, CloseType DEF TypeInv
    <3>3. ScalarTypes'
      <4>1. {accepted, session, acked}' \subseteq SUBSET (Terms \X (1..MaxFID))
        BY <2>2, <3>1 DEF TypeInv, ScalarTypes
      <4>2. QED
        BY <2>2, <3>1, <4>1 DEF TypeInv, ScalarTypes
    <3>4. CallTypes' /\ JobHasPostings' /\ TodoIsCached' /\ JobInFlush'
      <4>1. job = NoJob
        BY <1>11 DEF EndMerge, TypeInv, JobInFlush
      <4>2. QED
        BY <2>2, <2>3, <3>1, <4>1, NoJobType
        DEF TypeInv, CallTypes, JobHasPostings, TodoIsCached, JobInFlush
    <3>5. QED
      BY <2>2, <3>2, <3>3, <3>4 DEF TypeInv
  <2>6. QED
    BY <2>4, <2>5
<1>12. QED
  BY <1>1, <1>2, <1>3, <1>4, <1>5, <1>6, <1>7, <1>8, <1>9, <1>10, <1>11

\* A recording is indexed.
LEMMA IndexType ==
  ASSUME TypeInv, NEW f \in 1..MaxFID, NEW ts \in Recordings, Index(f, ts)
  PROVE  TypeInv'
<1>1. cache' \in [Terms -> Seq(1..MaxFID)]
  <2>1. \A t \in Terms : cache[t] \in Seq(1..MaxFID) /\ Append(cache[t], f) \in Seq(1..MaxFID)
    BY DEF TypeInv, ScalarTypes
  <2>2. QED
    BY <2>1 DEF Index
<1>2. /\ UNCHANGED <<open, dbOpen, op, main, delta, acked>> /\ currFID' = f
      /\ accepted' = accepted \cup (ts \X {f}) /\ session' = session \cup (ts \X {f})
      /\ pc = "idle" /\ job = NoJob
  BY DEF Index, Idle, TypeInv, JobInFlush
<1>3. /\ {accepted, session, acked}' \subseteq SUBSET (Terms \X (1..MaxFID))
      /\ f \in 0..MaxFID
  <2>1. ts \X {f} \subseteq Terms \X (1..MaxFID)
    BY DEF Recordings
  <2>2. f \in 0..MaxFID
    BY CBSessionAssumption
  <2>3. QED
    BY <1>2, <2>1, <2>2 DEF TypeInv, ScalarTypes
<1>4. PICK fault \in Faults \ {"get"} :
       /\ Count(fault)
       /\ fps' = IF fault = "store" THEN fps ELSE fps \cup {f}
       /\ IF fault = "store" THEN Fail /\ UNCHANGED run
          ELSE IF CacheSize(cache') >= CacheLimit THEN BeginFlush(cache', "idle")
          ELSE UNCHANGED <<run, call>>
  BY Zenon DEF Index
<1>5. fps' \subseteq 1..MaxFID /\ troubles' \in Nat
  BY <1>4, CountType DEF TypeInv, ScalarTypes
<1>6. /\ run' \in 0..2 /\ failed' \in BOOLEAN /\ pc' \in {"idle", "flush"} /\ ret' \in {"idle", "end"}
      /\ todo' \subseteq Terms /\ mbuf' \in Nat /\ job' \in Jobs /\ mkeys' \in Seq(BlockKeys)
      /\ JobHasPostings' /\ TodoIsCached' /\ JobInFlush'
  <2>1. CASE Fail /\ UNCHANGED run
    <3>1. failed' = TRUE
      BY <2>1 DEF Fail
    <3>2. QED
      BY <2>1, <3>1, FailType DEF TypeInv, ScalarTypes
  <2>2. CASE BeginFlush(cache', "idle")
    <3>1. /\ run' \in 0..2 /\ pc' = "flush" /\ ret' \in {"idle", "end"} /\ todo' \subseteq Terms
          /\ failed' = failed /\ mbuf' = mbuf /\ job' = NoJob /\ mkeys' = mkeys
          /\ JobHasPostings' /\ TodoIsCached' /\ JobInFlush'
      BY <1>2, <2>2, BeginFlushType
    <3>2. QED
      BY <3>1, NoJobType DEF TypeInv, ScalarTypes, CallTypes
  <2>3. CASE UNCHANGED <<run, call>>
    BY <1>2, <2>3, NoJobType
    DEF call, TypeInv, ScalarTypes, CallTypes, JobHasPostings, TodoIsCached, JobInFlush
  <2>4. QED
    BY <1>4, <2>1, <2>2, <2>3
<1>7. ScalarTypes'
  BY <1>1, <1>2, <1>3, <1>5, <1>6 DEF TypeInv, ScalarTypes
<1>8. QED
  BY <1>2, <1>5, <1>6, <1>7 DEF TypeInv, CallTypes

\* The headers of a list are read.
LEMMA BeginType ==
  ASSUME TypeInv, NEW t \in Terms, BeginList(t)
  PROVE  TypeInv'
<1> DEFINE lh  == ListHeader(t)
           hdr == IF lh = 0 THEN NullHdr ELSE BlockHeader(t, lh)
<1>1. PICK fault \in Faults :
       /\ Count(fault)
       /\ main' \in IF ReadsMain(t) THEN Waits(main, fault) ELSE {main}
       /\ delta' \in IF DeltaFirst THEN Waits(delta, fault) ELSE {delta}
       /\ IF fault = "get" \/ (lh # 0 /\ hdr = NullHdr)
          THEN Fail
          ELSE /\ job' = [term |-> t, lh |-> lh, hdr |-> hdr, rest |-> cache[t]]
               /\ todo' = todo \ {t}
               /\ UNCHANGED <<pc, ret, mkeys, mbuf, failed>>
  BY Zenon DEF BeginList
<1>2. /\ UNCHANGED <<open, currFID, cache, dbOpen, op, run, fps, accepted, session, acked>>
      /\ pc = "flush" /\ t \in todo
  BY DEF BeginList, indexer, history
<1>3. IsIndex(main') /\ IsIndex(delta') /\ troubles' \in Nat
  BY <1>1, CountType, WaitType DEF TypeInv
<1>4. lh \in Nat /\ hdr \in Headers
  <2>1. \A i : /\ GetPListHeader(main, t) \in Nat /\ GetPListHeader(delta, t) \in Nat
               /\ GetPListBlockHeader(main, t, i) \in Headers
               /\ GetPListBlockHeader(delta, t, i) \in Headers
    BY ReadType DEF TypeInv
  <2>2. NullHdr \in Headers
    BY DEF NullHdr, Headers
  <2>3. QED
    BY <2>1, <2>2 DEF ListHeader, BlockHeader
<1> HIDE DEF lh, hdr
<1>5. CASE Fail
  BY <1>2, <1>3, <1>5, FailType DEF TypeInv, ScalarTypes, CallTypes
<1>6. CASE ~Fail
  <2>1. /\ job' = [term |-> t, lh |-> lh, hdr |-> hdr, rest |-> cache[t]]
        /\ todo' = todo \ {t} /\ UNCHANGED <<pc, ret, mkeys, mbuf, failed>>
    BY <1>1, <1>6
  <2>2. cache[t] \in Seq(1..MaxFID) /\ cache[t] # <<>>
    BY <1>2 DEF TypeInv, ScalarTypes, TodoIsCached
  <2>3. job' \in Jobs /\ job'.term \in Terms /\ job'.rest # <<>>
    BY <1>4, <2>1, <2>2 DEF Jobs
  <2>4. ScalarTypes'
    BY <1>2, <2>1 DEF TypeInv, ScalarTypes
  <2>5. CallTypes' /\ JobHasPostings' /\ TodoIsCached' /\ JobInFlush'
    BY <1>2, <1>3, <2>1, <2>3 DEF TypeInv, CallTypes, JobHasPostings, TodoIsCached, JobInFlush
  <2>6. QED
    BY <1>3, <2>4, <2>5 DEF TypeInv
<1>7. QED
  BY <1>5, <1>6

\* The cached blocks of another list are scheduled, and perhaps executed.
LEMMA MoveType ==
  ASSUME TypeInv, MoveCache \/ ExecuteBatch
  PROVE  TypeInv'
<1>1. job # NoJob /\ job.term \in Terms
  BY DEF MoveCache, ExecuteBatch, TypeInv, JobInFlush, JobHasPostings
<1>2. IsIndex(WriteCached(Target)) /\ IsIndex(SwitchList(WriteCached(Target), job.term))
  BY <1>1, TargetType, WriteCachedType
<1>3. CASE MoveCache
  <2>1. IsIndex(main') /\ IsIndex(delta')
    <3>1. \E S : SetTarget(S) /\ \A ix \in S : IsIndex(ix)
      BY <1>2, <1>3 DEF MoveCache
    <3>2. QED
      BY <3>1, TargetType
  <2>2. /\ UNCHANGED <<open, currFID, cache, dbOpen, op, run, fps, ret, todo, job, mkeys, mbuf, failed,
                       troubles, accepted, session, acked>>
        /\ pc = "flush" /\ pc' \in {"flush", "batch"}
    BY <1>3 DEF MoveCache, indexer, history
  <2>3. QED
    BY <1>1, <2>1, <2>2 DEF TypeInv, ScalarTypes, CallTypes, JobHasPostings, TodoIsCached, JobInFlush
<1>4. CASE ExecuteBatch
  <2>1. PICK fault \in Faults \ {"get"} : \E ix \in Waits(Target, fault) :
       /\ Count(fault)
       /\ IF ix.status = "failed" THEN SetTarget({ix}) /\ Fail
          ELSE /\ SetTarget({SwitchList([ix EXCEPT !.accum = 0], job.term)})
               /\ pc' = "flush" /\ UNCHANGED <<ret, todo, job, mkeys, mbuf, failed>>
    BY <1>4, Zenon DEF ExecuteBatch
  <2>2. PICK ix \in Waits(Target, fault) :
       /\ Count(fault)
       /\ IF ix.status = "failed" THEN SetTarget({ix}) /\ Fail
          ELSE /\ SetTarget({SwitchList([ix EXCEPT !.accum = 0], job.term)})
               /\ pc' = "flush" /\ UNCHANGED <<ret, todo, job, mkeys, mbuf, failed>>
    BY <2>1, Zenon
  <2>3. UNCHANGED <<open, currFID, cache, dbOpen, op, run, fps, accepted, session, acked>> /\ pc = "batch"
    BY <1>4 DEF ExecuteBatch, indexer, history
  <2>4. IsIndex(ix)
    BY TargetType, WaitType
  <2>5. IsIndex([ix EXCEPT !.accum = 0])
    BY <2>4 DEF IsIndex
  <2>6. IsIndex(SwitchList([ix EXCEPT !.accum = 0], job.term))
    <3> DEFINE w == [ix EXCEPT !.accum = 0]
    <3>1. IsIndex(w)
      BY <2>5
    <3> HIDE DEF w
    <3>2. IsIndex(SwitchList(w, job.term))
      BY <1>1, <3>1, SwitchType
    <3>3. QED
      BY <3>2 DEF w
  <2>7. troubles' \in Nat
    BY <2>2, CountType
  <2>8. CASE ix.status = "failed"
    <3>1. IsIndex(main') /\ IsIndex(delta') /\ Fail
      BY <2>2, <2>4, <2>8, TargetType
    <3>2. QED
      BY <2>3, <2>7, <3>1, FailType DEF TypeInv, ScalarTypes, CallTypes
  <2>9. CASE ix.status # "failed"
    <3>1. IsIndex(main') /\ IsIndex(delta')
      BY <2>2, <2>6, <2>9, TargetType
    <3>2. pc' = "flush" /\ UNCHANGED <<ret, todo, job, mkeys, mbuf, failed>>
      BY <2>2, <2>9
    <3>3. QED
      BY <1>1, <2>3, <2>7, <3>1, <3>2
      DEF TypeInv, ScalarTypes, CallTypes, JobHasPostings, TodoIsCached, JobInFlush
  <2>10. QED
    BY <2>8, <2>9
<1>5. QED
  BY <1>3, <1>4

\* A chunk is appended, or its append fails.
LEMMA EmitType ==
  ASSUME TypeInv, EmitChunk
  PROVE  TypeInv'
<1> DEFINE lh   == IF Fits THEN job.lh ELSE job.lh + 1
           code == Encode(Chunk, Base)
           rest == SubSeq(job.rest, Len(Chunk) + 1, Len(job.rest))
           good(w) == AppendChunk(w, job.term, lh, ChunkHeader, code, ~Fits)
           bad(w) == AppendFails(w, job.term, lh, ChunkHeader, code, ~Fits)
           next == IF rest = <<>> THEN NoJob ELSE [job EXCEPT !.lh = lh, !.hdr = ChunkHeader, !.rest = rest]
           reads == Reads(Target, ChunkHeader, ~Fits)
<1>1. /\ pc = "flush" /\ job # NoJob /\ Target.clist = job.term
      /\ UNCHANGED <<open, currFID, cache, dbOpen, op, run, fps, accepted, session, acked>>
  BY DEF EmitChunk, indexer, history
<1>2. PICK fault \in IF reads THEN Faults ELSE {"none"} :
        /\ Count(fault)
        /\ \E ix \in IF reads THEN Waits(Target, fault) ELSE {Target} :
             IF fault = "get" THEN SetTarget({bad(ix)}) /\ Fail
             ELSE /\ SetTarget({good(ix)}) /\ job' = next
                  /\ UNCHANGED <<pc, ret, todo, mkeys, mbuf, failed>>
  BY Zenon DEF EmitChunk
<1>3. PICK ix \in IF reads THEN Waits(Target, fault) ELSE {Target} :
             IF fault = "get" THEN SetTarget({bad(ix)}) /\ Fail
             ELSE /\ SetTarget({good(ix)}) /\ job' = next
                  /\ UNCHANGED <<pc, ret, todo, mkeys, mbuf, failed>>
  BY <1>2, Zenon
<1>4. IsIndex(ix) /\ ix.clist = job.term
  BY <1>1, TargetType, WaitType
<1>5. job \in Jobs /\ job.term \in Terms
  BY <1>1 DEF TypeInv, CallTypes, JobHasPostings
<1>6. /\ Chunk \in Seq(1..MaxFID) /\ Base \in Nat /\ ChunkHeader \in Headers
      /\ rest \in Seq(1..MaxFID) /\ code \in Seq(Nat) /\ (~Fits) \in BOOLEAN
  BY <1>1, ChunkType, EncodeType
<1>7. lh \in Nat
  BY <1>5 DEF Jobs
<1>8. troubles' \in Nat
  BY <1>2, CountType
<1> HIDE DEF lh, code, rest
<1>9. IsIndex(good(ix)) /\ IsIndex(bad(ix))
  BY <1>4, <1>5, <1>6, <1>7, AppendType, FailsType
<1> HIDE DEF good, bad
<1>10. CASE fault = "get"
  <2>1. IsIndex(main') /\ IsIndex(delta') /\ Fail
    BY <1>3, <1>9, <1>10, TargetType
  <2>2. QED
    BY <1>1, <1>8, <2>1, FailType DEF TypeInv, ScalarTypes, CallTypes
<1>11. CASE fault # "get"
  <2>1. IsIndex(main') /\ IsIndex(delta')
    BY <1>3, <1>9, <1>11, TargetType
  <2>2. job' = next /\ UNCHANGED <<pc, ret, todo, mkeys, mbuf, failed>>
    BY <1>3, <1>11
  <2>3. job' \in Jobs /\ (job' # NoJob => job'.term \in Terms /\ job'.rest # <<>>)
    <3>1. CASE rest = <<>>
      BY <2>2, <3>1, NoJobType
    <3>2. CASE rest # <<>>
      <4>1. job' = [job EXCEPT !.lh = lh, !.hdr = ChunkHeader, !.rest = rest]
        BY <2>2, <3>2
      <4>2. QED
        BY <1>5, <1>6, <1>7, <3>2, <4>1 DEF Jobs
    <3>3. QED
      BY <3>1, <3>2
  <2>4. QED
    BY <1>1, <1>8, <2>1, <2>2, <2>3 DEF TypeInv, ScalarTypes, CallTypes, JobHasPostings, TodoIsCached, JobInFlush
<1>12. QED
  BY <1>10, <1>11

\* A flush ends.
LEMMA EndFlushType ==
  ASSUME TypeInv, EndFlush
  PROVE  TypeInv'
<1>1. /\ pc = "flush" /\ job = NoJob /\ todo = {} /\ cache' = EmptyCache
      /\ UNCHANGED <<open, currFID, dbOpen, op, run, fps, todo, job, mkeys, mbuf, accepted, session, acked>>
  BY DEF EndFlush, history
<1>2. EmptyCache \in [Terms -> Seq(1..MaxFID)]
  BY DEF EmptyCache
<1>3. /\ IsIndex(main') /\ IsIndex(delta') /\ troubles' \in Nat
      /\ pc' \in {ret, "idle"} /\ ret' = "idle" /\ failed' \in {failed, TRUE}
  <2>1. CASE DOMAIN Target.cache = {}
    <3>1. SetTarget({Target}) /\ pc' = ret /\ ret' = "idle" /\ UNCHANGED <<troubles, failed>>
      BY <2>1 DEF EndFlush
    <3>2. QED
      BY <3>1, TargetType DEF TypeInv, CallTypes
  <2>2. CASE DOMAIN Target.cache # {}
    <3>1. PICK fault \in Faults \ {"get"} : \E ix \in Waits(WriteCached(Target), fault) :
            /\ Count(fault)
            /\ IF ix.status = "failed"
               THEN SetTarget({ix}) /\ pc' = "idle" /\ ret' = "idle" /\ failed' = TRUE
               ELSE SetTarget({FlushedCache(ix)}) /\ pc' = ret /\ ret' = "idle" /\ UNCHANGED failed
      BY <2>2, Zenon DEF EndFlush
    <3>2. PICK ix \in Waits(WriteCached(Target), fault) :
            /\ Count(fault)
            /\ IF ix.status = "failed"
               THEN SetTarget({ix}) /\ pc' = "idle" /\ ret' = "idle" /\ failed' = TRUE
               ELSE SetTarget({FlushedCache(ix)}) /\ pc' = ret /\ ret' = "idle" /\ UNCHANGED failed
      BY <3>1, Zenon
    <3>3. IsIndex(ix) /\ IsIndex(FlushedCache(ix))
      BY TargetType, WriteCachedType, WaitType, CloseType
    <3>4. IsIndex(main') /\ IsIndex(delta')
      BY <3>2, <3>3, TargetType
    <3>5. QED
      BY <3>2, <3>4, CountType
  <2>3. QED
    BY <2>1, <2>2
<1>4. ScalarTypes'
  BY <1>1, <1>2, <1>3 DEF TypeInv, ScalarTypes
<1>5. CallTypes' /\ JobHasPostings' /\ TodoIsCached' /\ JobInFlush'
  BY <1>1, <1>3 DEF TypeInv, ScalarTypes, CallTypes, JobHasPostings, TodoIsCached, JobInFlush
<1>6. QED
  BY <1>3, <1>4, <1>5 DEF TypeInv

\* A record of the delta is merged.
LEMMA MergeType ==
  ASSUME TypeInv, MergeRecord
  PROVE  TypeInv'
<1> DEFINE k == Head(mkeys)
           live(ix) == ReadBlock(ix, k[1], k[2])
           d == ReadBlock(delta, k[1], k[2])
           read(ix) == Larger(mbuf, Len(live(ix).body))
           size(ix) == Larger(read(ix), Len(live(ix).body) + Len(d.body))
<1>1. /\ pc = "merge" /\ mkeys # <<>> /\ job = NoJob
      /\ UNCHANGED <<open, currFID, cache, dbOpen, op, run, fps, accepted, session, acked>>
  BY DEF MergeRecord, indexer, history, TypeInv, JobInFlush
<1>2. PICK fault \in MergeFaults :
        /\ Count(fault)
        /\ delta' \in Waits(delta, "none")
        /\ \E ix \in Waits(main, fault) :
             IF fault = "get" THEN main' = ix /\ Fail
             ELSE /\ BufferMoves(fault) => size(ix) > read(ix)
                  /\ main' = WriteBlock(ix, k[1], k[2], MergedBlock(live(ix), d, k[2], BufferMoves(fault)))
                  /\ mkeys' = Tail(mkeys) /\ mbuf' = size(ix)
                  /\ UNCHANGED <<pc, ret, todo, job, failed>>
  BY Zenon DEF MergeRecord
<1>3. PICK ix \in Waits(main, fault) :
             IF fault = "get" THEN main' = ix /\ Fail
             ELSE /\ BufferMoves(fault) => size(ix) > read(ix)
                  /\ main' = WriteBlock(ix, k[1], k[2], MergedBlock(live(ix), d, k[2], BufferMoves(fault)))
                  /\ mkeys' = Tail(mkeys) /\ mbuf' = size(ix)
                  /\ UNCHANGED <<pc, ret, todo, job, failed>>
  BY <1>2, Zenon
<1>4. IsIndex(ix) /\ IsIndex(delta') /\ troubles' \in Nat
  BY <1>2, WaitType, CountType DEF TypeInv
<1>5. k \in BlockKeys /\ Tail(mkeys) \in Seq(BlockKeys)
  BY <1>1, HeadTailProperties DEF TypeInv, CallTypes
<1>6. live(ix) \in BlockRecords /\ d \in BlockRecords
  BY <1>4, ReadType DEF TypeInv
<1>7. size(ix) \in Nat
  <2> DEFINE m == Len(live(ix).body)
             n == Len(d.body)
  <2>1. m \in Nat /\ n \in Nat
    <3> HIDE DEF live, d
    <3>1. live(ix).body \in Seq(Nat) /\ d.body \in Seq(Nat)
      BY <1>6 DEF BlockRecords
    <3>2. QED
      BY <3>1, LenProperties
  <2>2. mbuf \in Nat
    BY DEF TypeInv, ScalarTypes
  <2> HIDE DEF m, n
  <2>3. Larger(Larger(mbuf, m), m + n) \in Nat
    BY <2>1, <2>2 DEF Larger
  <2>4. QED
    BY <2>3 DEF m, n
<1> HIDE DEF k, live, d, read, size
<1>8. CASE fault = "get"
  <2>1. IsIndex(main') /\ Fail
    BY <1>3, <1>4, <1>8
  <2>2. QED
    BY <1>1, <1>4, <2>1, FailType DEF TypeInv, ScalarTypes, CallTypes
<1>9. CASE fault # "get"
  <2> DEFINE stale == BufferMoves(fault)
  <2>1. main' = WriteBlock(ix, k[1], k[2], MergedBlock(live(ix), d, k[2], stale))
    BY <1>3, <1>9
  <2>2. IsIndex(main')
    <3>1. MergedBlock(live(ix), d, k[2], stale) \in BlockRecords
      BY <1>6, MergedType DEF BufferMoves
    <3>2. k[1] \in Terms /\ k[2] \in Nat
      BY <1>5 DEF BlockKeys
    <3>3. QED
      BY <1>4, <2>1, <3>1, <3>2, WriteType
  <2>3. mkeys' = Tail(mkeys) /\ mbuf' = size(ix) /\ UNCHANGED <<pc, ret, todo, job, failed>>
    BY <1>3, <1>9
  <2>4. ScalarTypes'
    BY <1>1, <1>7, <2>3 DEF TypeInv, ScalarTypes
  <2>5. CallTypes' /\ JobHasPostings' /\ TodoIsCached' /\ JobInFlush'
    BY <1>1, <1>4, <1>5, <2>3 DEF TypeInv, CallTypes, JobHasPostings, TodoIsCached, JobInFlush
  <2>6. QED
    BY <1>4, <2>2, <2>4, <2>5 DEF TypeInv
<1>10. QED
  BY <1>8, <1>9

\* Every step keeps the types.
LEMMA NextType == TypeInv /\ [Next]_vars => TypeInv'
<1> SUFFICES ASSUME TypeInv, [Next]_vars PROVE TypeInv'
  OBVIOUS
<1>1. CASE RejectChunk
  <2>1. Fail /\ UNCHANGED <<open, currFID, cache, dbOpen, op, run, main, delta, fps, troubles,
                            accepted, session, acked>>
    BY <1>1 DEF RejectChunk, indexer, store, history
  <2>2. QED
    BY <2>1, FailType DEF TypeInv, ScalarTypes, CallTypes
<1>2. CASE UNCHANGED vars
  BY <1>2 DEF vars, indexer, store, call, history, TypeInv, ScalarTypes, CallTypes, JobHasPostings,
              TodoIsCached, JobInFlush
<1>3. CASE \E f \in 1..MaxFID, ts \in Recordings : Index(f, ts)
  BY <1>3, IndexType
<1>4. CASE \E t \in Terms : BeginList(t)
  BY <1>4, BeginType
<1>5. CASE MoveCache \/ ExecuteBatch
  BY <1>5, MoveType
<1>6. CASE EmitChunk
  BY <1>6, EmitType
<1>7. CASE EndFlush
  BY <1>7, EndFlushType
<1>8. CASE MergeRecord
  BY <1>8, MergeType
<1>9. CASE \/ OpenStore \/ ReadList \/ CloseStore \/ ClearStore \/ Crash \/ Abandon \/ Start
           \/ \E flush \in BOOLEAN : End(flush)
           \/ Flush \/ EndSession \/ EndMerge
  BY <1>9, OuterType
<1>10. QED
  BY <1>1, <1>2, <1>3, <1>4, <1>5, <1>6, <1>7, <1>8, <1>9, Zenon DEF Next

\* Every variable keeps its type, whatever the server fails, whenever the
\* process dies and however a client goes on after an error: no chunk has a
\* last FID that does not exist, no record on the server is anything but a
\* block of a list, and every remembered key is the key of a block.
THEOREM TypeCorrect == Spec => []TypeOK
<1>1. TypeInv => TypeOK
  BY InvTypes
<1>2. QED
  BY <1>1, InitType, NextType, PTL DEF Spec

-----------------------------------------------------------------------------
(* The records of the delta and the keys remembered for them.              *)

\* The records there would be if the cached blocks were written.
CachedKeys(ix) == {<<ix.clist, b>> : b \in DOMAIN ix.cache}

Written(ix) ==
  [k \in DOMAIN View(ix) \cup CachedKeys(ix) |->
     IF k \in CachedKeys(ix) THEN ix.cache[k[2]] ELSE View(ix)[k]]

\* The records, point by point.
LEMMA WrittenAt ==
  ASSUME NEW ix, IsIndex(ix)
  PROVE  /\ DOMAIN Written(ix) = DOMAIN View(ix) \cup CachedKeys(ix)
         /\ \A b \in DOMAIN ix.cache : Written(ix)[<<ix.clist, b>>] = ix.cache[b]
         /\ \A k \in DOMAIN View(ix) : k \notin CachedKeys(ix) => Written(ix)[k] = View(ix)[k]
         /\ AreRecords(Written(ix), BlockKeys)
<1>1. DOMAIN Written(ix) = DOMAIN View(ix) \cup CachedKeys(ix)
  BY DEF Written
<1>2. ASSUME NEW b \in DOMAIN ix.cache PROVE Written(ix)[<<ix.clist, b>>] = ix.cache[b]
  <2>1. <<ix.clist, b>> \in CachedKeys(ix) /\ <<ix.clist, b>>[2] = b
    BY DEF CachedKeys
  <2> DEFINE k == <<ix.clist, b>>
  <2>2. k \in CachedKeys(ix) /\ k[2] = b
    BY <2>1
  <2> HIDE DEF k
  <2>3. Written(ix)[k] = ix.cache[b]
    BY <2>2, Zenon DEF Written
  <2>4. QED
    BY <2>3 DEF k
<1>3. \A k \in DOMAIN View(ix) : k \notin CachedKeys(ix) => Written(ix)[k] = View(ix)[k]
  BY Zenon DEF Written
<1>4. AreRecords(View(ix), BlockKeys)
  BY StoredType DEF View
<1>5. \A k \in CachedKeys(ix) : k \in BlockKeys /\ \E b \in DOMAIN ix.cache : k = <<ix.clist, b>>
  BY DEF CachedKeys, IsIndex, AreRecords, BlockKeys
<1>6. \A k \in DOMAIN Written(ix) : k \in BlockKeys /\ Written(ix)[k] \in BlockRecords
  <2>1. \A b \in DOMAIN ix.cache : ix.cache[b] \in BlockRecords
    BY DEF IsIndex, AreRecords
  <2>2. ASSUME NEW k \in CachedKeys(ix) PROVE k \in BlockKeys /\ Written(ix)[k] \in BlockRecords
    <3>1. PICK b \in DOMAIN ix.cache : k = <<ix.clist, b>>
      BY <1>5
    <3>2. QED
      BY <1>2, <1>5, <2>1, <3>1, Zenon
  <2>3. ASSUME NEW k \in DOMAIN View(ix) PROVE k \in BlockKeys /\ View(ix)[k] \in BlockRecords
    BY <1>4 DEF AreRecords
  <2>4. QED
    BY <1>1, <1>3, <2>2, <2>3, Zenon
<1>7. Written(ix) = [k \in DOMAIN Written(ix) |-> Written(ix)[k]]
  BY DEF Written
<1>8. AreRecords(Written(ix), BlockKeys)
  BY <1>6, <1>7, Zenon DEF AreRecords
<1>9. QED
  BY <1>1, <1>2, <1>3, <1>8

\* Without cached blocks they are the records that are read.
LEMMA WrittenViews ==
  ASSUME NEW ix, DOMAIN ix.cache = {}
  PROVE  Written(ix) = View(ix)
<1>1. CachedKeys(ix) = {}
  BY DEF CachedKeys
<1>2. Written(ix) = [k \in DOMAIN View(ix) |-> View(ix)[k]]
  BY <1>1 DEF Written
<1>3. View(ix) = [k \in DOMAIN View(ix) |-> View(ix)[k]]
  BY DEF View, Stored
<1>4. QED
  BY <1>2, <1>3

\* Nothing is scheduled: the records that are read are the server's.
LEMMA ViewServer ==
  ASSUME NEW ix, IsIndex(ix), ix.sched = <<>>
  PROVE  View(ix) = ix.server
<1>1. DOMAIN ix.sched = {}
  OBVIOUS
<1>2. \A k : StoresOn(ix, k, {}) = {}
  BY <1>1 DEF StoresOn
<1>3. View(ix) = [k \in DOMAIN ix.server |-> ix.server[k]]
  <2>1. DOMAIN ix.server \cup {ix.sched[i][1] : i \in DOMAIN ix.sched \ {}} = DOMAIN ix.server
    BY <1>1
  <2>2. QED
    BY <1>2, <2>1, Zenon DEF View, Stored
<1>4. ix.server = [k \in DOMAIN ix.server |-> ix.server[k]]
  BY DEF IsIndex, AreRecords
<1>5. QED
  BY <1>3, <1>4

\* A wait none of whose requests fail shows no reader anything new.
LEMMA WaitView ==
  ASSUME NEW ix, IsIndex(ix), NEW w \in Waits(ix, "none")
  PROVE  View(w) = View(ix) /\ Written(w) = Written(ix)
<1>1. /\ IsIndex(w) /\ w.sched = <<>> /\ w.server = View(ix)
      /\ w.clist = ix.clist /\ w.cache = ix.cache
  BY WaitType
<1>2. View(w) = View(ix)
  BY <1>1, ViewServer
<1>3. QED
  BY <1>1, <1>2 DEF Written, CachedKeys

\* What View shows of a key: the last store of it, or else the server's record.
LEMMA ViewAt ==
  ASSUME NEW ix, IsIndex(ix), NEW k
  PROVE  /\ k \in DOMAIN View(ix) <=>
              k \in DOMAIN ix.server \/ \E i \in DOMAIN ix.sched : ix.sched[i][1] = k
         /\ \A i \in DOMAIN ix.sched :
              ix.sched[i][1] = k /\ (\A j \in DOMAIN ix.sched : j > i => ix.sched[j][1] # k) =>
                View(ix)[k] = ix.sched[i][2]
         /\ (\A i \in DOMAIN ix.sched : ix.sched[i][1] # k) /\ k \in DOMAIN ix.server =>
              View(ix)[k] = ix.server[k]
<1>1. DOMAIN View(ix) = DOMAIN ix.server \cup {ix.sched[i][1] : i \in DOMAIN ix.sched \ {}}
  BY Zenon DEF View, Stored
<1>2. k \in DOMAIN View(ix) => View(ix)[k] = IF StoresOn(ix, k, {}) = {} THEN ix.server[k]
                                             ELSE ix.sched[Max(StoresOn(ix, k, {}))][2]
  BY Zenon DEF View, Stored
<1>3. k \in DOMAIN View(ix) <=>
              k \in DOMAIN ix.server \/ \E i \in DOMAIN ix.sched : ix.sched[i][1] = k
  BY <1>1
<1>4. ASSUME NEW i \in DOMAIN ix.sched,
             ix.sched[i][1] = k, \A j \in DOMAIN ix.sched : j > i => ix.sched[j][1] # k
      PROVE  View(ix)[k] = ix.sched[i][2]
  <2> DEFINE S == StoresOn(ix, k, {})
             m == Max(S)
  <2>1. i \in S
    BY <1>4 DEF StoresOn
  <2>2. m \in S /\ m >= i
    BY <2>1, StoredType
  <2>3. m \in DOMAIN ix.sched /\ ix.sched[m][1] = k
    BY <2>2 DEF StoresOn
  <2>4. m \in Nat /\ i \in Nat
    BY <2>3, SchedElements
  <2>5. m = i
    BY <1>4, <2>2, <2>3, <2>4
  <2>6. QED
    BY <1>2, <1>3, <1>4, <2>1, <2>5, Zenon
<1>5. ASSUME \A i \in DOMAIN ix.sched : ix.sched[i][1] # k, k \in DOMAIN ix.server
      PROVE  View(ix)[k] = ix.server[k]
  <2>1. StoresOn(ix, k, {}) = {}
    BY <1>5 DEF StoresOn
  <2>2. QED
    BY <1>2, <1>3, <1>5, <2>1, Zenon
<1>6. QED
  BY <1>3, <1>4, <1>5

\* What is scheduled when the cached blocks are.
LEMMA CachedWrites ==
  ASSUME NEW ix, IsIndex(ix)
  PROVE  /\ \A k \in CachedKeys(ix) : \E i \in DOMAIN WriteCached(ix).sched :
              /\ WriteCached(ix).sched[i][1] = k /\ WriteCached(ix).sched[i][2] = ix.cache[k[2]]
              /\ \A j \in DOMAIN WriteCached(ix).sched : j > i => WriteCached(ix).sched[j][1] # k
         /\ DOMAIN ix.sched \subseteq DOMAIN WriteCached(ix).sched
         /\ \A i \in DOMAIN ix.sched : WriteCached(ix).sched[i] = ix.sched[i]
         /\ \A i \in DOMAIN WriteCached(ix).sched :
              i \notin DOMAIN ix.sched => WriteCached(ix).sched[i][1] \in CachedKeys(ix)
<1> DEFINE ids == SetToSeq(DOMAIN ix.cache)
           n == Len(ids)
           m == Len(ix.sched)
           writes == [i \in 1..n |-> <<<<ix.clist, ids[i]>>, ix.cache[ids[i]]>>]
           sched == ix.sched \o writes
<1>1. /\ n \in Nat /\ ids \in [1..n -> DOMAIN ix.cache]
      /\ \A b \in DOMAIN ix.cache : \E i \in 1..n : ids[i] = b
      /\ \A i, j \in 1..n : ids[i] = ids[j] => i = j
  BY CachedOrder
<1>2. m \in Nat /\ DOMAIN ix.sched = 1..m
  BY SchedElements
<1>3. WriteCached(ix).sched = sched
  <2>1. WriteCached(ix) = [ix EXCEPT !.sched = sched]
    BY DEF WriteCached
  <2> HIDE DEF sched
  <2>2. QED
    BY <2>1 DEF IsIndex
<1>4. IsIndex(WriteCached(ix))
  BY WriteCachedType
<1>5. DOMAIN sched = 1..Len(sched)
  BY <1>3, <1>4, SchedElements
<1> HIDE DEF ids, n, m
<1>6. \A i \in 1..n : writes[i] = <<<<ix.clist, ids[i]>>, ix.cache[ids[i]]>>
  OBVIOUS
<1>7. ix.sched \in Seq(BlockKeys \X BlockRecords)
  BY DEF IsIndex
<1>8. writes \in Seq(BlockKeys \X BlockRecords) /\ Len(writes) = n
  <2>1. ASSUME NEW i \in 1..n PROVE writes[i] \in BlockKeys \X BlockRecords
    <3>1. ids[i] \in DOMAIN ix.cache
      BY <1>1
    <3>2. ix.clist \in Terms /\ ids[i] \in Nat /\ ix.cache[ids[i]] \in BlockRecords
      BY <3>1 DEF IsIndex, AreRecords
    <3>3. QED
      BY <3>2, <1>6 DEF BlockKeys
  <2>2. writes \in [1..n -> BlockKeys \X BlockRecords]
    BY <2>1
  <2>3. QED
    BY <1>1, <2>2
<1> HIDE DEF writes
<1>9. /\ Len(sched) = m + n
      /\ \A i \in 1..m : sched[i] = ix.sched[i]
      /\ \A j \in 1..n : sched[m + j] = writes[j]
  <2> DEFINE X == BlockKeys \X BlockRecords
  <2>1. ix.sched \in Seq(X) /\ writes \in Seq(X)
    BY <1>7, <1>8
  <2> HIDE DEF X
  <2>2. /\ Len(ix.sched \o writes) = Len(ix.sched) + Len(writes)
        /\ \A i \in 1..Len(ix.sched) : (ix.sched \o writes)[i] = ix.sched[i]
        /\ \A j \in 1..Len(writes) : (ix.sched \o writes)[Len(ix.sched) + j] = writes[j]
    BY <2>1, ConcatElements
  <2>3. QED
    BY <1>8, <2>2 DEF m
<1> HIDE DEF sched
<1>10. \A i \in DOMAIN ix.sched : i \in DOMAIN sched /\ sched[i] = ix.sched[i]
  BY <1>1, <1>2, <1>5, <1>9
<1>11. \A i \in DOMAIN sched : i \notin DOMAIN ix.sched =>
         \E j \in 1..n : i = m + j /\ sched[i][1] = <<ix.clist, ids[j]>>
  <2>1. ASSUME NEW i \in DOMAIN sched, i \notin DOMAIN ix.sched
        PROVE  \E j \in 1..n : i = m + j
    <3>1. i - m \in 1..n /\ i = m + (i - m)
      BY <1>1, <1>2, <1>5, <1>9, <2>1
    <3>2. QED
      BY <3>1
  <2>2. QED
    BY <1>6, <1>9, <2>1
<1>12. ASSUME NEW k \in CachedKeys(ix)
       PROVE  \E i \in DOMAIN sched :
              /\ sched[i][1] = k /\ sched[i][2] = ix.cache[k[2]]
              /\ \A j \in DOMAIN sched : j > i => sched[j][1] # k
  <2>1. PICK b \in DOMAIN ix.cache : k = <<ix.clist, b>>
    BY DEF CachedKeys
  <2>2. PICK p \in 1..n : ids[p] = b
    BY <1>1
  <2>3. m + p \in DOMAIN sched
    BY <1>1, <1>2, <1>5, <1>9
  <2>4. sched[m + p][1] = k /\ sched[m + p][2] = ix.cache[k[2]]
    BY <1>6, <1>9, <2>1, <2>2
  <2>5. ASSUME NEW j \in DOMAIN sched, j > m + p PROVE sched[j][1] # k
    <3>1. j \notin DOMAIN ix.sched
      BY <1>1, <1>2, <1>5, <2>5
    <3>2. PICK q \in 1..n : j = m + q /\ sched[j][1] = <<ix.clist, ids[q]>>
      BY <1>11, <3>1
    <3>3. q # p
      BY <1>2, <2>5, <3>2
    <3>4. ids[q] # b
      BY <1>1, <2>2, <3>3
    <3>5. QED
      BY <2>1, <3>2, <3>4
  <2>6. QED
    BY <2>3, <2>4, <2>5
<1>13. \A i \in DOMAIN sched : i \notin DOMAIN ix.sched => sched[i][1] \in CachedKeys(ix)
  <2>1. \A j \in 1..n : <<ix.clist, ids[j]>> \in CachedKeys(ix)
    BY <1>1 DEF CachedKeys
  <2>2. QED
    BY <1>11, <2>1
<1>14. QED
  BY <1>3, <1>10, <1>12, <1>13

\* Scheduling the cached blocks shows them to every reader, and nothing else.
LEMMA CachedView ==
  ASSUME NEW ix, IsIndex(ix)
  PROVE  View(WriteCached(ix)) = Written(ix)
<1> DEFINE new == WriteCached(ix)
<1>1. IsIndex(new) /\ new.server = ix.server
  BY WriteCachedType
<1>2. /\ \A k \in CachedKeys(ix) : \E i \in DOMAIN new.sched :
              /\ new.sched[i][1] = k /\ new.sched[i][2] = ix.cache[k[2]]
              /\ \A j \in DOMAIN new.sched : j > i => new.sched[j][1] # k
      /\ \A i \in DOMAIN ix.sched : i \in DOMAIN new.sched /\ new.sched[i] = ix.sched[i]
      /\ \A i \in DOMAIN new.sched : i \notin DOMAIN ix.sched => new.sched[i][1] \in CachedKeys(ix)
  BY CachedWrites
<1> HIDE DEF new
<1>3. /\ DOMAIN Written(ix) = DOMAIN View(ix) \cup CachedKeys(ix)
      /\ \A k \in CachedKeys(ix) : Written(ix)[k] = ix.cache[k[2]]
      /\ \A k \in DOMAIN View(ix) : k \notin CachedKeys(ix) => Written(ix)[k] = View(ix)[k]
  BY WrittenAt, Zenon DEF Written
<1>4. ASSUME NEW k \in CachedKeys(ix)
      PROVE  k \in DOMAIN View(new) /\ View(new)[k] = Written(ix)[k]
  <2>1. PICK i \in DOMAIN new.sched :
              /\ new.sched[i][1] = k /\ new.sched[i][2] = ix.cache[k[2]]
              /\ \A j \in DOMAIN new.sched : j > i => new.sched[j][1] # k
    BY <1>2
  <2>2. k \in DOMAIN View(new) /\ View(new)[k] = new.sched[i][2]
    BY <1>1, <2>1, ViewAt
  <2>3. QED
    BY <1>3, <2>1, <2>2
<1>5. ASSUME NEW k, k \notin CachedKeys(ix)
      PROVE  /\ k \in DOMAIN View(new) <=> k \in DOMAIN View(ix)
             /\ k \in DOMAIN View(ix) => View(new)[k] = View(ix)[k]
  <2>1. \A i \in DOMAIN new.sched : new.sched[i][1] = k => i \in DOMAIN ix.sched /\ ix.sched[i][1] = k
    BY <1>2, <1>5
  <2>2. k \in DOMAIN View(new) <=> k \in DOMAIN View(ix)
    <3>1. k \in DOMAIN View(new) <=>
              k \in DOMAIN new.server \/ \E i \in DOMAIN new.sched : new.sched[i][1] = k
      BY <1>1, ViewAt
    <3>2. k \in DOMAIN View(ix) <=>
              k \in DOMAIN ix.server \/ \E i \in DOMAIN ix.sched : ix.sched[i][1] = k
      BY ViewAt
    <3>3. QED
      BY <1>1, <1>2, <2>1, <3>1, <3>2
  <2>3. StoresOn(new, k, {}) = StoresOn(ix, k, {})
    BY <1>2, <2>1 DEF StoresOn
  <2>4. k \in DOMAIN View(new) => View(new)[k] = IF StoresOn(new, k, {}) = {} THEN new.server[k]
                                             ELSE new.sched[Max(StoresOn(new, k, {}))][2]
    BY Zenon DEF View, Stored
  <2>5. k \in DOMAIN View(ix) => View(ix)[k] = IF StoresOn(ix, k, {}) = {} THEN ix.server[k]
                                             ELSE ix.sched[Max(StoresOn(ix, k, {}))][2]
    BY Zenon DEF View, Stored
  <2>6. StoresOn(ix, k, {}) # {} => Max(StoresOn(ix, k, {})) \in DOMAIN ix.sched
    <3>1. StoresOn(ix, k, {}) # {} => Max(StoresOn(ix, k, {})) \in StoresOn(ix, k, {})
      BY StoredType
    <3>2. StoresOn(ix, k, {}) \subseteq DOMAIN ix.sched
      BY DEF StoresOn
    <3>3. QED
      BY <3>1, <3>2
  <2>7. k \in DOMAIN View(ix) => View(new)[k] = View(ix)[k]
    BY <1>1, <1>2, <2>2, <2>3, <2>4, <2>5, <2>6
  <2>8. QED
    BY <2>2, <2>7
<1>6. DOMAIN View(new) = DOMAIN Written(ix)
  BY <1>3, <1>4, <1>5
<1>7. \A k \in DOMAIN Written(ix) : View(new)[k] = Written(ix)[k]
  BY <1>3, <1>4, <1>5
<1>8. View(new) = [k \in DOMAIN View(new) |-> View(new)[k]]
  BY DEF View, Stored
<1>9. Written(ix) = [k \in DOMAIN Written(ix) |-> Written(ix)[k]]
  BY DEF Written
<1> HIDE DEF new
<1>10. View(new) = Written(ix)
  BY <1>6, <1>7, <1>8, <1>9
<1>11. QED
  BY <1>10 DEF new

\* So does executing them, and the cache is then empty or as it was.
LEMMA MovedView ==
  ASSUME NEW ix, IsIndex(ix)
  PROVE  /\ Written(WriteCached(ix)) = Written(ix)
         /\ \A t \in Terms : Written(SwitchList(WriteCached(ix), t)) = Written(ix)
         /\ \A w \in Waits(WriteCached(ix), "none") :
              IsIndex(w) /\ Written(FlushedCache(w)) = Written(ix) /\ w.keys = ix.keys
<1> DEFINE new == WriteCached(ix)
<1>1. /\ IsIndex(new) /\ new.keys = ix.keys /\ new.clist = ix.clist /\ new.cache = ix.cache
      /\ View(new) = Written(ix)
  BY WriteCachedType, CachedView
<1> HIDE DEF new
<1>2. Written(new) = Written(ix)
  <2>1. CachedKeys(new) = CachedKeys(ix)
    BY <1>1 DEF CachedKeys
  <2>2. /\ DOMAIN Written(ix) = DOMAIN View(ix) \cup CachedKeys(ix)
        /\ \A k \in CachedKeys(ix) : Written(ix)[k] = ix.cache[k[2]]
    BY Zenon DEF Written
  <2>3. Written(new) = [k \in DOMAIN Written(ix) \cup CachedKeys(ix) |->
                          IF k \in CachedKeys(ix) THEN ix.cache[k[2]] ELSE Written(ix)[k]]
    BY <1>1, <2>1 DEF Written
  <2>4. DOMAIN Written(ix) \cup CachedKeys(ix) = DOMAIN Written(ix)
    BY <2>2
  <2>5. Written(new) = [k \in DOMAIN Written(ix) |-> Written(ix)[k]]
    BY <2>2, <2>3, <2>4
  <2>6. Written(ix) = [k \in DOMAIN Written(ix) |-> Written(ix)[k]]
    BY DEF Written
  <2>7. QED
    BY <2>5, <2>6
<1>3. ASSUME NEW t \in Terms PROVE Written(SwitchList(new, t)) = Written(ix)
  <2>1. /\ SwitchList(new, t).server = new.server /\ SwitchList(new, t).sched = new.sched
        /\ SwitchList(new, t).cache = NoRecords
    BY <1>1, SwitchType
  <2>2. View(SwitchList(new, t)) = View(new)
    BY <2>1 DEF View, Stored, StoresOn
  <2>3. DOMAIN SwitchList(new, t).cache = {}
    BY <2>1, NewType
  <2>4. QED
    BY <1>1, <2>2, <2>3, WrittenViews
<1>4. ASSUME NEW w \in Waits(new, "none")
      PROVE  IsIndex(w) /\ Written(FlushedCache(w)) = Written(ix) /\ w.keys = ix.keys
  <2>1. IsIndex(w) /\ View(w) = View(new) /\ w.keys = new.keys
    BY <1>1, WaitType, WaitView
  <2>2. /\ FlushedCache(w).server = w.server /\ FlushedCache(w).sched = w.sched
        /\ FlushedCache(w).cache = NoRecords
    BY <2>1 DEF FlushedCache, IsIndex
  <2>3. View(FlushedCache(w)) = View(w)
    BY <2>2 DEF View, Stored, StoresOn
  <2>4. DOMAIN FlushedCache(w).cache = {}
    BY <2>2, NewType
  <2>5. QED
    BY <1>1, <2>1, <2>3, <2>4, WrittenViews
<1>5. QED
  BY <1>2, <1>3, <1>4 DEF new

\* The remembered keys are those of the records, each once.
KeysOf(keys, S) == ToSet(keys) = S /\ IsInjective(keys)

\* A key that is new is remembered.
LEMMA KeyAppended ==
  ASSUME NEW keys \in Seq(BlockKeys), NEW S, KeysOf(keys, S), NEW k \in BlockKeys, k \notin S
  PROVE  KeysOf(Append(keys, k), S \cup {k})
<1> DEFINE n == Len(keys)
           more == Append(keys, k)
<1>1. n \in Nat /\ DOMAIN keys = 1..n /\ n + 1 \in Nat
  OBVIOUS
<1>2. /\ more \in Seq(BlockKeys) /\ Len(more) = n + 1
      /\ \A i \in 1..n : more[i] = keys[i]
      /\ more[n + 1] = k
  BY AppendProperties
<1>3. DOMAIN more = 1..(n + 1)
  BY <1>1, <1>2
<1> HIDE DEF n, more
<1>4. \A i \in 1..(n + 1) : i \in 1..n \/ i = n + 1
  BY <1>1
<1>5. \A i \in 1..n : i \in 1..(n + 1) /\ i # n + 1
  BY <1>1
<1>6. n + 1 \in 1..(n + 1)
  BY <1>1
<1>7. \A i \in 1..n : keys[i] # k /\ keys[i] \in S
  BY <1>1 DEF KeysOf, ToSet
<1>8. ToSet(more) = S \cup {k}
  <2>1. \A x \in S : \E i \in 1..n : keys[i] = x
    BY <1>1 DEF KeysOf, ToSet
  <2>2. ToSet(more) = {more[i] : i \in 1..(n + 1)}
    BY <1>3 DEF ToSet
  <2>3. QED
    BY <1>2, <1>4, <1>5, <1>6, <1>7, <2>1, <2>2
<1>9. IsInjective(more)
  <2>1. \A i, j \in 1..n : keys[i] = keys[j] => i = j
    BY <1>1 DEF KeysOf, IsInjective
  <2>2. \A i, j \in 1..(n + 1) : more[i] = more[j] => i = j
    BY <1>2, <1>4, <1>7, <2>1
  <2>3. QED
    BY <1>3, <2>2 DEF IsInjective
<1>10. QED
  BY <1>8, <1>9 DEF KeysOf, more

\* A block is taken for a new one exactly when there is no record of it,
\* written or cached.
LEMMA FetchFinds ==
  ASSUME NEW ix, IsIndex(ix), \A k \in DOMAIN Written(ix) : Written(ix)[k] # NoBlock,
         NEW id, NEW new \in BOOLEAN, new => <<ix.clist, id>> \notin DOMAIN Written(ix)
  PROVE  /\ Fetch(ix, ix.clist, id, new) = NoBlock <=> <<ix.clist, id>> \notin DOMAIN Written(ix)
         /\ <<ix.clist, id>> \in DOMAIN Written(ix) =>
              Fetch(ix, ix.clist, id, new) = Written(ix)[<<ix.clist, id>>]
<1> DEFINE k == <<ix.clist, id>>
<1>1. k \in CachedKeys(ix) <=> id \in DOMAIN ix.cache
  BY DEF CachedKeys
<1>2. /\ DOMAIN Written(ix) = DOMAIN View(ix) \cup CachedKeys(ix)
      /\ id \in DOMAIN ix.cache => Written(ix)[k] = ix.cache[id]
      /\ k \in DOMAIN View(ix) /\ k \notin CachedKeys(ix) => Written(ix)[k] = View(ix)[k]
  BY WrittenAt
<1>3. ReadBlock(ix, ix.clist, id) = IF k \in DOMAIN View(ix) THEN View(ix)[k] ELSE NoBlock
  BY DEF ReadBlock
<1> HIDE DEF k
<1>4. CASE id \in DOMAIN ix.cache
  <2>1. k \in DOMAIN Written(ix) /\ ix.cache[id] # NoBlock
    BY <1>1, <1>2, <1>4
  <2>2. Fetch(ix, ix.clist, id, new) = ix.cache[id]
    BY <1>4, <2>1 DEF Fetch, Cached
  <2>3. QED
    BY <1>2, <1>4, <2>1, <2>2 DEF k
<1>5. CASE id \notin DOMAIN ix.cache
  <2>1. Fetch(ix, ix.clist, id, new) = IF new THEN NoBlock ELSE ReadBlock(ix, ix.clist, id)
    BY <1>5 DEF Fetch, Cached
  <2>2. k \in DOMAIN Written(ix) <=> k \in DOMAIN View(ix)
    BY <1>1, <1>2, <1>5
  <2>3. new => k \notin DOMAIN Written(ix)
    BY DEF k
  <2>4. k \in DOMAIN View(ix) => View(ix)[k] = Written(ix)[k] /\ View(ix)[k] # NoBlock
    BY <1>1, <1>2, <1>5, <2>2
  <2>5. QED
    BY <1>3, <2>1, <2>2, <2>3, <2>4 DEF k
<1>6. QED
  BY <1>4, <1>5

\* The index w is ix with the block b cached as number id of its list.
Caches(w, ix, id, b) ==
  /\ IsIndex(w) /\ w.clist = ix.clist
  /\ DOMAIN Written(w) = DOMAIN Written(ix) \cup {<<ix.clist, id>>}
  /\ Written(w)[<<ix.clist, id>>] = b
  /\ \A k \in DOMAIN Written(ix) : k # <<ix.clist, id>> => Written(w)[k] = Written(ix)[k]
  /\ KeysOf(ix.keys, DOMAIN Written(ix)) => KeysOf(w.keys, DOMAIN Written(w))

\* A block is cached, and its key remembered if there was no record of it.
LEMMA GrownCaches ==
  ASSUME NEW ix, IsIndex(ix), ix.clist \in Terms, NEW id \in Nat, NEW n \in Nat,
         NEW b \in BlockRecords, NEW old,
         old = NoBlock <=> <<ix.clist, id>> \notin DOMAIN Written(ix)
  PROVE  Caches([ix EXCEPT !.accum = n, !.cache = Put(ix.cache, id, b),
                           !.keys = Keys(ix, ix.clist, id, old)], ix, id, b)
<1> DEFINE c == Put(ix.cache, id, b)
           keys == Keys(ix, ix.clist, id, old)
           w == [ix EXCEPT !.accum = n, !.cache = c, !.keys = keys]
           key == <<ix.clist, id>>
<1>1. /\ AreRecords(c, Nat) /\ IsFiniteSet(DOMAIN c)
      /\ DOMAIN c = DOMAIN ix.cache \cup {id} /\ c[id] = b
      /\ \A k \in DOMAIN ix.cache : k # id => c[k] = ix.cache[k]
  <2> DEFINE old_c == ix.cache
  <2>1. AreRecords(old_c, Nat) /\ IsFiniteSet(DOMAIN old_c)
    BY DEF IsIndex
  <2> HIDE DEF old_c
  <2>2. /\ AreRecords(Put(old_c, id, b), Nat) /\ IsFiniteSet(DOMAIN Put(old_c, id, b))
        /\ DOMAIN Put(old_c, id, b) = DOMAIN old_c \cup {id}
        /\ Put(old_c, id, b)[id] = b
        /\ \A k \in DOMAIN old_c : k # id => Put(old_c, id, b)[k] = old_c[k]
    BY <2>1, PutType
  <2>3. QED
    BY <2>2 DEF old_c
<1>2. keys \in Seq(BlockKeys)
  BY KeysType
<1>3. keys = IF old = NoBlock THEN Append(ix.keys, key) ELSE ix.keys
  BY DEF Keys
<1> HIDE DEF c, keys
<1>4. IsIndex(w)
  BY <1>1, <1>2, GrownType
<1>5. w.server = ix.server /\ w.sched = ix.sched /\ w.keys = keys /\ w.clist = ix.clist /\ w.cache = c
  BY GrownFields
<1> HIDE DEF w
<1>6. View(w) = View(ix)
  BY <1>5 DEF View, Stored, StoresOn
<1>7. CachedKeys(w) = CachedKeys(ix) \cup {key}
  BY <1>1, <1>5 DEF CachedKeys
<1>8. /\ DOMAIN Written(w) = DOMAIN View(w) \cup CachedKeys(w)
      /\ \A x \in DOMAIN w.cache : Written(w)[<<w.clist, x>>] = w.cache[x]
      /\ \A k \in DOMAIN View(w) : k \notin CachedKeys(w) => Written(w)[k] = View(w)[k]
  BY <1>4, WrittenAt
<1>9. /\ DOMAIN Written(ix) = DOMAIN View(ix) \cup CachedKeys(ix)
      /\ \A x \in DOMAIN ix.cache : Written(ix)[<<ix.clist, x>>] = ix.cache[x]
      /\ \A k \in DOMAIN View(ix) : k \notin CachedKeys(ix) => Written(ix)[k] = View(ix)[k]
  BY WrittenAt
<1>10. DOMAIN Written(w) = DOMAIN Written(ix) \cup {key}
  BY <1>6, <1>7, <1>8, <1>9
<1>11. Written(w)[key] = b
  BY <1>1, <1>5, <1>8
<1>12. ASSUME NEW k \in DOMAIN Written(ix), k # key PROVE Written(w)[k] = Written(ix)[k]
  <2>1. CASE k \in CachedKeys(ix)
    <3>1. PICK x \in DOMAIN ix.cache : k = <<ix.clist, x>>
      BY <2>1 DEF CachedKeys
    <3>2. x # id /\ x \in DOMAIN w.cache /\ w.cache[x] = ix.cache[x]
      BY <1>1, <1>5, <1>12, <3>1
    <3>3. QED
      BY <1>5, <1>8, <1>9, <3>1, <3>2
  <2>2. CASE k \notin CachedKeys(ix)
    <3>1. k \in DOMAIN View(ix) /\ k \notin CachedKeys(w)
      BY <1>7, <1>9, <1>12, <2>2
    <3>2. QED
      BY <1>6, <1>8, <1>9, <2>2, <3>1
  <2>3. QED
    BY <2>1, <2>2
<1>13. ASSUME KeysOf(ix.keys, DOMAIN Written(ix)) PROVE KeysOf(w.keys, DOMAIN Written(w))
  <2>1. CASE old = NoBlock
    <3>1. ix.keys \in Seq(BlockKeys) /\ key \in BlockKeys /\ key \notin DOMAIN Written(ix)
      BY <2>1 DEF IsIndex, BlockKeys
    <3> HIDE DEF key
    <3>2. KeysOf(Append(ix.keys, key), DOMAIN Written(ix) \cup {key})
      BY <1>13, <3>1, KeyAppended
    <3>3. QED
      BY <1>3, <1>5, <1>10, <2>1, <3>2
  <2>2. CASE old # NoBlock
    <3>1. DOMAIN Written(w) = DOMAIN Written(ix)
      BY <1>10, <2>2
    <3>2. QED
      BY <1>3, <1>5, <1>13, <2>2, <3>1
  <2>3. QED
    BY <2>1, <2>2
<1>14. Caches(w, ix, id, b)
  BY <1>4, <1>5, <1>10, <1>11, <1>12, <1>13 DEF Caches
<1>15. QED
  BY <1>14 DEF w, c, keys

\* No record is taken for a missing one.
NoneEmpty(ix) == \A k \in DOMAIN Written(ix) : Written(ix)[k] # NoBlock

\* The record there is, or the empty one.
At(r, k) == IF k \in DOMAIN r THEN r[k] ELSE NoBlock

\* An absent record counts as an empty one.
LEMMA AtType ==
  ASSUME NEW r, AreRecords(r, BlockKeys), NEW k
  PROVE  At(r, k) \in BlockRecords /\ At(r, k).body \in Seq(Nat)
<1>1. NoBlock \in BlockRecords
  BY DEF NoBlock, NullHdr, BlockRecords
<1>2. At(r, k) \in BlockRecords
  BY <1>1 DEF At, AreRecords
<1>3. QED
  BY <1>2 DEF BlockRecords

\* The index n is ix with a chunk appended: the record of its block is
\* written and, for a new block, that of the first one, which has the count
\* of the list.
Appended(n, ix, t, lh, hdr, chunk, new) ==
  \E w :
    /\ Caches(w, ix, hdr.ID, [lh |-> IF hdr.ID = 1 THEN lh ELSE 0, hdr |-> hdr,
                              body |-> At(Written(ix), <<t, hdr.ID>>).body \o chunk])
    /\ IF new /\ hdr.ID # 1
       THEN Caches(n, w, 1, [At(Written(w), <<t, 1>>) EXCEPT !.lh = lh])
       ELSE n = w

\* AppendChunk appends a chunk to the block of a header.
LEMMA AppendCaches ==
  ASSUME NEW ix, IsIndex(ix), NoneEmpty(ix), NEW t \in Terms, ix.clist = t, NEW lh \in Nat \ {0},
         NEW hdr \in Headers, hdr # NullHdr, NEW chunk \in Seq(Nat), NEW new \in BOOLEAN,
         new => <<t, hdr.ID>> \notin DOMAIN Written(ix)
  PROVE  Appended(AppendChunk(ix, t, lh, hdr, chunk, new), ix, t, lh, hdr, chunk, new)
<1> DEFINE old   == Fetch(ix, t, hdr.ID, new)
           block == [lh |-> IF hdr.ID = 1 THEN lh ELSE 0, hdr |-> hdr, body |-> old.body \o chunk]
           c1    == Put(ix.cache, hdr.ID, block)
           k1    == Keys(ix, t, hdr.ID, old)
           n     == ix.accum + Len(chunk)
           i1    == [ix EXCEPT !.accum = n, !.cache = c1, !.keys = k1]
           first == Fetch(i1, t, 1, FALSE)
           one   == [first EXCEPT !.lh = lh]
           c2    == Put(i1.cache, 1, one)
           k2    == Keys(i1, t, 1, first)
<1>1. /\ old \in BlockRecords
      /\ old = NoBlock <=> <<ix.clist, hdr.ID>> \notin DOMAIN Written(ix)
      /\ <<ix.clist, hdr.ID>> \in DOMAIN Written(ix) => old = Written(ix)[<<ix.clist, hdr.ID>>]
  BY FetchType, FetchFinds DEF NoneEmpty
<1>a. old = At(Written(ix), <<t, hdr.ID>>)
  <2> HIDE DEF old
  <2>1. QED
    BY <1>1 DEF At
<1>2. hdr.ID \in Nat /\ n \in Nat /\ 1 \in Nat
  BY DEF IsIndex, Headers
<1>3. AppendChunk(ix, t, lh, hdr, chunk, new)
        = IF new /\ hdr.ID # 1 THEN UpdateListHeader(i1, t, lh) ELSE i1
  BY DEF AppendChunk
<1> HIDE DEF n
<1>4. block \in BlockRecords /\ block.hdr = hdr
  <2> HIDE DEF old
  <2>1. old.body \o chunk \in Seq(Nat)
    BY <1>1, ConcatProperties DEF BlockRecords
  <2>2. QED
    BY <2>1 DEF BlockRecords, Headers
<1>5. Caches(i1, ix, hdr.ID, block)
  <2> HIDE DEF old, block
  <2>1. QED
    BY <1>1, <1>2, <1>4, GrownCaches
<1>6. IsIndex(i1) /\ i1.clist = t
  BY <1>5 DEF Caches
<1>7. UpdateListHeader(i1, t, lh) = [i1 EXCEPT !.accum = i1.accum, !.cache = c2, !.keys = k2]
  <2> HIDE DEF i1
  <2>1. QED
    BY <1>6 DEF UpdateListHeader, IsIndex
<1>8. NoneEmpty(i1)
  <2>1. block # NoBlock
    BY <1>4 DEF NoBlock
  <2> HIDE DEF block, i1
  <2>2. QED
    BY <1>5, <2>1 DEF NoneEmpty, Caches
<1> HIDE DEF i1, block, old
<1>9. /\ first \in BlockRecords
      /\ first = NoBlock <=> <<i1.clist, 1>> \notin DOMAIN Written(i1)
      /\ <<i1.clist, 1>> \in DOMAIN Written(i1) => first = Written(i1)[<<i1.clist, 1>>]
  BY <1>6, <1>8, FetchType, FetchFinds DEF NoneEmpty
<1>10. one \in BlockRecords
  <2> HIDE DEF first
  <2>1. QED
    BY <1>9 DEF BlockRecords
<1>11. Caches([i1 EXCEPT !.accum = i1.accum, !.cache = c2, !.keys = k2], i1, 1, one)
  <2>1. i1.accum \in Nat
    BY <1>6 DEF IsIndex
  <2> HIDE DEF first, one
  <2>2. QED
    BY <1>2, <1>6, <1>9, <1>10, <2>1, GrownCaches
<1>12. first = At(Written(i1), <<t, 1>>)
  <2> HIDE DEF first
  <2>1. QED
    BY <1>6, <1>9 DEF At
<1> HIDE DEF c2, k2, first
<1>13. CASE new /\ hdr.ID # 1
  <2>1. Caches(AppendChunk(ix, t, lh, hdr, chunk, new), i1, 1, one)
    BY <1>3, <1>7, <1>11, <1>13
  <2>2. QED
    BY <1>5, <1>a, <1>12, <1>13, <2>1 DEF block, Appended
<1>14. CASE ~(new /\ hdr.ID # 1)
  BY <1>3, <1>5, <1>a, <1>14 DEF block, Appended
<1>15. QED
  BY <1>13, <1>14

-----------------------------------------------------------------------------
(* The keys of the delta are those of its records.  A key is remembered    *)
(* when a block is taken for a new one, so the invariant says when a block *)
(* that is there is: the headers a flush starts from are true, and the     *)
(* count it starts from is not below any block of the list.                *)

\* A header that is there is that of its block.
TrueHeader(k, r) == r.hdr # NullHdr => r.hdr.ID = k[2]

TrueRecords(records) == \A k \in DOMAIN records : TrueHeader(k, records[k])

\* What a bucket has and what is on its way there.
TrueIndex(ix) ==
  TrueRecords(ix.server) /\ \A i \in DOMAIN ix.sched : TrueHeader(ix.sched[i][1], ix.sched[i][2])

\* The count a flush starts from, had the cached blocks been written.
DeltaCount(t) ==
  IF CountIn(Written(delta), t) # 0 THEN CountIn(Written(delta), t) ELSE GetPListHeader(main, t)

DeltaRecords == TrueRecords(Written(delta)) /\ NoneEmpty(delta)

KeysRight == open \/ pc = "merge" => KeysOf(delta.keys, DOMAIN Written(delta))

\* A session begins with an empty delta and fills it from its first flush on,
\* list by list: the delta is not asked in the first run.
DeltaStarts ==
  /\ pc \in {"flush", "batch", "end"} => open
  /\ ~open /\ pc # "merge" => DOMAIN Written(delta) = {}
  /\ pc = "merge" => ~open
  /\ open /\ run = 0 => DOMAIN Written(delta) = {} /\ pc \in {"idle", "end"}
  /\ pc \in {"flush", "batch"} /\ run = 1 => \A k \in DOMAIN Written(delta) : k[1] \notin todo

\* The block cache has nothing of the lists that are still to be flushed.
CacheClean ==
  /\ pc \in {"idle", "end", "merge"} => DOMAIN delta.cache = {}
  /\ pc = "flush" /\ delta.clist \in todo => DOMAIN delta.cache = {}
  /\ pc = "batch" => View(delta) = Written(delta)
  /\ job # NoJob => job.term \notin todo

\* A new block is above all blocks of its list.
CountsBound == open => \A k \in DOMAIN Written(delta) : k[2] <= DeltaCount(k[1])

JobCounts ==
  job # NoJob =>
    job.lh = DeltaCount(job.term) /\ job.hdr.ID = job.lh /\ (job.lh = 0 => job.hdr = NullHdr)

MergeInv ==
  /\ TrueIndex(main) /\ DeltaRecords /\ KeysRight /\ DeltaStarts
  /\ CacheClean /\ CountsBound /\ JobCounts

DeltaInv == Untroubled /\ op = "BUILD_MERGE" => MergeInv

\* The headers a reader of such an index is given are true.
LEMMA TrueView ==
  ASSUME NEW ix, IsIndex(ix), TrueIndex(ix)
  PROVE  /\ TrueRecords(View(ix))
         /\ \A t, b : TrueHeader(<<t, b>>, ReadBlock(ix, t, b))
         /\ \A t, b : GetPListBlockHeader(ix, t, b) # NullHdr => GetPListBlockHeader(ix, t, b).ID = b
<1>1. ASSUME NEW k \in DOMAIN View(ix) PROVE TrueHeader(k, View(ix)[k])
  <2>1. DOMAIN View(ix) = DOMAIN ix.server \cup {ix.sched[i][1] : i \in DOMAIN ix.sched \ {}}
    BY Zenon DEF View, Stored
  <2>2. View(ix)[k] = IF StoresOn(ix, k, {}) = {} THEN ix.server[k]
                      ELSE ix.sched[Max(StoresOn(ix, k, {}))][2]
    BY Zenon DEF View, Stored
  <2>3. CASE StoresOn(ix, k, {}) = {}
    <3>1. k \in DOMAIN ix.server
      BY <2>1, <2>3 DEF StoresOn
    <3>2. TrueHeader(k, ix.server[k])
      BY <3>1 DEF TrueIndex, TrueRecords
    <3>3. QED
      BY <2>2, <2>3, <3>2
  <2>4. CASE StoresOn(ix, k, {}) # {}
    <3>1. Max(StoresOn(ix, k, {})) \in StoresOn(ix, k, {})
      BY <2>4, StoredType
    <3> DEFINE m == Max(StoresOn(ix, k, {}))
    <3>2. m \in DOMAIN ix.sched /\ ix.sched[m][1] = k
      BY <3>1 DEF StoresOn
    <3> HIDE DEF m
    <3>3. TrueHeader(k, ix.sched[m][2])
      BY <3>2 DEF TrueIndex
    <3>4. QED
      BY <2>2, <2>4, <3>3 DEF m
  <2>5. QED
    BY <2>3, <2>4
<1>2. ASSUME NEW t, NEW b PROVE TrueHeader(<<t, b>>, ReadBlock(ix, t, b))
  <2>1. TrueHeader(<<t, b>>, NoBlock)
    BY DEF TrueHeader, NoBlock
  <2>2. QED
    BY <1>1, <2>1 DEF ReadBlock
<1>3. \A t, b : GetPListBlockHeader(ix, t, b) # NullHdr => GetPListBlockHeader(ix, t, b).ID = b
  BY <1>2 DEF GetPListBlockHeader, TrueHeader
<1>4. QED
  BY <1>1, <1>2, <1>3 DEF TrueRecords

\* Waits, closing, emptying and true stores leave an index with true headers.
LEMMA TrueKept ==
  ASSUME NEW ix, IsIndex(ix), TrueIndex(ix)
  PROVE  /\ \A w \in Waits(ix, "none") : TrueIndex(w)
         /\ TrueIndex(Close(ix)) /\ TrueIndex(Drop(ix)) /\ TrueIndex(ResetCaches(ix))
         /\ \A t, b, r : TrueHeader(<<t, b>>, r) => TrueIndex(WriteBlock(ix, t, b, r))
<1>1. DOMAIN <<>> = {}
  OBVIOUS
<1>2. ASSUME NEW w \in Waits(ix, "none") PROVE TrueIndex(w)
  <2>1. w.sched = <<>> /\ w.server = View(ix)
    BY WaitType
  <2>2. QED
    BY <1>1, <2>1, TrueView DEF TrueIndex
<1>3. TrueIndex(Close(ix))
  <2>1. Close(ix).sched = <<>> /\ Close(ix).server = ix.server
    BY DEF Close, IsIndex
  <2>2. QED
    BY <1>1, <2>1 DEF TrueIndex
<1>4. TrueIndex(Drop(ix))
  <2>1. Drop(ix).sched = <<>> /\ Drop(ix).server = NoRecords
    BY DEF Drop, IsIndex
  <2>2. DOMAIN NoRecords = {}
    BY DEF NoRecords
  <2>3. QED
    BY <1>1, <2>1, <2>2 DEF TrueIndex, TrueRecords
<1>5. TrueIndex(ResetCaches(ix))
  <2>1. ResetCaches(ix).sched = ix.sched /\ ResetCaches(ix).server = ix.server
    BY DEF ResetCaches, IsIndex
  <2>2. QED
    BY <2>1 DEF TrueIndex
<1>6. ASSUME NEW t, NEW b, NEW r, TrueHeader(<<t, b>>, r) PROVE TrueIndex(WriteBlock(ix, t, b, r))
  <2> DEFINE e == <<<<t, b>>, r>>
             s == ix.sched
             w == WriteBlock(ix, t, b, r)
  <2>1. w.sched = Append(s, e) /\ w.server = ix.server
    BY DEF WriteBlock, IsIndex
  <2>2. Len(s) \in Nat /\ DOMAIN s = 1..Len(s) /\ s \in Seq(BlockKeys \X BlockRecords)
    BY SchedElements DEF IsIndex
  <2> HIDE DEF w
  <2>3. e[1] = <<t, b>> /\ e[2] = r
    OBVIOUS
  <2> HIDE DEF e, s
  <2>4. /\ DOMAIN Append(s, e) = 1..(Len(s) + 1)
        /\ \A i \in 1..Len(s) : Append(s, e)[i] = s[i]
        /\ Append(s, e)[Len(s) + 1] = e
    BY <2>2
  <2>5. \A i \in 1..(Len(s) + 1) : i \in 1..Len(s) \/ i = Len(s) + 1
    BY <2>2
  <2>6. \A i \in 1..Len(s) : TrueHeader(s[i][1], s[i][2])
    BY <2>2 DEF TrueIndex, s
  <2>7. ASSUME NEW i \in DOMAIN w.sched PROVE TrueHeader(w.sched[i][1], w.sched[i][2])
    <3>1. CASE i \in 1..Len(s)
      BY <2>1, <2>4, <2>6, <3>1
    <3>2. CASE i = Len(s) + 1
      BY <1>6, <2>1, <2>3, <2>4, <3>2
    <3>3. QED
      BY <2>1, <2>4, <2>5, <3>1, <3>2
  <2>8. QED
    BY <2>1, <2>7 DEF TrueIndex, w
<1>7. QED
  BY <1>2, <1>3, <1>4, <1>5, <1>6

\* The count a reader of an index is given is that of the records it reads.
LEMMA CountRead ==
  ASSUME NEW ix, NEW t
  PROVE  GetPListHeader(ix, t) = CountIn(View(ix), t)
BY DEF GetPListHeader, ReadBlock, CountIn, Has, NoBlock

\* The counts of the lists depend on what is read of both indexes.
LEMMA CountsType ==
  ASSUME TypeInv
  PROVE  \A t : DeltaCount(t) \in Nat /\ CountIn(Written(delta), t) \in Nat
<1>1. AreRecords(Written(delta), BlockKeys)
  BY WrittenAt DEF TypeInv
<1>2. \A t : GetPListHeader(main, t) \in Nat
  BY ReadType DEF TypeInv
<1>3. \A k \in DOMAIN Written(delta) : Written(delta)[k].lh \in Nat
  BY <1>1 DEF AreRecords, BlockRecords
<1>4. QED
  BY <1>2, <1>3 DEF DeltaCount, CountIn, Has

\* A step without a trouble of its own comes after none.
LEMMA NoFault ==
  ASSUME TypeInv, NEW fault, Count(fault), troubles' = 0
  PROVE  fault = "none" /\ troubles = 0
BY DEF Count, TypeInv, CallTypes

\* The first trouble, and the first failed call, are never undone but by the
\* client that gives the session up.
LEMMA Earlier ==
  ASSUME TypeInv, [Next]_vars, Abandon => troubles # 0, Untroubled'
  PROVE  Untroubled /\ op' = op /\ ~Crash /\ ~Abandon /\ ~Fail
<1>1. troubles' = 0 /\ failed' = FALSE /\ troubles \in Nat /\ failed \in BOOLEAN
  BY DEF Untroubled, TypeInv, ScalarTypes, CallTypes
<1>2. ~Fail
  BY <1>1 DEF Fail
<1>3. ~Crash
  BY <1>1 DEF Crash
<1>4. ~Abandon
  BY <1>1 DEF Abandon
<1>5. \A fault : Count(fault) => troubles = 0
  BY <1>1, NoFault
<1>6. op' = op /\ troubles = 0 /\ failed = FALSE
  <2>1. CASE OpenStore \/ CloseStore \/ ClearStore \/ Start \/ Flush
    BY <1>1, <2>1 DEF OpenStore, CloseStore, ClearStore, Start, Flush, BeginFlush, store, call
  <2>2. CASE ReadList
    BY <1>1, <1>5, <2>2 DEF ReadList, call
  <2>3. ASSUME NEW f \in 1..MaxFID, NEW ts \in Recordings, Index(f, ts)
        PROVE  op' = op /\ troubles = 0 /\ failed = FALSE
    <3>1. PICK fault \in Faults \ {"get"} :
       /\ Count(fault)
       /\ IF fault = "store" THEN Fail /\ UNCHANGED run
          ELSE IF CacheSize(cache') >= CacheLimit THEN BeginFlush(cache', "idle")
          ELSE UNCHANGED <<run, call>>
      BY <2>3, Zenon DEF Index
    <3>2. failed' = failed
      BY <1>2, <3>1 DEF BeginFlush, call
    <3>3. QED
      BY <1>1, <1>5, <2>3, <3>1, <3>2 DEF Index
  <2>4. ASSUME NEW flush \in BOOLEAN, End(flush) PROVE op' = op /\ troubles = 0 /\ failed = FALSE
    BY <1>1, <2>4 DEF End, BeginFlush
  <2>5. ASSUME NEW t \in Terms, BeginList(t) PROVE op' = op /\ troubles = 0 /\ failed = FALSE
    <3>1. \E fault : Count(fault)
      BY <2>5, Zenon DEF BeginList
    <3>2. failed' = failed
      BY <1>2, <2>5 DEF BeginList
    <3>3. QED
      BY <1>1, <1>5, <2>5, <3>1, <3>2 DEF BeginList
  <2>6. CASE RejectChunk
    BY <1>2, <2>6 DEF RejectChunk
  <2>7. CASE MoveCache
    BY <1>1, <2>7 DEF MoveCache
  <2>8. CASE ExecuteBatch
    <3>1. \E fault : Count(fault)
      BY <2>8, Zenon DEF ExecuteBatch
    <3>2. failed' = failed /\ op' = op
      BY <1>2, <2>8 DEF ExecuteBatch
    <3>3. QED
      BY <1>1, <1>5, <3>1, <3>2
  <2>9. CASE EmitChunk
    <3>1. \E fault : Count(fault)
      BY <2>9, Zenon DEF EmitChunk
    <3>2. failed' = failed /\ op' = op
      BY <1>2, <2>9 DEF EmitChunk
    <3>3. QED
      BY <1>1, <1>5, <3>1, <3>2
  <2>10. CASE EndFlush
    <3>1. troubles = 0
      BY <1>1, <1>5, <2>10 DEF EndFlush
    <3>2. failed' = failed /\ op' = op
      BY <1>1, <2>10 DEF EndFlush
    <3>3. QED
      BY <1>1, <3>1, <3>2
  <2>11. CASE EndSession
    <3>1. troubles = 0
      BY <1>1, <1>5, <2>11 DEF EndSession
    <3>2. failed' = failed /\ op' = op
      BY <1>1, <2>11 DEF EndSession
    <3>3. QED
      BY <1>1, <3>1, <3>2
  <2>12. CASE MergeRecord
    <3>1. \E fault : Count(fault)
      BY <2>12, Zenon DEF MergeRecord
    <3>2. failed' = failed /\ op' = op
      BY <1>2, <2>12 DEF MergeRecord
    <3>3. QED
      BY <1>1, <1>5, <3>1, <3>2
  <2>13. CASE EndMerge
    <3>1. \E fault : Count(fault)
      BY <2>13, Zenon DEF EndMerge
    <3>2. failed' = failed /\ op' = op
      BY <1>2, <2>13 DEF EndMerge
    <3>3. QED
      BY <1>1, <1>5, <3>1, <3>2
  <2>14. CASE UNCHANGED vars
    BY <1>1, <2>14 DEF vars, store, call
  <2>15. QED
    BY <1>3, <1>4, <2>1, <2>2, <2>3, <2>4, <2>5, <2>6, <2>7, <2>8, <2>9, <2>10, <2>11, <2>12,
       <2>13, <2>14, Zenon DEF Next
<1>7. QED
  BY <1>2, <1>3, <1>4, <1>6 DEF Untroubled

\* A step that changes no record, no key and nothing a reader sees.
LEMMA DeltaKept ==
  ASSUME MergeInv, Written(delta') = Written(delta), delta'.keys = delta.keys,
         View(main') = View(main), TrueIndex(main'), open' => open,
         pc' = "merge" => open \/ pc = "merge"
  PROVE  /\ TrueIndex(main)' /\ DeltaRecords' /\ KeysRight' /\ CountsBound'
         /\ \A t : DeltaCount(t)' = DeltaCount(t)
<1>1. \A t : GetPListHeader(main', t) = GetPListHeader(main, t)
  BY DEF GetPListHeader, ReadBlock
<1>2. \A t : DeltaCount(t)' = DeltaCount(t)
  BY <1>1 DEF DeltaCount
<1>3. CountsBound'
  BY <1>2 DEF CountsBound, MergeInv
<1>4. DeltaRecords'
  BY DEF DeltaRecords, NoneEmpty, MergeInv
<1>5. KeysRight'
  BY DEF KeysRight, MergeInv
<1>6. QED
  BY <1>2, <1>3, <1>4, <1>5

\* An empty delta.
LEMMA EmptyDelta ==
  ASSUME DOMAIN Written(delta') = {}
  PROVE  DeltaRecords' /\ CountsBound' /\ (delta'.keys = <<>> => KeysRight')
<1>1. KeysOf(<<>>, {})
  BY DEF KeysOf, ToSet, IsInjective
<1>2. QED
  BY <1>1 DEF DeltaRecords, NoneEmpty, TrueRecords, CountsBound, KeysRight

\* An index without records stays so when it is closed and its caches are
\* reset; one that is emptied has none if it has no cached blocks.
LEMMA EmptyWritten ==
  ASSUME NEW ix, IsIndex(ix)
  PROVE  /\ DOMAIN Written(ix) = {} =>
              /\ DOMAIN Written(Close(ix)) = {} /\ DOMAIN Close(ix).cache = {}
              /\ DOMAIN Written(ResetCaches(Close(ix))) = {}
              /\ DOMAIN ResetCaches(Close(ix)).cache = {} /\ ResetCaches(Close(ix)).keys = <<>>
         /\ DOMAIN ix.cache = {} => DOMAIN Written(Drop(ix)) = {} /\ DOMAIN Drop(ix).cache = {}
<1>1. ASSUME NEW w, w.sched = <<>>, DOMAIN w.server = {}, DOMAIN w.cache = {}
      PROVE  DOMAIN Written(w) = {}
  <2>1. DOMAIN w.sched = {}
    BY <1>1
  <2>2. DOMAIN View(w) = DOMAIN w.server \cup {w.sched[i][1] : i \in DOMAIN w.sched \ {}}
    BY Zenon DEF View, Stored
  <2>3. DOMAIN View(w) = {}
    BY <1>1, <2>1, <2>2
  <2>4. QED
    BY <1>1, <2>3, WrittenViews
<1>2. DOMAIN NoRecords = {}
  BY DEF NoRecords
<1>3. ASSUME DOMAIN Written(ix) = {}
      PROVE  DOMAIN ix.server = {} /\ DOMAIN ix.cache = {}
  <2>1. DOMAIN View(ix) = {} /\ CachedKeys(ix) = {}
    BY <1>3, WrittenAt
  <2>2. DOMAIN View(ix) = DOMAIN ix.server \cup {ix.sched[i][1] : i \in DOMAIN ix.sched \ {}}
    BY Zenon DEF View, Stored
  <2>3. DOMAIN ix.server = {}
    BY <2>1, <2>2
  <2>4. QED
    BY <2>1, <2>3 DEF CachedKeys
<1>4. Close(ix).sched = <<>> /\ Close(ix).server = ix.server /\ Close(ix).cache = ix.cache
  BY DEF Close, IsIndex
<1>5. /\ ResetCaches(Close(ix)).sched = <<>> /\ ResetCaches(Close(ix)).server = ix.server
      /\ ResetCaches(Close(ix)).cache = NoRecords /\ ResetCaches(Close(ix)).keys = <<>>
  <2> DEFINE c == Close(ix)
  <2>1. IsIndex(c) /\ c.sched = <<>> /\ c.server = ix.server
    BY <1>4, CloseType
  <2> HIDE DEF c
  <2>2. /\ ResetCaches(c).sched = c.sched /\ ResetCaches(c).server = c.server
        /\ ResetCaches(c).cache = NoRecords /\ ResetCaches(c).keys = <<>>
    BY <2>1 DEF ResetCaches, IsIndex
  <2>3. QED
    BY <2>1, <2>2 DEF c
<1>6. Drop(ix).sched = <<>> /\ Drop(ix).server = NoRecords /\ Drop(ix).cache = ix.cache
  BY DEF Drop, IsIndex
<1>7. ASSUME DOMAIN Written(ix) = {}
      PROVE  /\ DOMAIN Written(Close(ix)) = {} /\ DOMAIN Close(ix).cache = {}
             /\ DOMAIN Written(ResetCaches(Close(ix))) = {}
             /\ DOMAIN ResetCaches(Close(ix)).cache = {} /\ ResetCaches(Close(ix)).keys = <<>>
  BY <1>1, <1>2, <1>3, <1>4, <1>5, <1>7
<1>8. ASSUME DOMAIN ix.cache = {}
      PROVE  DOMAIN Written(Drop(ix)) = {} /\ DOMAIN Drop(ix).cache = {}
  BY <1>1, <1>2, <1>6, <1>8
<1>9. QED
  BY <1>7, <1>8

\* A flush begins.
LEMMA FlushBegins ==
  ASSUME TypeInv, MergeInv, pc = "idle", open, UNCHANGED <<open, main, delta>>,
         NEW c, NEW after, BeginFlush(c, after)
  PROVE  MergeInv'
<1>1. job = NoJob /\ job' = NoJob /\ pc' = "flush" /\ run' = IF run = 0 THEN 1 ELSE 2
  BY DEF BeginFlush, TypeInv, JobInFlush
<1>2. TrueIndex(main)' /\ DeltaRecords' /\ KeysRight' /\ CountsBound'
  BY <1>1, DeltaKept DEF MergeInv
<1>3. DeltaStarts'
  BY <1>1 DEF DeltaStarts, MergeInv
<1>4. CacheClean'
  BY <1>1 DEF CacheClean, MergeInv
<1>5. JobCounts'
  BY <1>1 DEF JobCounts
<1>6. QED
  BY <1>2, <1>3, <1>4, <1>5 DEF MergeInv

\* The steps of the store and of the session outside a flush keep the keys
\* right.
LEMMA OuterKeys ==
  ASSUME TypeInv, MergeInv, op = "BUILD_MERGE", Untroubled',
         \/ OpenStore \/ ReadList \/ CloseStore \/ ClearStore \/ Start \/ Flush
         \/ \E f \in 1..MaxFID, ts \in Recordings : Index(f, ts)
         \/ \E flush \in BOOLEAN : End(flush)
         \/ UNCHANGED vars
  PROVE  MergeInv'
<1>0. IsIndex(main) /\ IsIndex(delta) /\ TrueIndex(main)
  BY DEF TypeInv, MergeInv
<1>a. troubles' = 0 /\ failed' = FALSE
  BY DEF Untroubled
<1>b. ASSUME UNCHANGED <<open, run, main, delta, pc, todo, job>> PROVE MergeInv'
  <2>1. TrueIndex(main)' /\ DeltaRecords' /\ KeysRight' /\ CountsBound' /\ \A t : DeltaCount(t)' = DeltaCount(t)
    BY <1>b, DeltaKept DEF MergeInv
  <2>2. DeltaStarts' /\ CacheClean'
    BY <1>b DEF DeltaStarts, CacheClean, MergeInv
  <2>3. JobCounts'
    BY <1>b, <2>1 DEF JobCounts, MergeInv
  <2>4. QED
    BY <2>1, <2>2, <2>3 DEF MergeInv
<1>c. ASSUME pc = "idle", ~open, UNCHANGED <<open, run, pc, todo, job>>, TrueIndex(main'),
             DOMAIN Written(delta') = {}, DOMAIN delta'.cache = {}
      PROVE  MergeInv'
  <2>1. DeltaRecords' /\ CountsBound'
    BY <1>c, EmptyDelta
  <2>2. job' = NoJob
    BY <1>c DEF TypeInv, JobInFlush
  <2>3. KeysRight' /\ DeltaStarts' /\ CacheClean' /\ JobCounts'
    BY <1>c, <2>2 DEF KeysRight, DeltaStarts, CacheClean, JobCounts
  <2>4. QED
    BY <1>c, <2>1, <2>3 DEF MergeInv
<1>d. ~open /\ pc = "idle" => DOMAIN Written(delta) = {} /\ DOMAIN delta.cache = {}
  BY DEF MergeInv, DeltaStarts, CacheClean
<1>1. CASE OpenStore
  BY <1>1, <1>b DEF OpenStore, indexer, call
<1>2. CASE UNCHANGED vars
  BY <1>2, <1>b DEF vars, indexer, store, call
<1>3. CASE ReadList
  <2>1. PICK fault \in Faults : Count(fault) /\ main' \in Waits(main, fault)
    BY <1>3 DEF ReadList
  <2>2. fault = "none"
    BY <1>a, <2>1, NoFault
  <2>3. TrueIndex(main')
    BY <1>0, <2>1, <2>2, TrueKept
  <2>4. QED
    BY <1>3, <1>c, <1>d, <2>3 DEF ReadList, indexer, call
<1>4. CASE CloseStore
  <2>1. TrueIndex(main')
    BY <1>0, <1>4, TrueKept DEF CloseStore
  <2>2. DOMAIN Written(delta') = {} /\ DOMAIN delta'.cache = {}
    BY <1>0, <1>4, <1>d, EmptyWritten DEF CloseStore
  <2>3. QED
    BY <1>4, <1>c, <2>1, <2>2 DEF CloseStore, indexer, call
<1>5. CASE ClearStore
  <2>1. TrueIndex(main')
    BY <1>0, <1>5, TrueKept DEF ClearStore
  <2>2. QED
    BY <1>5, <1>c, <1>d, <2>1 DEF ClearStore, indexer, call
<1>6. CASE Start
  <2>1. /\ pc = "idle" /\ ~open /\ open' = TRUE /\ run' = 0 /\ pc' = pc /\ todo' = todo /\ job' = job
        /\ main' = ResetCaches(main) /\ delta' = ResetCaches(Close(delta))
    BY <1>6 DEF Start, Idle, call
  <2>2. TrueIndex(main')
    BY <1>0, <2>1, TrueKept
  <2>3. DOMAIN Written(delta') = {} /\ DOMAIN delta'.cache = {} /\ delta'.keys = <<>>
    BY <1>0, <1>d, <2>1, EmptyWritten
  <2>4. DeltaRecords' /\ CountsBound' /\ KeysRight'
    BY <2>3, EmptyDelta
  <2>5. job' = NoJob
    BY <2>1 DEF TypeInv, JobInFlush
  <2>6. DeltaStarts' /\ CacheClean' /\ JobCounts'
    BY <2>1, <2>3, <2>5 DEF DeltaStarts, CacheClean, JobCounts
  <2>7. QED
    BY <2>2, <2>4, <2>6 DEF MergeInv
<1>7. CASE Flush
  <2>1. pc = "idle" /\ open /\ UNCHANGED <<open, main, delta>> /\ BeginFlush(cache, "idle")
    BY <1>7 DEF Flush, Idle, indexer
  <2>2. QED
    BY <2>1, FlushBegins
<1>8. ASSUME NEW f \in 1..MaxFID, NEW ts \in Recordings, Index(f, ts) PROVE MergeInv'
  <2>1. pc = "idle" /\ open /\ UNCHANGED <<open, main, delta>>
    BY <1>8 DEF Index, Idle
  <2>2. PICK fault \in Faults \ {"get"} :
       /\ Count(fault)
       /\ IF fault = "store" THEN Fail /\ UNCHANGED run
          ELSE IF CacheSize(cache') >= CacheLimit THEN BeginFlush(cache', "idle")
          ELSE UNCHANGED <<run, call>>
    BY <1>8, Zenon DEF Index
  <2>3. fault = "none"
    BY <1>a, <2>2, NoFault
  <2>4. BeginFlush(cache', "idle") \/ UNCHANGED <<run, call>>
    BY <2>2, <2>3
  <2>5. CASE BeginFlush(cache', "idle")
    BY <2>1, <2>5, FlushBegins
  <2>6. CASE UNCHANGED <<run, call>>
    BY <1>b, <2>1, <2>6 DEF call
  <2>7. QED
    BY <2>4, <2>5, <2>6
<1>9. ASSUME NEW flush \in BOOLEAN, End(flush) PROVE MergeInv'
  <2>1. pc = "idle" /\ open /\ UNCHANGED <<open, main, delta>>
    BY <1>9 DEF End, Idle, indexer
  <2>2. CASE cache # EmptyCache /\ flush
    <3>1. BeginFlush(cache, "end")
      BY <1>9, <2>2 DEF End
    <3>2. QED
      BY <2>1, <3>1, FlushBegins
  <2>3. CASE ~(cache # EmptyCache /\ flush)
    <3>1. pc' = "end" /\ UNCHANGED <<run, todo, job>>
      BY <1>9, <2>3 DEF End
    <3>2. job' = NoJob
      BY <2>1, <3>1 DEF TypeInv, JobInFlush
    <3>3. TrueIndex(main)' /\ DeltaRecords' /\ KeysRight' /\ CountsBound'
      BY <2>1, <3>1, DeltaKept DEF MergeInv
    <3>4. DeltaStarts' /\ CacheClean' /\ JobCounts'
      BY <2>1, <3>1, <3>2 DEF DeltaStarts, CacheClean, JobCounts, MergeInv
    <3>5. QED
      BY <3>3, <3>4 DEF MergeInv
  <2>4. QED
    BY <2>2, <2>3
<1>10. QED
  BY <1>1, <1>2, <1>3, <1>4, <1>5, <1>6, <1>7, <1>8, <1>9

\* The steps of End keep the keys right.
LEMMA EndKeys ==
  ASSUME TypeInv, MergeInv, op = "BUILD_MERGE", Untroubled', ~Fail, EndSession \/ MergeRecord \/ EndMerge
  PROVE  MergeInv'
<1>0. IsIndex(main) /\ IsIndex(delta) /\ TrueIndex(main)
  BY DEF TypeInv, MergeInv
<1>a. troubles' = 0 /\ failed' = FALSE
  BY DEF Untroubled
<1>b. pc \in {"end", "merge"} => DOMAIN delta.cache = {} /\ job = NoJob
  BY DEF MergeInv, CacheClean, TypeInv, JobInFlush
<1>1. CASE EndSession
  <2>1. pc = "end" /\ open' = FALSE /\ UNCHANGED <<run, main, todo, job>>
    BY <1>1 DEF EndSession
  <2>2. pc' = "merge" /\ delta' = delta
    BY <1>1, <1>b, <2>1 DEF EndSession
  <2>3. open /\ job' = NoJob /\ DOMAIN delta.cache = {}
    BY <1>b, <2>1 DEF MergeInv, DeltaStarts
  <2>4. TrueIndex(main)' /\ DeltaRecords' /\ KeysRight' /\ CountsBound'
    BY <1>0, <2>1, <2>2, <2>3, DeltaKept
  <2>5. DeltaStarts' /\ CacheClean' /\ JobCounts'
    BY <2>1, <2>2, <2>3 DEF DeltaStarts, CacheClean, JobCounts
  <2>6. QED
    BY <2>4, <2>5 DEF MergeInv
<1>2. CASE MergeRecord
  <2> DEFINE k == Head(mkeys)
             live(ix) == ReadBlock(ix, k[1], k[2])
             d == ReadBlock(delta, k[1], k[2])
             read(ix) == Larger(mbuf, Len(live(ix).body))
             size(ix) == Larger(read(ix), Len(live(ix).body) + Len(d.body))
  <2>1. /\ pc = "merge" /\ ~open /\ UNCHANGED <<open, run>>
        /\ DOMAIN delta.cache = {} /\ job = NoJob
    BY <1>2, <1>b DEF MergeRecord, indexer, MergeInv, DeltaStarts
  <2>2. PICK fault \in MergeFaults :
          /\ Count(fault)
          /\ delta' \in Waits(delta, "none")
          /\ \E ix \in Waits(main, fault) :
               IF fault = "get" THEN main' = ix /\ Fail
               ELSE /\ BufferMoves(fault) => size(ix) > read(ix)
                    /\ main' = WriteBlock(ix, k[1], k[2], MergedBlock(live(ix), d, k[2], BufferMoves(fault)))
                    /\ mkeys' = Tail(mkeys) /\ mbuf' = size(ix)
                    /\ UNCHANGED <<pc, ret, todo, job, failed>>
    BY <1>2, Zenon DEF MergeRecord
  <2>3. fault = "none"
    BY <1>a, <2>2, NoFault
  <2> DEFINE stale == BufferMoves(fault)
  <2>4. PICK ix \in Waits(main, "none") :
          /\ main' = WriteBlock(ix, k[1], k[2], MergedBlock(live(ix), d, k[2], stale))
          /\ UNCHANGED <<pc, todo, job>>
    <3> HIDE DEF k, live, d, read, size
    <3>1. QED
      BY <2>2, <2>3
  <2>5. main' = WriteBlock(ix, k[1], k[2], MergedBlock(live(ix), d, k[2], stale))
    BY <2>4
  <2> HIDE DEF k
  <2>6. IsIndex(ix) /\ TrueIndex(ix)
    BY <1>0, WaitType, TrueKept
  <2>7. TrueHeader(<<k[1], k[2]>>, live(ix))
    BY <2>6, TrueView
  <2>8. Written(delta) = View(delta) /\ TrueRecords(View(delta))
    BY <2>1, WrittenViews DEF MergeInv, DeltaRecords
  <2>9. TrueHeader(<<k[1], k[2]>>, d)
    BY <2>8 DEF TrueRecords, TrueHeader, ReadBlock, NoBlock
  <2> HIDE DEF live, d, read, size
  <2>10. TrueHeader(<<k[1], k[2]>>, MergedBlock(live(ix), d, k[2], stale))
    BY <2>7, <2>9 DEF TrueHeader, MergedBlock
  <2>11. TrueIndex(main')
    BY <2>5, <2>6, <2>10, TrueKept
  <2>12. /\ Written(delta') = Written(delta) /\ delta'.keys = delta.keys /\ delta'.cache = delta.cache
    BY <1>0, <2>2, WaitType, WaitView
  <2>13. DeltaRecords' /\ KeysRight'
    BY <2>1, <2>4, <2>12 DEF MergeInv, DeltaRecords, NoneEmpty, KeysRight
  <2>14. CountsBound' /\ DeltaStarts' /\ CacheClean' /\ JobCounts'
    BY <2>1, <2>4, <2>12 DEF CountsBound, DeltaStarts, CacheClean, JobCounts
  <2>15. QED
    BY <2>11, <2>13, <2>14 DEF MergeInv
<1>3. CASE EndMerge
  <2>1. pc = "merge" /\ ~open /\ UNCHANGED <<open, run, main>>
    BY <1>3 DEF EndMerge, indexer, MergeInv, DeltaStarts
  <2>2. delta' = Drop(delta) /\ pc' = "idle" /\ UNCHANGED <<todo, job>>
    BY <1>3 DEF EndMerge
  <2>3. DOMAIN Written(delta') = {} /\ DOMAIN delta'.cache = {} /\ job' = NoJob
    BY <1>0, <1>b, <2>1, <2>2, EmptyWritten
  <2>4. DeltaRecords' /\ CountsBound'
    BY <2>3, EmptyDelta
  <2>5. TrueIndex(main)' /\ KeysRight' /\ DeltaStarts' /\ CacheClean' /\ JobCounts'
    BY <1>0, <2>1, <2>2, <2>3 DEF KeysRight, DeltaStarts, CacheClean, JobCounts
  <2>6. QED
    BY <2>4, <2>5 DEF MergeInv
<1>4. QED
  BY <1>1, <1>2, <1>3

\* Of a list still to be flushed no block is cached: what is read of it is
\* all there is.
LEMMA TodoRead ==
  ASSUME TypeInv, MergeInv, pc = "flush", NEW t \in todo, NEW b
  PROVE  /\ <<t, b>> \in DOMAIN Written(delta) <=> <<t, b>> \in DOMAIN View(delta)
         /\ <<t, b>> \in DOMAIN View(delta) => Written(delta)[<<t, b>>] = View(delta)[<<t, b>>]
<1>1. <<t, b>> \notin CachedKeys(delta)
  BY DEF CachedKeys, MergeInv, CacheClean
<1>2. QED
  BY <1>1, WrittenAt DEF TypeInv

\* The headers a flush starts a list from: its count, and the header of its
\* last block.
LEMMA ListStarts ==
  ASSUME TypeInv, MergeInv, op = "BUILD_MERGE", pc = "flush", NEW t \in todo
  PROVE  /\ ListHeader(t) = DeltaCount(t)
         /\ \A b : BlockHeader(t, b) # NullHdr => BlockHeader(t, b).ID = b
<1>1. IsIndex(main) /\ IsIndex(delta) /\ TrueIndex(main) /\ TrueRecords(Written(delta))
  BY DEF TypeInv, MergeInv, DeltaRecords
<1>2. CountIn(View(delta), t) = CountIn(Written(delta), t)
  BY TodoRead DEF CountIn, Has
<1>3. GetPListHeader(delta, t) = CountIn(Written(delta), t)
  BY <1>2, CountRead
<1>4. run \in 1..2
  BY DEF TypeInv, ScalarTypes, MergeInv, DeltaStarts
<1>5. ListHeader(t) = DeltaCount(t)
  <2>1. CASE run = 1
    <3>1. \A k \in DOMAIN Written(delta) : k[1] # t
      BY <2>1 DEF MergeInv, DeltaStarts
    <3>2. <<t, 1>> \notin DOMAIN Written(delta)
      BY <3>1
    <3>3. CountIn(Written(delta), t) = 0
      BY <3>2 DEF CountIn, Has
    <3>4. QED
      BY <2>1, <3>3 DEF ListHeader, DeltaFirst, DeltaCount
  <2>2. CASE run # 1
    BY <1>3, <2>2 DEF ListHeader, DeltaFirst, DeltaCount
  <2>3. QED
    BY <2>1, <2>2
<1>6. ASSUME NEW b, BlockHeader(t, b) # NullHdr PROVE BlockHeader(t, b).ID = b
  <2>1. GetPListBlockHeader(main, t, b) # NullHdr => GetPListBlockHeader(main, t, b).ID = b
    BY <1>1, TrueView
  <2>2. GetPListBlockHeader(delta, t, b) # NullHdr => GetPListBlockHeader(delta, t, b).ID = b
    <3> DEFINE k == <<t, b>>
    <3>1. k \in DOMAIN View(delta) => TrueHeader(k, View(delta)[k])
      <4>1. k \in DOMAIN View(delta) => k \in DOMAIN Written(delta) /\ Written(delta)[k] = View(delta)[k]
        BY TodoRead
      <4> HIDE DEF k
      <4>2. QED
        BY <1>1, <4>1 DEF TrueRecords
    <3>2. QED
      BY <3>1 DEF GetPListBlockHeader, ReadBlock, TrueHeader, NoBlock
  <2>3. QED
    BY <1>6, <2>1, <2>2 DEF BlockHeader
<1>7. QED
  BY <1>5, <1>6

\* The headers of a list are read.
LEMMA BeginKeys ==
  ASSUME TypeInv, MergeInv, op = "BUILD_MERGE", Untroubled', ~Fail, NEW t \in Terms, BeginList(t)
  PROVE  MergeInv'
<1> DEFINE lh  == ListHeader(t)
           hdr == IF lh = 0 THEN NullHdr ELSE BlockHeader(t, lh)
<1>0. IsIndex(main) /\ IsIndex(delta) /\ TrueIndex(main) /\ troubles' = 0
  BY DEF TypeInv, MergeInv, Untroubled
<1>1. PICK fault \in Faults :
       /\ Count(fault)
       /\ main' \in IF ReadsMain(t) THEN Waits(main, fault) ELSE {main}
       /\ delta' \in IF DeltaFirst THEN Waits(delta, fault) ELSE {delta}
       /\ IF fault = "get" \/ (lh # 0 /\ hdr = NullHdr)
          THEN Fail
          ELSE /\ job' = [term |-> t, lh |-> lh, hdr |-> hdr, rest |-> cache[t]]
               /\ todo' = todo \ {t}
               /\ UNCHANGED <<pc, ret, mkeys, mbuf, failed>>
  BY Zenon DEF BeginList
<1>2. pc = "flush" /\ t \in todo /\ UNCHANGED <<open, run>>
  BY DEF BeginList, indexer
<1>3. lh = DeltaCount(t) /\ \A b : BlockHeader(t, b) # NullHdr => BlockHeader(t, b).ID = b
  BY <1>2, ListStarts
<1>4. lh = 0 => hdr = NullHdr
  OBVIOUS
<1>5. ~(lh # 0 /\ hdr = NullHdr) => hdr.ID = lh
  BY <1>3, <1>4 DEF NullHdr
<1> HIDE DEF lh, hdr
<1>6. fault = "none"
  BY <1>0, <1>1, NoFault
<1>7. /\ job' = [term |-> t, lh |-> lh, hdr |-> hdr, rest |-> cache[t]]
      /\ todo' = todo \ {t} /\ pc' = pc /\ hdr.ID = lh
  BY <1>1, <1>5
<1>8. /\ TrueIndex(main') /\ View(main') = View(main)
      /\ Written(delta') = Written(delta) /\ delta'.keys = delta.keys
      /\ delta'.clist = delta.clist /\ delta'.cache = delta.cache
  BY <1>0, <1>1, <1>6, WaitType, WaitView, TrueKept
<1>9. /\ TrueIndex(main)' /\ DeltaRecords' /\ KeysRight' /\ CountsBound'
      /\ \A u : DeltaCount(u)' = DeltaCount(u)
  BY <1>2, <1>7, <1>8, DeltaKept
<1>10. DeltaStarts'
  BY <1>2, <1>7, <1>8 DEF DeltaStarts, MergeInv
<1>11. CacheClean'
  <2>1. job'.term = t
    BY <1>7
  <2>2. QED
    BY <1>2, <1>7, <1>8, <2>1 DEF CacheClean, MergeInv
<1>12. JobCounts'
  <2>1. job'.term = t /\ job'.lh = lh /\ job'.hdr = hdr
    BY <1>7
  <2>2. QED
    BY <1>3, <1>4, <1>7, <1>9, <2>1 DEF JobCounts
<1>13. QED
  BY <1>9, <1>10, <1>11, <1>12 DEF MergeInv

\* The cached blocks of another list are scheduled, and perhaps executed.
LEMMA MoveKeys ==
  ASSUME TypeInv, MergeInv, op = "BUILD_MERGE", Untroubled', ~Fail, MoveCache \/ ExecuteBatch
  PROVE  MergeInv'
<1>0. IsIndex(main) /\ IsIndex(delta) /\ TrueIndex(main) /\ troubles' = 0
  BY DEF TypeInv, MergeInv, Untroubled
<1>1. job # NoJob /\ job.term \in Terms /\ job.term \notin todo /\ Target = delta
  BY DEF MoveCache, ExecuteBatch, TypeInv, JobInFlush, JobHasPostings, MergeInv, CacheClean, Target
<1>2. pc \in {"flush", "batch"} /\ open /\ UNCHANGED <<open, run>> /\ DOMAIN NoRecords = {}
  BY DEF MoveCache, ExecuteBatch, indexer, MergeInv, DeltaStarts, NoRecords
<1>3. ASSUME UNCHANGED <<main, todo, job>>, pc' \in {"flush", "batch"},
             Written(delta') = Written(delta), delta'.keys = delta.keys,
             pc' = "flush" => DOMAIN delta'.cache = {},
             pc' = "batch" => View(delta') = Written(delta')
      PROVE  MergeInv'
  <2>1. /\ TrueIndex(main)' /\ DeltaRecords' /\ KeysRight' /\ CountsBound'
        /\ \A u : DeltaCount(u)' = DeltaCount(u)
    BY <1>0, <1>2, <1>3, DeltaKept
  <2>2. DeltaStarts'
    BY <1>2, <1>3 DEF DeltaStarts, MergeInv
  <2>3. CacheClean'
    BY <1>1, <1>3 DEF CacheClean
  <2>4. JobCounts'
    BY <1>3, <2>1 DEF JobCounts, MergeInv
  <2>5. QED
    BY <2>1, <2>2, <2>3, <2>4 DEF MergeInv
<1>4. CASE MoveCache
  <2>1. UNCHANGED <<todo, job>> /\ pc = "flush"
    BY <1>4 DEF MoveCache
  <2>2. CASE BatchDue
    <3>1. delta' = WriteCached(delta) /\ UNCHANGED main /\ pc' = "batch"
      BY <1>1, <1>4, <2>2 DEF MoveCache, SetTarget
    <3>2. /\ Written(delta') = Written(delta) /\ View(delta') = Written(delta)
          /\ delta'.keys = delta.keys
      BY <1>0, <3>1, MovedView, CachedView, WriteCachedType
    <3>3. QED
      BY <1>3, <2>1, <3>1, <3>2
  <2>3. CASE ~BatchDue
    <3>1. delta' = SwitchList(WriteCached(delta), job.term) /\ UNCHANGED main /\ pc' = "flush"
      BY <1>1, <1>4, <2>1, <2>3 DEF MoveCache, SetTarget
    <3>2. Written(delta') = Written(delta)
      BY <1>0, <1>1, <3>1, MovedView
    <3>3. delta'.keys = delta.keys /\ DOMAIN delta'.cache = {}
      <4>1. IsIndex(WriteCached(delta)) /\ WriteCached(delta).keys = delta.keys
        BY <1>0, WriteCachedType
      <4> DEFINE w == WriteCached(delta)
      <4> HIDE DEF w
      <4>2. IsIndex(w) => SwitchList(w, job.term).keys = w.keys /\ SwitchList(w, job.term).cache = NoRecords
        BY <1>1, SwitchType
      <4>3. QED
        BY <1>2, <3>1, <4>1, <4>2 DEF w
    <3>4. QED
      BY <1>3, <2>1, <3>1, <3>2, <3>3
  <2>4. QED
    BY <2>2, <2>3
<1>5. CASE ExecuteBatch
  <2>1. PICK fault \in Faults \ {"get"} : \E ix \in Waits(Target, fault) :
       /\ Count(fault)
       /\ IF ix.status = "failed" THEN SetTarget({ix}) /\ Fail
          ELSE /\ SetTarget({SwitchList([ix EXCEPT !.accum = 0], job.term)})
               /\ pc' = "flush" /\ UNCHANGED <<ret, todo, job, mkeys, mbuf, failed>>
    BY <1>5, Zenon DEF ExecuteBatch
  <2>2. PICK ix \in Waits(Target, fault) :
       /\ Count(fault)
       /\ IF ix.status = "failed" THEN SetTarget({ix}) /\ Fail
          ELSE /\ SetTarget({SwitchList([ix EXCEPT !.accum = 0], job.term)})
               /\ pc' = "flush" /\ UNCHANGED <<ret, todo, job, mkeys, mbuf, failed>>
    BY <2>1, Zenon
  <2>3. ix \in Waits(delta, "none")
    BY <1>0, <1>1, <2>2, NoFault
  <2>4. IsIndex(ix) /\ View(ix) = View(delta) /\ ix.keys = delta.keys
    BY <1>0, <2>3, WaitType, WaitView
  <2>5. View(delta) = Written(delta)
    BY <1>5 DEF ExecuteBatch, MergeInv, CacheClean
  <2> DEFINE w == [ix EXCEPT !.accum = 0]
  <2>6. delta' = SwitchList(w, job.term) /\ UNCHANGED <<main, todo, job>> /\ pc' = "flush"
    BY <1>1, <2>2 DEF SetTarget
  <2>7. w.server = ix.server /\ w.sched = ix.sched /\ w.keys = ix.keys /\ IsIndex(w)
    BY <2>4 DEF IsIndex
  <2> HIDE DEF w
  <2>8. /\ delta'.server = ix.server /\ delta'.sched = ix.sched /\ delta'.keys = ix.keys
        /\ delta'.cache = NoRecords
    BY <1>1, <2>6, <2>7, SwitchType
  <2>9. View(delta') = View(ix)
    BY <2>8 DEF View, Stored, StoresOn
  <2>10. Written(delta') = Written(delta) /\ DOMAIN delta'.cache = {}
    BY <1>2, <2>4, <2>5, <2>8, <2>9, WrittenViews
  <2>11. QED
    BY <1>3, <2>4, <2>6, <2>8, <2>10
<1>6. QED
  BY <1>4, <1>5

\* A flush ends.
LEMMA EndFlushKeys ==
  ASSUME TypeInv, MergeInv, op = "BUILD_MERGE", Untroubled', EndFlush
  PROVE  MergeInv'
<1>0. IsIndex(main) /\ IsIndex(delta) /\ TrueIndex(main) /\ troubles' = 0 /\ failed' = FALSE
  BY DEF TypeInv, MergeInv, Untroubled
<1>1. /\ pc = "flush" /\ job = NoJob /\ todo = {} /\ open
      /\ UNCHANGED <<open, run, todo, job>> /\ Target = delta
  BY DEF EndFlush, MergeInv, DeltaStarts, Target
<1>2. UNCHANGED main /\ pc' = ret /\ Written(delta') = Written(delta) /\ delta'.keys = delta.keys
      /\ DOMAIN delta'.cache = {}
  <2>1. CASE DOMAIN delta.cache = {}
    <3>1. SetTarget({delta}) /\ pc' = ret
      BY <1>1, <2>1 DEF EndFlush
    <3>2. QED
      BY <1>0, <2>1, <3>1 DEF SetTarget
  <2>2. CASE DOMAIN delta.cache # {}
    <3>1. PICK fault \in Faults \ {"get"} : \E ix \in Waits(WriteCached(delta), fault) :
            /\ Count(fault)
            /\ IF ix.status = "failed"
               THEN SetTarget({ix}) /\ pc' = "idle" /\ ret' = "idle" /\ failed' = TRUE
               ELSE SetTarget({FlushedCache(ix)}) /\ pc' = ret /\ ret' = "idle" /\ UNCHANGED failed
      BY <1>1, <2>2, Zenon DEF EndFlush
    <3>2. PICK ix \in Waits(WriteCached(delta), fault) :
            /\ Count(fault)
            /\ IF ix.status = "failed"
               THEN SetTarget({ix}) /\ pc' = "idle" /\ ret' = "idle" /\ failed' = TRUE
               ELSE SetTarget({FlushedCache(ix)}) /\ pc' = ret /\ ret' = "idle" /\ UNCHANGED failed
      BY <3>1, Zenon
    <3>3. ix \in Waits(WriteCached(delta), "none")
      BY <1>0, <3>2, NoFault
    <3>4. delta' = FlushedCache(ix) /\ UNCHANGED main /\ pc' = ret
      BY <1>0, <3>2 DEF SetTarget
    <3>5. IsIndex(ix) /\ Written(FlushedCache(ix)) = Written(delta) /\ ix.keys = delta.keys
      BY <1>0, <3>3, MovedView
    <3>6. FlushedCache(ix).keys = ix.keys /\ FlushedCache(ix).cache = NoRecords
      BY <3>5 DEF FlushedCache, IsIndex
    <3>7. DOMAIN NoRecords = {}
      BY DEF NoRecords
    <3>8. QED
      BY <3>4, <3>5, <3>6, <3>7
  <2>3. QED
    BY <2>1, <2>2
<1>3. ret \in {"idle", "end"}
  BY DEF TypeInv, ScalarTypes
<1>4. TrueIndex(main)' /\ DeltaRecords' /\ KeysRight' /\ CountsBound'
  BY <1>0, <1>1, <1>2, DeltaKept
<1>5. DeltaStarts'
  BY <1>1, <1>2, <1>3 DEF DeltaStarts, MergeInv
<1>6. CacheClean' /\ JobCounts'
  BY <1>1, <1>2, <1>3 DEF CacheClean, JobCounts
<1>7. QED
  BY <1>4, <1>5, <1>6 DEF MergeInv

\* What a cached block does to the headers and to the records that count as
\* missing.
LEMMA CachesRecords ==
  ASSUME NEW w, NEW ix, NEW id, NEW b, Caches(w, ix, id, b)
  PROVE  /\ TrueRecords(Written(ix)) /\ TrueHeader(<<ix.clist, id>>, b) => TrueRecords(Written(w))
         /\ NoneEmpty(ix) /\ b # NoBlock => NoneEmpty(w)
<1> DEFINE key == <<ix.clist, id>>
<1>1. /\ DOMAIN Written(w) = DOMAIN Written(ix) \cup {key}
      /\ Written(w)[key] = b
      /\ \A k \in DOMAIN Written(ix) : k # key => Written(w)[k] = Written(ix)[k]
  BY DEF Caches
<1> HIDE DEF key
<1>2. TrueRecords(Written(ix)) /\ TrueHeader(key, b) => TrueRecords(Written(w))
  BY <1>1 DEF TrueRecords
<1>3. NoneEmpty(ix) /\ b # NoBlock => NoneEmpty(w)
  BY <1>1 DEF NoneEmpty
<1>4. QED
  BY <1>2, <1>3 DEF key

\* What it does to the counts of the lists.
LEMMA CachesCounts ==
  ASSUME NEW w, NEW ix, NEW id, NEW b, Caches(w, ix, id, b)
  PROVE  \A u : CountIn(Written(w), u) =
           IF u = ix.clist /\ id = 1 THEN b.lh ELSE CountIn(Written(ix), u)
<1> DEFINE key == <<ix.clist, id>>
<1>1. /\ DOMAIN Written(w) = DOMAIN Written(ix) \cup {key}
      /\ Written(w)[key] = b
      /\ \A k \in DOMAIN Written(ix) : k # key => Written(w)[k] = Written(ix)[k]
  BY DEF Caches
<1>2. \A u : <<u, 1>> = key <=> u = ix.clist /\ id = 1
  OBVIOUS
<1> HIDE DEF key
<1>3. QED
  BY <1>1, <1>2 DEF CountIn, Has

\* A chunk is appended to a block of the delta.
LEMMA AppendKeys ==
  ASSUME NEW ix, IsIndex(ix), NoneEmpty(ix), TrueRecords(Written(ix)),
         KeysOf(ix.keys, DOMAIN Written(ix)),
         NEW t \in Terms, ix.clist = t, NEW lh \in Nat \ {0}, NEW hdr \in Headers, hdr.ID = lh,
         NEW chunk \in Seq(Nat), NEW new \in BOOLEAN, new => <<t, lh>> \notin DOMAIN Written(ix),
         NEW n, n = AppendChunk(ix, t, lh, hdr, chunk, new)
  PROVE  /\ NoneEmpty(n) /\ TrueRecords(Written(n)) /\ KeysOf(n.keys, DOMAIN Written(n))
         /\ n.clist = t
         /\ \A k \in DOMAIN Written(n) : k \in DOMAIN Written(ix) \/ k \in {<<t, lh>>, <<t, 1>>}
         /\ \A u : u # t => CountIn(Written(n), u) = CountIn(Written(ix), u)
         /\ CountIn(Written(n), t) = lh \/ (~new /\ CountIn(Written(n), t) = CountIn(Written(ix), t))
<1>1. hdr # NullHdr
  BY DEF NullHdr
<1>2. PICK w :
        /\ Caches(w, ix, hdr.ID, [lh |-> IF hdr.ID = 1 THEN lh ELSE 0, hdr |-> hdr,
                                  body |-> At(Written(ix), <<t, hdr.ID>>).body \o chunk])
        /\ IF new /\ hdr.ID # 1
           THEN Caches(n, w, 1, [At(Written(w), <<t, 1>>) EXCEPT !.lh = lh])
           ELSE n = w
  <2>1. new => <<t, hdr.ID>> \notin DOMAIN Written(ix)
    OBVIOUS
  <2>2. Appended(n, ix, t, lh, hdr, chunk, new)
    BY <1>1, <2>1, AppendCaches
  <2>3. QED
    BY <2>2, Zenon DEF Appended
<1> DEFINE old == At(Written(ix), <<t, lh>>)
           b == [lh |-> IF lh = 1 THEN lh ELSE 0, hdr |-> hdr, body |-> old.body \o chunk]
<1>3. b.hdr = hdr /\ b.lh = (IF lh = 1 THEN lh ELSE 0) /\ b # NoBlock
  BY <1>1 DEF NoBlock
<1>4. TrueHeader(<<t, lh>>, b)
  BY <1>3 DEF TrueHeader
<1>5. Caches(w, ix, lh, b)
  BY <1>2
<1> HIDE DEF b
<1>6. /\ IsIndex(w) /\ w.clist = t /\ DOMAIN Written(w) = DOMAIN Written(ix) \cup {<<t, lh>>}
      /\ KeysOf(w.keys, DOMAIN Written(w))
  BY <1>5 DEF Caches
<1>7. /\ TrueRecords(Written(w)) /\ NoneEmpty(w)
      /\ \A u : CountIn(Written(w), u) = IF u = t /\ lh = 1 THEN b.lh ELSE CountIn(Written(ix), u)
  BY <1>3, <1>4, <1>5, CachesRecords, CachesCounts
<1>8. CASE new /\ lh # 1
  <2> DEFINE first == At(Written(w), <<t, 1>>)
             one == [first EXCEPT !.lh = lh]
  <2>1. /\ Caches(n, w, 1, [first EXCEPT !.lh = lh])
        /\ first \in BlockRecords
        /\ first.hdr = NullHdr \/ (<<t, 1>> \in DOMAIN Written(w) /\ first = Written(w)[<<t, 1>>])
    <3>1. first \in BlockRecords
      BY <1>6, WrittenAt, AtType
    <3>2. NoBlock.hdr = NullHdr
      BY DEF NoBlock
    <3>3. QED
      BY <1>2, <1>8, <3>1, <3>2 DEF At
  <2> HIDE DEF first
  <2>2. one.lh = lh /\ one.hdr = first.hdr /\ one # NoBlock
    BY <2>1 DEF BlockRecords, NoBlock
  <2>3. TrueHeader(<<t, 1>>, one)
    <3>1. first.hdr # NullHdr => TrueHeader(<<t, 1>>, first)
      BY <1>7, <2>1 DEF TrueRecords
    <3>2. QED
      BY <2>2, <3>1 DEF TrueHeader
  <2> HIDE DEF one
  <2>4. Caches(n, w, 1, one)
    BY <2>1 DEF one
  <2>5. /\ n.clist = t /\ DOMAIN Written(n) = DOMAIN Written(w) \cup {<<t, 1>>}
        /\ KeysOf(n.keys, DOMAIN Written(n))
    BY <1>6, <2>4 DEF Caches
  <2>6. /\ TrueRecords(Written(n)) /\ NoneEmpty(n)
        /\ \A u : CountIn(Written(n), u) = IF u = t THEN one.lh ELSE CountIn(Written(w), u)
    <3>1. TrueRecords(Written(n)) /\ NoneEmpty(n)
      BY <1>6, <1>7, <2>2, <2>3, <2>4, CachesRecords
    <3>2. \A u : CountIn(Written(n), u) = IF u = t THEN one.lh ELSE CountIn(Written(w), u)
      BY <1>6, <2>4, CachesCounts
    <3>3. QED
      BY <3>1, <3>2
  <2>7. QED
    BY <1>6, <1>7, <2>2, <2>5, <2>6
<1>9. CASE ~(new /\ lh # 1)
  <2>1. n = w
    BY <1>2, <1>9
  <2>2. CountIn(Written(n), t) = lh \/ (~new /\ CountIn(Written(n), t) = CountIn(Written(ix), t))
    BY <1>3, <1>7, <1>9, <2>1
  <2>3. QED
    BY <1>6, <1>7, <2>1, <2>2
<1>10. QED
  BY <1>8, <1>9

\* The block a chunk goes to: the last one of its list, or the next.
LEMMA ChunkBlock ==
  ASSUME TypeInv, MergeInv, op = "BUILD_MERGE", pc = "flush", job # NoJob,
         NEW lh, lh = IF Fits THEN job.lh ELSE job.lh + 1
  PROVE  /\ lh \in Nat \ {0} /\ ChunkHeader.ID = lh /\ job.lh <= lh
         /\ ~Fits => <<job.term, lh>> \notin DOMAIN Written(delta)
<1>1. job \in Jobs /\ job.lh \in Nat /\ job.hdr \in Headers
  BY DEF TypeInv, CallTypes, Jobs
<1>2. job.lh = DeltaCount(job.term) /\ job.hdr.ID = job.lh /\ (job.lh = 0 => job.hdr = NullHdr)
  BY DEF MergeInv, JobCounts
<1>3. ChunkHeader.ID = lh
  BY <1>1, <1>2 DEF ChunkHeader, Headers
<1>4. lh \in Nat \ {0} /\ job.lh <= lh
  BY <1>1, <1>2 DEF Fits
<1>5. ASSUME ~Fits PROVE <<job.term, lh>> \notin DOMAIN Written(delta)
  <2> DEFINE k == <<job.term, lh>>
  <2>1. \A x \in DOMAIN Written(delta) : x[2] <= DeltaCount(x[1])
    BY DEF MergeInv, CountsBound, DeltaStarts
  <2>2. k[1] = job.term /\ k[2] = lh
    OBVIOUS
  <2> HIDE DEF k
  <2>3. ~(k[2] <= DeltaCount(k[1]))
    BY <1>1, <1>2, <1>5, <2>2
  <2>4. QED
    BY <2>1, <2>3 DEF k
<1>6. QED
  BY <1>3, <1>4, <1>5

\* A chunk is appended.
LEMMA EmitKeys ==
  ASSUME TypeInv, MergeInv, op = "BUILD_MERGE", Untroubled', ~Fail, EmitChunk,
         NEW t, t = job.term
  PROVE  MergeInv'
<1> DEFINE lh   == IF Fits THEN job.lh ELSE job.lh + 1
           code == Encode(Chunk, Base)
           rest == SubSeq(job.rest, Len(Chunk) + 1, Len(job.rest))
           good(w) == AppendChunk(w, job.term, lh, ChunkHeader, code, ~Fits)
           bad(w) == AppendFails(w, job.term, lh, ChunkHeader, code, ~Fits)
           next == IF rest = <<>> THEN NoJob ELSE [job EXCEPT !.lh = lh, !.hdr = ChunkHeader, !.rest = rest]
           reads == Reads(Target, ChunkHeader, ~Fits)
<1>0. IsIndex(main) /\ IsIndex(delta) /\ TrueIndex(main) /\ troubles' = 0
  BY DEF TypeInv, MergeInv, Untroubled
<1>1. /\ pc = "flush" /\ job # NoJob /\ Target = delta /\ delta.clist = t
      /\ open /\ UNCHANGED <<open, run>>
  BY DEF EmitChunk, indexer, Target, MergeInv, DeltaStarts
<1>2. PICK fault \in IF reads THEN Faults ELSE {"none"} :
        /\ Count(fault)
        /\ \E ix \in IF reads THEN Waits(Target, fault) ELSE {Target} :
             IF fault = "get" THEN SetTarget({bad(ix)}) /\ Fail
             ELSE /\ SetTarget({good(ix)}) /\ job' = next
                  /\ UNCHANGED <<pc, ret, todo, mkeys, mbuf, failed>>
  BY Zenon DEF EmitChunk
<1>3. fault = "none"
  BY <1>0, <1>2, NoFault
<1>4. PICK ix \in IF reads THEN Waits(delta, "none") ELSE {delta} :
             IF fault = "get" THEN SetTarget({bad(ix)}) /\ Fail
             ELSE /\ SetTarget({good(ix)}) /\ job' = next
                  /\ UNCHANGED <<pc, ret, todo, mkeys, mbuf, failed>>
  BY <1>1, <1>2, <1>3, Zenon
<1>5. delta' = good(ix) /\ UNCHANGED <<main, pc, todo>> /\ job' = next
  BY <1>1, <1>3, <1>4, Zenon DEF SetTarget, Target
<1>6. /\ IsIndex(ix) /\ ix.clist = t /\ Written(ix) = Written(delta) /\ ix.keys = delta.keys
  BY <1>0, <1>1, <1>4, WaitType, WaitView
<1>7. NoneEmpty(ix) /\ TrueRecords(Written(ix)) /\ KeysOf(ix.keys, DOMAIN Written(ix))
  BY <1>1, <1>6 DEF MergeInv, DeltaRecords, NoneEmpty, KeysRight
<1>8. /\ lh \in Nat \ {0} /\ ChunkHeader.ID = lh /\ job.lh <= lh
      /\ ~Fits => <<t, lh>> \notin DOMAIN Written(ix)
  BY <1>1, <1>6, ChunkBlock
<1>9. /\ t \in Terms /\ t \notin todo /\ job \in Jobs /\ job.lh \in Nat
      /\ job.lh = DeltaCount(t)
  BY <1>1 DEF TypeInv, CallTypes, Jobs, JobHasPostings, MergeInv, CacheClean, JobCounts
<1>10. ChunkHeader \in Headers /\ code \in Seq(Nat) /\ (~Fits) \in BOOLEAN
  BY <1>1, ChunkType, EncodeType
<1>11. Fits => lh = job.lh
  OBVIOUS
<1> HIDE DEF code, rest, bad, reads, lh
<1>12. delta' = AppendChunk(ix, t, lh, ChunkHeader, code, ~Fits)
  BY <1>5 DEF lh
<1>13. /\ NoneEmpty(delta') /\ TrueRecords(Written(delta'))
       /\ KeysOf(delta'.keys, DOMAIN Written(delta'))
       /\ delta'.clist = t
       /\ \A k \in DOMAIN Written(delta') : k \in DOMAIN Written(delta) \/ k \in {<<t, lh>>, <<t, 1>>}
       /\ \A u : u # t => CountIn(Written(delta'), u) = CountIn(Written(delta), u)
       /\ \/ CountIn(Written(delta'), t) = lh
          \/ Fits /\ CountIn(Written(delta'), t) = CountIn(Written(delta), t)
  <2>0. PICK n : n = delta'
    OBVIOUS
  <2> DEFINE new == ~Fits
             hdr == ChunkHeader
  <2>1. /\ new \in BOOLEAN /\ (new => <<t, lh>> \notin DOMAIN Written(ix)) /\ (~new <=> Fits)
        /\ n = AppendChunk(ix, t, lh, hdr, code, new) /\ hdr \in Headers /\ hdr.ID = lh
    BY <2>0, <1>8, <1>10, <1>12
  <2> HIDE DEF new, hdr
  <2>2. /\ NoneEmpty(n) /\ TrueRecords(Written(n)) /\ KeysOf(n.keys, DOMAIN Written(n))
        /\ n.clist = t
        /\ \A k \in DOMAIN Written(n) : k \in DOMAIN Written(ix) \/ k \in {<<t, lh>>, <<t, 1>>}
        /\ \A u : u # t => CountIn(Written(n), u) = CountIn(Written(ix), u)
        /\ CountIn(Written(n), t) = lh \/ (~new /\ CountIn(Written(n), t) = CountIn(Written(ix), t))
    BY <1>6, <1>7, <1>8, <1>9, <1>10, <2>1, AppendKeys
  <2>3. CountIn(Written(n), t) = lh \/ (Fits /\ CountIn(Written(n), t) = CountIn(Written(delta), t))
    BY <1>6, <2>1, <2>2
  <2>4. /\ \A k \in DOMAIN Written(n) : k \in DOMAIN Written(delta) \/ k \in {<<t, lh>>, <<t, 1>>}
        /\ \A u : u # t => CountIn(Written(n), u) = CountIn(Written(delta), u)
    BY <1>6, <2>2
  <2>5. QED
    BY <2>0, <2>2, <2>3, <2>4
<1>14. \A u : u # t => DeltaCount(u)' = DeltaCount(u)
  BY <1>5, <1>13 DEF DeltaCount
<1>15. DeltaCount(t)' = lh
  <2>1. CASE CountIn(Written(delta'), t) = lh
    BY <1>8, <2>1 DEF DeltaCount
  <2>2. CASE Fits /\ CountIn(Written(delta'), t) = CountIn(Written(delta), t)
    BY <1>5, <1>9, <1>11, <2>2 DEF DeltaCount
  <2>3. QED
    BY <1>13, <2>1, <2>2
<1>16. DeltaRecords' /\ KeysRight'
  BY <1>13 DEF DeltaRecords, KeysRight
<1>17. CountsBound'
  <2>1. ASSUME NEW k \in DOMAIN Written(delta') PROVE k[2] <= DeltaCount(k[1])'
    <3>1. CASE k \in {<<t, lh>>, <<t, 1>>}
      <4>1. k[1] = t /\ k[2] \in {lh, 1}
        BY <3>1
      <4>2. QED
        BY <1>8, <1>15, <4>1
    <3>2. CASE k \in DOMAIN Written(delta)
      <4>1. k[2] <= DeltaCount(k[1]) /\ k[2] \in Nat
        <5>1. k[2] <= DeltaCount(k[1])
          BY <1>1, <3>2 DEF MergeInv, CountsBound
        <5>2. AreRecords(Written(delta), BlockKeys)
          BY <1>0, WrittenAt
        <5>3. QED
          BY <3>2, <5>1, <5>2 DEF AreRecords, BlockKeys
      <4>2. QED
        BY <1>8, <1>9, <1>14, <1>15, <4>1
    <3>3. QED
      BY <1>13, <3>1, <3>2
  <2>2. QED
    BY <2>1 DEF CountsBound
<1>18. job' = NoJob \/ (job'.term = t /\ job'.lh = lh /\ job'.hdr = ChunkHeader)
  <2>1. CASE rest = <<>>
    BY <1>5, <2>1
  <2>2. CASE rest # <<>>
    BY <1>5, <1>9, <2>2 DEF Jobs
  <2>3. QED
    BY <2>1, <2>2
<1>19. DeltaStarts'
  <2>1. ASSUME run = 1, NEW k \in DOMAIN Written(delta') PROVE k[1] \notin todo
    <3>1. CASE k \in {<<t, lh>>, <<t, 1>>}
      BY <1>9, <3>1
    <3>2. CASE k \in DOMAIN Written(delta)
      BY <1>1, <2>1, <3>2 DEF MergeInv, DeltaStarts
    <3>3. QED
      BY <1>13, <3>1, <3>2
  <2>2. run # 0
    BY <1>1 DEF MergeInv, DeltaStarts
  <2>3. QED
    BY <1>1, <1>5, <2>1, <2>2 DEF DeltaStarts
<1>20. CacheClean'
  BY <1>1, <1>5, <1>9, <1>13, <1>18 DEF CacheClean
<1>21. JobCounts'
  BY <1>8, <1>15, <1>18 DEF JobCounts
<1>22. TrueIndex(main)'
  BY <1>0, <1>5
<1>23. QED
  BY <1>16, <1>17, <1>19, <1>20, <1>21, <1>22 DEF MergeInv

\* The delta is right at the start.
LEMMA InitKeys == Init => DeltaInv
<1> SUFFICES ASSUME Init PROVE MergeInv
  BY DEF DeltaInv
<1>1. TrueIndex(main) /\ DOMAIN Written(delta) = {} /\ DOMAIN delta.cache = {}
  <2>1. NewIndex.server = NoRecords /\ NewIndex.sched = <<>> /\ NewIndex.cache = NoRecords
    BY DEF NewIndex
  <2>2. DOMAIN NoRecords = {} /\ DOMAIN <<>> = {} /\ IsIndex(NewIndex)
    BY NewType
  <2>3. View(NewIndex) = NoRecords
    BY <2>1, <2>2, ViewServer
  <2>4. Written(NewIndex) = NoRecords
    BY <2>1, <2>2, <2>3, WrittenViews
  <2>5. TrueIndex(NewIndex)
    BY <2>1, <2>2 DEF TrueIndex, TrueRecords
  <2>6. main = NewIndex /\ delta = NewIndex
    BY DEF Init
  <2>7. QED
    BY <2>1, <2>2, <2>4, <2>5, <2>6
<1>2. DeltaRecords /\ CountsBound
  BY <1>1 DEF DeltaRecords, NoneEmpty, TrueRecords, CountsBound
<1>3. KeysRight /\ DeltaStarts /\ CacheClean /\ JobCounts
  BY <1>1 DEF Init, KeysRight, DeltaStarts, CacheClean, JobCounts
<1>4. QED
  BY <1>1, <1>2, <1>3 DEF MergeInv

\* Every step keeps the keys right until the first trouble or failed call.
LEMMA NextKeys ==
  TypeInv /\ DeltaInv /\ [Next]_vars /\ [Abandon => troubles # 0]_vars => DeltaInv'
<1> SUFFICES ASSUME TypeInv, DeltaInv, [Next]_vars, [Abandon => troubles # 0]_vars,
                    Untroubled', op' = "BUILD_MERGE"
             PROVE  MergeInv'
  BY DEF DeltaInv
<1>1. Abandon => troubles # 0
  BY DEF Abandon, Gone, vars, call
<1>2. Untroubled /\ op = "BUILD_MERGE" /\ ~Crash /\ ~Abandon /\ ~Fail
  BY <1>1, Earlier
<1>3. MergeInv
  BY <1>2 DEF DeltaInv
<1>4. CASE \/ OpenStore \/ ReadList \/ CloseStore \/ ClearStore \/ Start \/ Flush
           \/ \E f \in 1..MaxFID, ts \in Recordings : Index(f, ts)
           \/ \E flush \in BOOLEAN : End(flush)
           \/ UNCHANGED vars
  BY <1>2, <1>3, <1>4, OuterKeys
<1>5. CASE EndSession \/ MergeRecord \/ EndMerge
  BY <1>2, <1>3, <1>5, EndKeys
<1>6. CASE \E t \in Terms : BeginList(t)
  BY <1>2, <1>3, <1>6, BeginKeys
<1>7. CASE MoveCache \/ ExecuteBatch
  BY <1>2, <1>3, <1>7, MoveKeys
<1>8. CASE EndFlush
  BY <1>2, <1>3, <1>8, EndFlushKeys
<1>9. CASE EmitChunk
  BY <1>2, <1>3, <1>9, EmitKeys
<1>10. CASE RejectChunk
  BY <1>2, <1>10 DEF RejectChunk
<1>11. QED
  BY <1>2, <1>4, <1>5, <1>6, <1>7, <1>8, <1>9, <1>10, Zenon DEF Next

\* Right keys are those of the delta.
LEMMA DeltaCovers == DeltaInv => KeysCoverDelta
BY DEF DeltaInv, MergeInv, KeysRight, KeysOf, KeysCoverDelta, DeltaKeys, Written, CachedKeys

\* The keys remembered for the merge are those of the delta's records, each
\* once, through every flush, batch and read of a session and through its
\* merge, for a client that gives a session up only after a request failed:
\* OnIndexerEnd merges every record of the delta, and none of them twice.
THEOREM KeysCovered ==
  Spec /\ [][Abandon => troubles # 0]_vars => []KeysCoverDelta
<1>1. DeltaInv => KeysCoverDelta
  BY DeltaCovers
<1>2. Init => TypeInv /\ DeltaInv
  BY InitType, InitKeys
<1>3. TypeInv /\ DeltaInv /\ [Next]_vars /\ [Abandon => troubles # 0]_vars => TypeInv' /\ DeltaInv'
  BY NextType, NextKeys
<1>4. QED
  BY <1>1, <1>2, <1>3, PTL DEF Spec

-----------------------------------------------------------------------------
(* Records merged into records.                                            *)

\* The records m once the records d are merged into them.
Plus(m, d) ==
  [k \in DOMAIN m \cup DOMAIN d |->
     IF k \in DOMAIN d THEN MergedBlock(At(m, k), d[k], k[2], FALSE) ELSE m[k]]

\* The merged records, one by one.
LEMMA PlusAt ==
  ASSUME NEW m, NEW d, NEW k
  PROVE  /\ k \in DOMAIN Plus(m, d) <=> k \in DOMAIN m \/ k \in DOMAIN d
         /\ k \in DOMAIN d => Plus(m, d)[k] = MergedBlock(At(m, k), d[k], k[2], FALSE)
         /\ k \in DOMAIN m /\ k \notin DOMAIN d => Plus(m, d)[k] = m[k]
BY Zenon DEF Plus

\* There are no others.
LEMMA PlusFun ==
  ASSUME NEW m, NEW d
  PROVE  Plus(m, d) = [k \in DOMAIN Plus(m, d) |-> Plus(m, d)[k]]
BY Zenon DEF Plus

\* They are records.
LEMMA PlusType ==
  ASSUME NEW m, NEW d, AreRecords(m, BlockKeys), AreRecords(d, BlockKeys)
  PROVE  AreRecords(Plus(m, d), BlockKeys)
<1> DEFINE p == Plus(m, d)
<1>1. ASSUME NEW k \in DOMAIN p PROVE k \in BlockKeys /\ p[k] \in BlockRecords
  <2>1. /\ k \in DOMAIN m \/ k \in DOMAIN d
        /\ k \in DOMAIN d => p[k] = MergedBlock(At(m, k), d[k], k[2], FALSE)
        /\ k \in DOMAIN m /\ k \notin DOMAIN d => p[k] = m[k]
    BY <1>1, PlusAt
  <2>2. At(m, k) \in BlockRecords
    BY AtType
  <2>3. k \in DOMAIN d => MergedBlock(At(m, k), d[k], k[2], FALSE) \in BlockRecords
    BY <2>2, MergedType DEF AreRecords
  <2> HIDE DEF p
  <2>4. QED
    BY <2>1, <2>3 DEF AreRecords
<1>2. p = [k \in DOMAIN p |-> p[k]]
  BY PlusFun
<1> HIDE DEF p
<1>3. AreRecords(p, BlockKeys)
  BY <1>1, <1>2, Zenon DEF AreRecords
<1>4. QED
  BY <1>3 DEF p

\* What the record p is made of: l and then b.
JoinOf(p, l, b) ==
  /\ p.body = l.body \o b.body
  /\ p.hdr = IF b.hdr # NullHdr THEN b.hdr ELSE l.hdr

\* A merged record is made of the two.
LEMMA PlusParts ==
  ASSUME NEW m, NEW d, AreRecords(m, BlockKeys), AreRecords(d, BlockKeys), NEW k
  PROVE  JoinOf(At(Plus(m, d), k), At(m, k), At(d, k))
<1> DEFINE p == Plus(m, d)
<1>1. /\ k \in DOMAIN p <=> k \in DOMAIN m \/ k \in DOMAIN d
      /\ k \in DOMAIN d => p[k] = MergedBlock(At(m, k), d[k], k[2], FALSE)
      /\ k \in DOMAIN m /\ k \notin DOMAIN d => p[k] = m[k]
  BY PlusAt
<1> HIDE DEF p
<1>2. At(m, k).body \in Seq(Nat) /\ At(d, k).body \in Seq(Nat)
  BY AtType
<1>3. \A s \in Seq(Nat) : s \o <<>> = s
  OBVIOUS
<1>4. CASE k \in DOMAIN d
  <2>1. At(p, k) = MergedBlock(At(m, k), d[k], k[2], FALSE) /\ At(d, k) = d[k]
    BY <1>1, <1>4 DEF At
  <2> DEFINE l == At(m, k)
             b == d[k]
             c == MergedBlock(l, b, k[2], FALSE)
  <2>2. /\ c.body = l.body \o b.body /\ c.hdr = (IF b.hdr # NullHdr THEN b.hdr ELSE l.hdr)
    BY DEF MergedBlock
  <2> HIDE DEF c
  <2>3. QED
    BY <2>1, <2>2 DEF c, p, JoinOf
<1>5. CASE k \notin DOMAIN d
  <2>1. At(p, k) = At(m, k) /\ At(d, k) = NoBlock
    BY <1>1, <1>5 DEF At
  <2>2. NoBlock.body = <<>> /\ NoBlock.hdr = NullHdr
    BY DEF NoBlock
  <2>3. QED
    BY <1>2, <1>3, <2>1, <2>2 DEF p, JoinOf
<1>6. QED
  BY <1>4, <1>5

\* A record that is not merged stays as it is.
LEMMA PlusElsewhere ==
  ASSUME NEW m, NEW d, NEW k, k \notin DOMAIN d
  PROVE  /\ k \in DOMAIN Plus(m, d) <=> k \in DOMAIN m
         /\ k \in DOMAIN m => Plus(m, d)[k] = m[k]
<1> DEFINE p == Plus(m, d)
<1>1. /\ k \in DOMAIN p <=> k \in DOMAIN m \/ k \in DOMAIN d
      /\ k \in DOMAIN d => p[k] = MergedBlock(At(m, k), d[k], k[2], FALSE)
      /\ k \in DOMAIN m /\ k \notin DOMAIN d => p[k] = m[k]
  BY PlusAt
<1> HIDE DEF p
<1>2. QED
  BY <1>1 DEF p

\* Nothing merged changes nothing.
LEMMA PlusNone ==
  ASSUME NEW m, NEW d, AreRecords(m, BlockKeys), DOMAIN d = {}
  PROVE  Plus(m, d) = m
<1> DEFINE p == Plus(m, d)
<1>1. ASSUME NEW k PROVE (k \in DOMAIN p <=> k \in DOMAIN m) /\ (k \in DOMAIN m => p[k] = m[k])
  <2>1. k \notin DOMAIN d
    OBVIOUS
  <2>2. QED
    BY <2>1, PlusElsewhere DEF p
<1>2. p = [k \in DOMAIN p |-> p[k]]
  BY PlusFun
<1> HIDE DEF p
<1>3. m = [k \in DOMAIN m |-> m[k]]
  BY DEF AreRecords
<1>4. DOMAIN p = DOMAIN m
  BY <1>1
<1>5. p = m
  BY <1>1, <1>2, <1>3, <1>4
<1>6. QED
  BY <1>5 DEF p

\* One record of d is merged into m.
Moved(m, d, k, n, e) ==
  /\ k \in DOMAIN d
  /\ DOMAIN n = DOMAIN m \cup {k} /\ n[k] = MergedBlock(At(m, k), d[k], k[2], FALSE)
  /\ \A x \in DOMAIN m : x # k => n[x] = m[x]
  /\ DOMAIN e = DOMAIN d \ {k} /\ \A x \in DOMAIN e : e[x] = d[x]

\* That does not change what there is when all of them are.
LEMMA PlusMoved ==
  ASSUME NEW m, NEW d, NEW k, NEW n, NEW e, Moved(m, d, k, n, e)
  PROVE  Plus(n, e) = Plus(m, d)
<1> DEFINE p == Plus(m, d)
           q == Plus(n, e)
<1>1. /\ k \in DOMAIN d
      /\ DOMAIN n = DOMAIN m \cup {k} /\ n[k] = MergedBlock(At(m, k), d[k], k[2], FALSE)
      /\ \A x \in DOMAIN m : x # k => n[x] = m[x]
      /\ DOMAIN e = DOMAIN d \ {k} /\ \A x \in DOMAIN e : e[x] = d[x]
  BY DEF Moved
<1>2. ASSUME NEW x PROVE /\ x \in DOMAIN q <=> x \in DOMAIN p
                         /\ x \in DOMAIN p => q[x] = p[x]
  <2>1. /\ x \in DOMAIN p <=> x \in DOMAIN m \/ x \in DOMAIN d
        /\ x \in DOMAIN d => p[x] = MergedBlock(At(m, x), d[x], x[2], FALSE)
        /\ x \in DOMAIN m /\ x \notin DOMAIN d => p[x] = m[x]
    BY PlusAt
  <2>2. /\ x \in DOMAIN q <=> x \in DOMAIN n \/ x \in DOMAIN e
        /\ x \in DOMAIN e => q[x] = MergedBlock(At(n, x), e[x], x[2], FALSE)
        /\ x \in DOMAIN n /\ x \notin DOMAIN e => q[x] = n[x]
    BY PlusAt
  <2> HIDE DEF p, q
  <2>3. x # k => At(n, x) = At(m, x)
    BY <1>1 DEF At
  <2>4. CASE x = k
    BY <1>1, <2>1, <2>2, <2>4
  <2>5. CASE x # k
    BY <1>1, <2>1, <2>2, <2>3, <2>5
  <2>6. QED
    BY <2>4, <2>5
<1>3. p = [x \in DOMAIN p |-> p[x]] /\ q = [x \in DOMAIN q |-> q[x]]
  BY PlusFun
<1> HIDE DEF p, q
<1>4. DOMAIN p = DOMAIN q
  BY <1>2
<1>5. p = q
  BY <1>2, <1>3, <1>4
<1>6. QED
  BY <1>5 DEF p, q

\* A record is the beginning of what it is merged into.
LEMMA PlusUnder ==
  ASSUME NEW m, NEW d, AreRecords(m, BlockKeys), AreRecords(d, BlockKeys), NEW k \in DOMAIN m
  PROVE  /\ k \in DOMAIN Plus(m, d)
         /\ FIDsOf(m[k]) \subseteq FIDsOf(Plus(m, d)[k])
         /\ Rising(Decode(Plus(m, d)[k].body)) => Rising(Decode(m[k].body))
<1> DEFINE p == Plus(m, d)
<1>1. k \in DOMAIN p /\ p[k] = At(p, k) /\ m[k] = At(m, k)
  BY PlusAt DEF At
<1>2. p[k].body = m[k].body \o At(d, k).body
  <2>1. JoinOf(At(p, k), At(m, k), At(d, k))
    BY PlusParts
  <2>2. QED
    BY <1>1, <2>1 DEF JoinOf
<1> HIDE DEF p
<1>3. m[k].body \in Seq(Nat) /\ At(d, k).body \in Seq(Nat)
  BY <1>1, AtType
<1>4. QED
  BY <1>1, <1>2, <1>3, DecodePrefix DEF FIDsOf, p

-----------------------------------------------------------------------------
(* A chunk goes to a list.                                                 *)

\* The records e are the records d with a chunk in block lh of list t: a new
\* block writes the list header too.
Added(d, e, t, lh, hdr, code, new) ==
  /\ \A b : Has(e, t, b) <=> Has(d, t, b) \/ b = lh \/ (new /\ b = 1)
  /\ CountIn(e, t) = IF new \/ lh = 1 THEN lh ELSE CountIn(d, t)
  /\ At(e, <<t, lh>>).hdr = hdr /\ At(e, <<t, lh>>).body = At(d, <<t, lh>>).body \o code
  /\ \A b : b # lh => /\ At(e, <<t, b>>).hdr = At(d, <<t, b>>).hdr
                      /\ At(e, <<t, b>>).body = At(d, <<t, b>>).body
  /\ \A u, b : u # t => /\ Has(e, u, b) <=> Has(d, u, b)
                        /\ Has(d, u, b) => e[<<u, b>>] = d[<<u, b>>]

\* The place of the chunk in the list: the last block or the next one.
Placed(r, t, lh, code, chunk, new) ==
  LET n == CountIn(r, t)
  IN  /\ \A b : Has(r, t, b) <=> b \in 1..n
      /\ n \in Nat /\ lh = (IF new THEN n + 1 ELSE n) /\ lh # 0
      /\ code \in Seq(Nat)
      /\ Decode(At(r, <<t, lh>>).body \o code) = Decode(At(r, <<t, lh>>).body) \o chunk

\* So it extends the list, if the records are written in place.
LEMMA AddedExtends ==
  ASSUME NEW d, NEW e, NEW t, NEW lh, NEW hdr, NEW code, NEW chunk, NEW new \in BOOLEAN,
         Placed(d, t, lh, code, chunk, new), Added(d, e, t, lh, hdr, code, new)
  PROVE  Extended(d, e, t, lh, hdr, code, chunk)
<1> DEFINE n == CountIn(d, t)
           old == IF Has(d, t, lh) THEN d[<<t, lh>>].body ELSE <<>>
<1>1. /\ \A b : Has(d, t, b) <=> b \in 1..n
      /\ n \in Nat /\ lh = (IF new THEN n + 1 ELSE n) /\ lh # 0
      /\ Decode(At(d, <<t, lh>>).body \o code) = Decode(At(d, <<t, lh>>).body) \o chunk
  BY Zenon DEF Placed
<1>2. At(d, <<t, lh>>).body = old
  BY DEF At, Has, NoBlock
<1>3. CountIn(e, t) = lh
  BY <1>1 DEF Added
<1>4. \A b : Has(e, t, b) <=> Has(d, t, b) \/ b = lh
  <2>1. \A b : Has(e, t, b) <=> Has(d, t, b) \/ b = lh \/ (new /\ b = 1)
    BY DEF Added
  <2>2. new => Has(d, t, 1) \/ lh = 1
    BY <1>1
  <2>3. QED
    BY <2>1, <2>2
<1>5. e[<<t, lh>>].hdr = hdr /\ e[<<t, lh>>].body = old \o code
  <2>1. At(e, <<t, lh>>) = e[<<t, lh>>]
    BY <1>4 DEF At, Has
  <2>2. QED
    BY <1>2, <2>1 DEF Added
<1>6. ASSUME NEW b, Has(d, t, b), b # lh
      PROVE  e[<<t, b>>].hdr = d[<<t, b>>].hdr /\ e[<<t, b>>].body = d[<<t, b>>].body
  <2>1. At(d, <<t, b>>) = d[<<t, b>>] /\ At(e, <<t, b>>) = e[<<t, b>>]
    BY <1>4, <1>6 DEF At, Has
  <2>2. QED
    BY <1>6, <2>1 DEF Added
<1>7. \A u, b : u # t => /\ Has(e, u, b) <=> Has(d, u, b)
                         /\ Has(d, u, b) => e[<<u, b>>] = d[<<u, b>>]
  BY DEF Added
<1>8. Decode(old \o code) = Decode(old) \o chunk
  BY <1>1, <1>2
<1> HIDE DEF old, n
<1>9. QED
  BY <1>3, <1>4, <1>5, <1>6, <1>7, <1>8 DEF Extended, old

\* The count of a list once its records are merged.
LEMMA PlusCount ==
  ASSUME NEW m, NEW d, NEW t
  PROVE  CountIn(Plus(m, d), t) = IF Has(d, t, 1) THEN CountIn(d, t) ELSE CountIn(m, t)
<1> DEFINE p == Plus(m, d)
           k == <<t, 1>>
<1>1. /\ k \in DOMAIN p <=> k \in DOMAIN m \/ k \in DOMAIN d
      /\ k \in DOMAIN d => p[k] = MergedBlock(At(m, k), d[k], k[2], FALSE)
      /\ k \in DOMAIN m /\ k \notin DOMAIN d => p[k] = m[k]
  BY PlusAt
<1>2. k[2] = 1
  OBVIOUS
<1> HIDE DEF p, k
<1>3. k \in DOMAIN d => p[k].lh = d[k].lh
  BY <1>1, <1>2 DEF MergedBlock
<1>4. CountIn(p, t) = IF k \in DOMAIN d THEN CountIn(d, t) ELSE CountIn(m, t)
  BY <1>1, <1>3 DEF CountIn, Has, k
<1>5. QED
  BY <1>4 DEF p, k, Has

\* And it extends the list the records are merged into, if they are written
\* next to it.
LEMMA PlusExtends ==
  ASSUME NEW m, NEW d, NEW e, AreRecords(m, BlockKeys), AreRecords(d, BlockKeys), AreRecords(e, BlockKeys),
         NEW t, NEW lh, NEW hdr, hdr # NullHdr, NEW code, NEW chunk, NEW new \in BOOLEAN,
         Placed(Plus(m, d), t, lh, code, chunk, new), Added(d, e, t, lh, hdr, code, new)
  PROVE  Extended(Plus(m, d), Plus(m, e), t, lh, hdr, code, chunk)
<1> DEFINE p == Plus(m, d)
           q == Plus(m, e)
           n == CountIn(p, t)
           k == <<t, lh>>
<1>1. /\ \A b : Has(p, t, b) <=> b \in 1..n
      /\ n \in Nat /\ lh = (IF new THEN n + 1 ELSE n) /\ lh # 0
      /\ code \in Seq(Nat)
      /\ Decode(At(p, k).body \o code) = Decode(At(p, k).body) \o chunk
  BY Zenon DEF Placed
<1>2. ASSUME NEW x PROVE /\ x \in DOMAIN p <=> x \in DOMAIN m \/ x \in DOMAIN d
                         /\ x \in DOMAIN q <=> x \in DOMAIN m \/ x \in DOMAIN e
  BY PlusAt
<1>3. \A u, b : /\ Has(p, u, b) <=> Has(m, u, b) \/ Has(d, u, b)
                /\ Has(q, u, b) <=> Has(m, u, b) \/ Has(e, u, b)
  BY <1>2 DEF Has
<1>4. ASSUME NEW x PROVE /\ JoinOf(At(p, x), At(m, x), At(d, x))
                         /\ JoinOf(At(q, x), At(m, x), At(e, x))
  BY PlusParts
<1>5. /\ CountIn(p, t) = IF Has(d, t, 1) THEN CountIn(d, t) ELSE CountIn(m, t)
      /\ CountIn(q, t) = IF Has(e, t, 1) THEN CountIn(e, t) ELSE CountIn(m, t)
  BY PlusCount
<1>6. /\ \A b : Has(e, t, b) <=> Has(d, t, b) \/ b = lh \/ (new /\ b = 1)
      /\ CountIn(e, t) = IF new \/ lh = 1 THEN lh ELSE CountIn(d, t)
      /\ At(e, k).hdr = hdr /\ At(e, k).body = At(d, k).body \o code
      /\ \A b : b # lh => /\ At(e, <<t, b>>).hdr = At(d, <<t, b>>).hdr
                          /\ At(e, <<t, b>>).body = At(d, <<t, b>>).body
      /\ \A u, b : u # t => /\ Has(e, u, b) <=> Has(d, u, b)
                            /\ Has(d, u, b) => e[<<u, b>>] = d[<<u, b>>]
  BY Zenon DEF Added
<1> HIDE DEF p, q
<1>7. CountIn(q, t) = lh
  BY <1>1, <1>5, <1>6
<1>8. \A b : Has(q, t, b) <=> Has(p, t, b) \/ b = lh
  <2>1. new => Has(p, t, 1) \/ lh = 1
    BY <1>1
  <2>2. QED
    BY <1>3, <1>6, <2>1
<1>9. Has(q, t, lh) /\ q[k] = At(q, k)
  BY <1>8 DEF At, Has
<1>10. q[k].hdr = hdr /\ q[k].body = At(p, k).body \o code
  <2>1. /\ At(q, k).hdr = hdr /\ At(q, k).body = At(m, k).body \o (At(d, k).body \o code)
        /\ At(p, k).body = At(m, k).body \o At(d, k).body
    <3> HIDE DEF k
    <3>1. QED
      BY <1>4, <1>6 DEF JoinOf
  <2>2. At(m, k).body \in Seq(Nat) /\ At(d, k).body \in Seq(Nat)
    BY AtType
  <2> DEFINE a == At(m, k).body
             b == At(d, k).body
  <2>3. a \in Seq(Nat) /\ b \in Seq(Nat) /\ code \in Seq(Nat)
    BY <1>1, <2>2
  <2> HIDE DEF a, b
  <2>4. a \o (b \o code) = (a \o b) \o code
    BY <2>3
  <2>5. QED
    BY <1>9, <2>1, <2>4 DEF a, b
<1>11. At(p, k).body = IF Has(p, t, lh) THEN p[k].body ELSE <<>>
  BY DEF At, Has, NoBlock
<1>12. ASSUME NEW b, Has(p, t, b), b # lh
       PROVE  q[<<t, b>>].hdr = p[<<t, b>>].hdr /\ q[<<t, b>>].body = p[<<t, b>>].body
  <2> DEFINE x == <<t, b>>
  <2>1. At(p, x) = p[x] /\ At(q, x) = q[x]
    BY <1>8, <1>12 DEF At, Has
  <2>2. At(e, x).hdr = At(d, x).hdr /\ At(e, x).body = At(d, x).body
    BY <1>6, <1>12
  <2> HIDE DEF x
  <2>3. JoinOf(At(p, x), At(m, x), At(d, x)) /\ JoinOf(At(q, x), At(m, x), At(e, x))
    BY <1>4
  <2>4. QED
    BY <2>1, <2>2, <2>3 DEF JoinOf, x
<1>13. ASSUME NEW u, NEW b, u # t
       PROVE  /\ Has(q, u, b) <=> Has(p, u, b)
              /\ Has(p, u, b) => q[<<u, b>>] = p[<<u, b>>]
  <2> DEFINE x == <<u, b>>
  <2>1. /\ x \in DOMAIN p <=> x \in DOMAIN m \/ x \in DOMAIN d
        /\ x \in DOMAIN d => p[x] = MergedBlock(At(m, x), d[x], x[2], FALSE)
        /\ x \in DOMAIN m /\ x \notin DOMAIN d => p[x] = m[x]
    BY PlusAt DEF p
  <2>2. /\ x \in DOMAIN q <=> x \in DOMAIN m \/ x \in DOMAIN e
        /\ x \in DOMAIN e => q[x] = MergedBlock(At(m, x), e[x], x[2], FALSE)
        /\ x \in DOMAIN m /\ x \notin DOMAIN e => q[x] = m[x]
    BY PlusAt DEF q
  <2>3. (x \in DOMAIN e <=> x \in DOMAIN d) /\ (x \in DOMAIN d => e[x] = d[x])
    BY <1>6, <1>13 DEF Has
  <2> HIDE DEF x
  <2>4. (x \in DOMAIN q <=> x \in DOMAIN p) /\ (x \in DOMAIN p => q[x] = p[x])
    BY <2>1, <2>2, <2>3
  <2>5. QED
    BY <2>4 DEF x, Has
<1>14. Extended(p, q, t, lh, hdr, code, chunk)
  <2> DEFINE old == IF Has(p, t, lh) THEN p[<<t, lh>>].body ELSE <<>>
  <2>1. /\ q[<<t, lh>>].hdr = hdr /\ q[<<t, lh>>].body = old \o code
        /\ Decode(old \o code) = Decode(old) \o chunk
    BY <1>1, <1>10, <1>11
  <2> HIDE DEF old, k, n
  <2>2. QED
    BY <1>7, <1>8, <1>12, <1>13, <2>1 DEF Extended, old
<1>15. QED
  BY <1>14 DEF p, q
\* The postings of the blocks of the extended list.
LEMMA ExtendedFIDs ==
  ASSUME NEW r, NEW w, NEW t, Coded(r, t), NEW lh, NEW hdr, NEW code, NEW chunk \in Seq(FIDs32),
         Extended(r, w, t, lh, hdr, code, chunk)
  PROVE  /\ \A f : f \in FIDsOf(w[<<t, lh>>]) <=>
                    (Has(r, t, lh) /\ f \in FIDsOf(r[<<t, lh>>])) \/ f \in ToSet(chunk)
         /\ \A b : Has(r, t, b) /\ b # lh => FIDsOf(w[<<t, b>>]) = FIDsOf(r[<<t, b>>])
<1> DEFINE old == IF Has(r, t, lh) THEN r[<<t, lh>>].body ELSE <<>>
<1>1. /\ w[<<t, lh>>].body = old \o code
      /\ Decode(old \o code) = Decode(old) \o chunk
      /\ \A b : Has(r, t, b) /\ b # lh => w[<<t, b>>].body = r[<<t, b>>].body
  BY Zenon DEF Extended
<1>2. old \in Seq(Nat)
  BY DEF Coded
<1>3. ToSet(Decode(old)) = IF Has(r, t, lh) THEN FIDsOf(r[<<t, lh>>]) ELSE {}
  BY DecodeEmpty DEF FIDsOf, ToSet
<1> HIDE DEF old
<1>4. Decode(old) \in Seq(FIDs32)
  BY <1>2, DecodeSums DEF SumsOf
<1> DEFINE u == Decode(old)
<1>5. u \in Seq(FIDs32)
  BY <1>4
<1> HIDE DEF u
<1>6. ToSet(u \o chunk) = ToSet(u) \cup ToSet(chunk)
  BY <1>5, ConcatElements
<1>7. FIDsOf(w[<<t, lh>>]) = ToSet(u) \cup ToSet(chunk)
  BY <1>1, <1>6 DEF FIDsOf, u
<1>8. \A b : Has(r, t, b) /\ b # lh => FIDsOf(w[<<t, b>>]) = FIDsOf(r[<<t, b>>])
  BY <1>1 DEF FIDsOf
<1>9. QED
  BY <1>3, <1>7, <1>8 DEF u

\* What is read of the lists is read of the extended ones, and so is the chunk.
LEMMA ExtendedReads ==
  ASSUME NEW r, NEW w, NEW t, Coded(r, t), NEW lh, NEW hdr, NEW code, NEW chunk \in Seq(FIDs32),
         Extended(r, w, t, lh, hdr, code, chunk), lh \in Nat \ {0}, \A b \in 1..lh : Has(w, t, b)
  PROVE  /\ \A u, f : ReadIn(r, u, f) => ReadIn(w, u, f)
         /\ \A f \in ToSet(chunk) : ReadIn(w, t, f)
<1>1. /\ \A b : Has(w, t, b) <=> Has(r, t, b) \/ b = lh
      /\ \A u, b : u # t => /\ Has(w, u, b) <=> Has(r, u, b)
                            /\ Has(r, u, b) => w[<<u, b>>] = r[<<u, b>>]
  BY Zenon DEF Extended
<1>2. /\ \A f : f \in FIDsOf(w[<<t, lh>>]) <=>
                    (Has(r, t, lh) /\ f \in FIDsOf(r[<<t, lh>>])) \/ f \in ToSet(chunk)
      /\ \A b : Has(r, t, b) /\ b # lh => FIDsOf(w[<<t, b>>]) = FIDsOf(r[<<t, b>>])
  BY ExtendedFIDs
<1>3. \A f \in ToSet(chunk) : ReadIn(w, t, f)
  BY <1>2 DEF ReadIn, Holds
<1>4. ASSUME NEW u, NEW f, NEW b \in Nat \ {0}, Holds(r, u, b, f) PROVE Holds(w, u, b, f)
  <2>1. (\A n \in 1..b : Has(r, u, n)) /\ f \in FIDsOf(r[<<u, b>>]) /\ Has(r, u, b)
    BY <1>4 DEF Holds
  <2>2. \A n \in 1..b : Has(w, u, n)
    BY <1>1, <2>1
  <2>3. CASE u = t
    <3>1. f \in FIDsOf(w[<<t, b>>])
      BY <1>2, <2>1, <2>3
    <3>2. QED
      BY <2>2, <2>3, <3>1 DEF Holds
  <2>4. CASE u # t
    <3>1. w[<<u, b>>] = r[<<u, b>>]
      BY <1>1, <2>1, <2>4
    <3>2. QED
      BY <2>1, <2>2, <3>1 DEF Holds
  <2>5. QED
    BY <2>3, <2>4
<1>5. \A u, f : ReadIn(r, u, f) => ReadIn(w, u, f)
  BY <1>4 DEF ReadIn
<1>6. QED
  BY <1>3, <1>5

-----------------------------------------------------------------------------
(* Lists that can be relied on.                                            *)

\* A block with a header that tells the truth about it.
TrueBlock(b, r) == r.body # <<>> /\ r.hdr.ID = b /\ BlockHeaderExact(r)

TrueList(r, t) == Tidy(r, t) /\ \A b : Has(r, t, b) => TrueBlock(b, r[<<t, b>>])

TrueLists(r) == \A t \in Terms : TrueList(r, t)

\* No block is empty, and the postings are of S.
KnownIn(r, S) ==
  \A t \in Terms : \A b : Has(r, t, b) =>
    r[<<t, b>>].body # <<>> /\ \A f \in FIDsOf(r[<<t, b>>]) : <<t, f>> \in S

\* The records of an index are coded lists.
LEMMA RecordsCoded ==
  ASSUME NEW r, AreRecords(r, BlockKeys), NEW t
  PROVE  Coded(r, t) /\ CountsAreNat(r)
<1>1. \A k \in DOMAIN r : r[k].body \in Seq(Nat) /\ r[k].lh \in Nat
  BY DEF AreRecords, BlockRecords
<1>2. QED
  BY <1>1 DEF Coded, CountsAreNat, CountIn, Has

\* FIDs fit into a word.
LEMMA FIDsFit ==
  ASSUME NEW s \in Seq(1..MaxFID)
  PROVE  s \in Seq(FIDs32) /\ \A f \in ToSet(s) : f \in 1..MaxFID /\ f \in Nat
<1>1. 1..MaxFID \subseteq FIDs32 /\ 1..MaxFID \subseteq Nat
  BY CBSessionAssumption, FidModAssumption DEF FIDs32
<1>2. \A i \in 1..Len(s) : s[i] \in 1..MaxFID
  BY ElementOfSeq
<1>3. s \in Seq(FIDs32)
  <2> DEFINE X == 1..MaxFID
  <2>1. s \in Seq(X) /\ X \subseteq FIDs32
    BY <1>1
  <2> HIDE DEF X
  <2>2. QED
    BY <2>1
<1>4. QED
  BY <1>1, <1>2, <1>3 DEF ToSet

\* A chunk with the header it gets, for the end of list t.
Fitting(r, t, lh, hdr, code, chunk) ==
  /\ code \in Seq(Nat) /\ code # <<>> /\ chunk \in Seq(1..MaxFID) /\ chunk # <<>>
  /\ Rising(chunk) /\ \A f \in ToSet(chunk) : Before(r, t, f)
  /\ lh \in Nat \ {0} /\ lh \in {CountIn(r, t), CountIn(r, t) + 1}
  /\ hdr.ID = lh /\ hdr.FIDmax = Last(chunk)
  /\ hdr.BodySize = Len(code) + IF lh = CountIn(r, t) THEN r[<<t, lh>>].hdr.BodySize ELSE 0

\* It keeps the lists true.
LEMMA ChunkTrue ==
  ASSUME NEW r, AreRecords(r, BlockKeys), TrueLists(r), NEW w, NEW t \in Terms, NEW lh, NEW hdr,
         NEW code, NEW chunk, Extended(r, w, t, lh, hdr, code, chunk), Fitting(r, t, lh, hdr, code, chunk)
  PROVE  /\ TrueLists(w)
         /\ \A f : Before(r, t, f) /\ (\A g \in ToSet(chunk) : g < f) => Before(w, t, f)
         /\ \A u \in Terms \ {t} : \A f : Before(r, u, f) => Before(w, u, f)
<1> DEFINE old == IF Has(r, t, lh) THEN r[<<t, lh>>].body ELSE <<>>
<1>1. /\ CountIn(w, t) = lh
      /\ \A b : Has(w, t, b) <=> Has(r, t, b) \/ b = lh
      /\ w[<<t, lh>>].hdr = hdr /\ w[<<t, lh>>].body = old \o code
      /\ Decode(old \o code) = Decode(old) \o chunk
      /\ \A b : Has(r, t, b) /\ b # lh =>
           w[<<t, b>>].hdr = r[<<t, b>>].hdr /\ w[<<t, b>>].body = r[<<t, b>>].body
      /\ \A u, b : u # t => /\ Has(w, u, b) <=> Has(r, u, b)
                            /\ Has(r, u, b) => w[<<u, b>>] = r[<<u, b>>]
  BY Zenon DEF Extended
<1>2. /\ code \in Seq(Nat) /\ code # <<>> /\ chunk \in Seq(1..MaxFID) /\ chunk # <<>>
      /\ Rising(chunk) /\ \A f \in ToSet(chunk) : Before(r, t, f)
      /\ lh \in Nat \ {0} /\ lh \in {CountIn(r, t), CountIn(r, t) + 1}
      /\ hdr.ID = lh /\ hdr.FIDmax = Last(chunk)
      /\ hdr.BodySize = Len(code) + IF lh = CountIn(r, t) THEN r[<<t, lh>>].hdr.BodySize ELSE 0
  BY DEF Fitting
<1>3. chunk \in Seq(FIDs32)
  BY <1>2, FIDsFit
<1>4. Coded(r, t) /\ CountsAreNat(r) /\ \A u \in Terms : TrueList(r, u)
  BY RecordsCoded DEF TrueLists
<1>5. /\ Tidy(w, t)
      /\ \A f : Before(r, t, f) /\ (\A g \in ToSet(chunk) : g < f) => Before(w, t, f)
  BY <1>2, <1>3, <1>4, ExtendedTidy DEF TrueList
<1>6. old \in Seq(Nat)
  BY <1>4 DEF Coded
<1> HIDE DEF old
<1>7. TrueBlock(lh, w[<<t, lh>>])
  <2>1. old \o code # <<>>
    BY <1>2, <1>6
  <2>2. InOrder(w[<<t, lh>>])
    BY <1>1, <1>2, <1>5, lh \in 1..lh DEF Tidy
  <2>3. Last(Decode(old \o code)) = Last(chunk)
    <3> DEFINE u == Decode(old)
    <3>1. u \in Seq(FIDs32)
      BY <1>6, DecodeSums DEF SumsOf
    <3> HIDE DEF u
    <3>2. /\ Len(u \o chunk) = Len(u) + Len(chunk) /\ u \o chunk \in Seq(FIDs32)
          /\ \A j \in 1..Len(chunk) : (u \o chunk)[Len(u) + j] = chunk[j]
      BY <1>3, <3>1, ConcatElements
    <3>3. Len(chunk) \in 1..Len(chunk) /\ Len(u) \in Nat
      BY <1>2, <1>3, <3>1
    <3>4. Last(u \o chunk) = Last(chunk)
      BY <3>2, <3>3 DEF Last
    <3>5. QED
      BY <1>1, <3>4 DEF u
  <2>4. QED
    BY <1>1, <1>2, <2>1, <2>2, <2>3 DEF TrueBlock, BlockHeaderExact, InOrder
<1>8. ASSUME NEW b, Has(w, t, b) PROVE TrueBlock(b, w[<<t, b>>])
  <2>1. CASE b = lh
    BY <1>7, <2>1
  <2>2. CASE b # lh
    <3>1. TrueBlock(b, r[<<t, b>>])
      BY <1>1, <1>4, <1>8, <2>2 DEF TrueList
    <3>2. w[<<t, b>>].hdr = r[<<t, b>>].hdr /\ w[<<t, b>>].body = r[<<t, b>>].body
      BY <1>1, <1>8, <2>2
    <3>3. QED
      BY <3>1, <3>2 DEF TrueBlock, BlockHeaderExact
  <2>3. QED
    BY <2>1, <2>2
<1>9. ASSUME NEW u \in Terms, u # t
      PROVE  TrueList(w, u) /\ \A f : Before(r, u, f) => Before(w, u, f)
  <2>1. Tidy(r, u) /\ \A b : Has(r, u, b) => TrueBlock(b, r[<<u, b>>])
    BY <1>4 DEF TrueList
  <2>2. Tidy(w, u) /\ \A f : Before(r, u, f) => Before(w, u, f)
    BY <1>9, <2>1, OthersTidy
  <2>3. \A b : Has(w, u, b) => Has(r, u, b) /\ w[<<u, b>>] = r[<<u, b>>]
    BY <1>1, <1>9
  <2>4. \A b : Has(w, u, b) => TrueBlock(b, w[<<u, b>>])
    BY <2>1, <2>3
  <2>5. QED
    BY <2>2, <2>4 DEF TrueList
<1>10. TrueList(w, t)
  BY <1>5, <1>8 DEF TrueList
<1>11. QED
  BY <1>5, <1>9, <1>10 DEF TrueLists

\* What it holds is known if the chunk is.
LEMMA ChunkKnown ==
  ASSUME NEW r, AreRecords(r, BlockKeys), NEW S, KnownIn(r, S), NEW w, NEW t \in Terms, NEW lh, NEW hdr,
         NEW code, NEW chunk, Extended(r, w, t, lh, hdr, code, chunk), Fitting(r, t, lh, hdr, code, chunk),
         \A f \in ToSet(chunk) : <<t, f>> \in S
  PROVE  KnownIn(w, S)
<1> DEFINE old == IF Has(r, t, lh) THEN r[<<t, lh>>].body ELSE <<>>
<1>1. /\ \A b : Has(w, t, b) <=> Has(r, t, b) \/ b = lh
      /\ w[<<t, lh>>].body = old \o code
      /\ \A b : Has(r, t, b) /\ b # lh => w[<<t, b>>].body = r[<<t, b>>].body
      /\ \A u, b : u # t => /\ Has(w, u, b) <=> Has(r, u, b)
                            /\ Has(r, u, b) => w[<<u, b>>] = r[<<u, b>>]
  BY Zenon DEF Extended
<1>2. code \in Seq(Nat) /\ code # <<>> /\ chunk \in Seq(FIDs32)
  BY FIDsFit DEF Fitting
<1>3. Coded(r, t)
  BY RecordsCoded
<1>4. old \in Seq(Nat)
  BY <1>3 DEF Coded
<1> HIDE DEF old
<1>5. old \o code # <<>>
  BY <1>2, <1>4
<1>6. /\ \A f : f \in FIDsOf(w[<<t, lh>>]) <=>
                    (Has(r, t, lh) /\ f \in FIDsOf(r[<<t, lh>>])) \/ f \in ToSet(chunk)
      /\ \A b : Has(r, t, b) /\ b # lh => FIDsOf(w[<<t, b>>]) = FIDsOf(r[<<t, b>>])
  BY <1>2, <1>3, ExtendedFIDs
<1>7. ASSUME NEW u \in Terms, NEW b, Has(w, u, b)
      PROVE  w[<<u, b>>].body # <<>> /\ \A f \in FIDsOf(w[<<u, b>>]) : <<u, f>> \in S
  <2>1. Has(r, u, b) => r[<<u, b>>].body # <<>> /\ \A f \in FIDsOf(r[<<u, b>>]) : <<u, f>> \in S
    BY DEF KnownIn
  <2>2. CASE u # t
    BY <1>1, <1>7, <2>1, <2>2
  <2>3. CASE u = t /\ b # lh
    BY <1>1, <1>6, <1>7, <2>1, <2>3
  <2>4. CASE u = t /\ b = lh
    BY <1>1, <1>5, <1>6, <2>1, <2>4
  <2>5. QED
    BY <2>2, <2>3, <2>4
<1>8. QED
  BY <1>7 DEF KnownIn
-----------------------------------------------------------------------------
(* The lists as they will be once all that is cached or in the delta is    *)
(* merged, and what holds of them as long as no request fails.             *)

\* The records of the delta that are still to be merged.
Rest ==
  [k \in {x \in DOMAIN Written(delta) : pc = "merge" => x \in ToSet(mkeys)} |-> Written(delta)[k]]

\* The lists as they will be once the merge is over.
Whole == Plus(Written(main), Rest)

\* Nothing has failed.
NoFailure == ~failed /\ main.status = "ok" /\ delta.status = "ok"

\* What goes with the phases of a session.
Phases ==
  /\ pc \in {"flush", "batch", "end"} => open
  /\ pc = "merge" => ~open /\ op = "BUILD_MERGE" /\ IsInjective(mkeys)
                    /\ ToSet(mkeys) \subseteq DOMAIN Written(delta)
  /\ ~open /\ pc = "idle" => session = {} /\ DOMAIN Written(delta) = {}
  /\ job # NoJob => job.term \notin todo

\* What is cached and where, as CacheClean for the live index.
LiveCache ==
  /\ op = "BUILD" => DOMAIN Written(delta) = {}
  /\ op = "BUILD_MERGE" => DOMAIN main.cache = {}
  /\ pc \notin {"flush", "batch"} => DOMAIN main.cache = {}
  /\ pc = "flush" /\ main.clist \in todo => DOMAIN main.cache = {}
  /\ pc = "batch" => View(main) = Written(main)

ListsTrue ==
  /\ TrueLists(Whole)
  /\ KnownIn(Whole, accepted) /\ KnownIn(View(main), accepted)
  /\ pc # "merge" => TrueLists(View(main))

\* A list under way goes on from its last block.
JobTrue ==
  job # NoJob =>
    /\ Rising(job.rest) /\ job.lh = CountIn(Whole, job.term)
    /\ job.hdr = IF job.lh = 0 THEN NullHdr ELSE Whole[<<job.term, job.lh>>].hdr

\* What is cached increases.
CacheRises == open => \A t \in Terms : Rising(cache[t])

\* The postings of a list that are still to be appended to it.
Waiting(t) ==
  IF pc \in {"flush", "batch"}
  THEN IF t \in todo THEN ToSet(cache[t]) ELSE IF job # NoJob /\ job.term = t THEN ToSet(job.rest) ELSE {}
  ELSE IF open THEN ToSet(cache[t]) ELSE {}

\* They go behind all that is there.
Ahead == \A t \in Terms : \A f \in Waiting(t) : <<t, f>> \in accepted /\ Before(Whole, t, f)

\* What was acknowledged is in the lists and seen by a reader.
AckedRead == \A p \in acked : ReadIn(View(main), p[1], p[2]) /\ ReadIn(Whole, p[1], p[2])

\* What the session indexed is in a list or waits for it.
SessionSafe ==
  \A p \in session : ReadIn(Whole, p[1], p[2]) \/ (pc \notin {"end", "merge"} /\ p[2] \in Waiting(p[1]))

\* What is scheduled and not waited for.
Unsent ==
  /\ op = "BUILD_MERGE" => Len(main.sched) <= 1
  /\ op = "BUILD" => delta.sched = <<>>
  /\ pc \notin {"flush", "batch"} => Target.sched = <<>>
  /\ pc = "flush" /\ job = NoJob /\ DOMAIN Target.cache = {} => Target.sched = <<>>

\* All of that together.
Clean ==
  /\ NoFailure /\ Phases /\ LiveCache /\ ListsTrue /\ JobTrue
  /\ CacheRises /\ Ahead /\ AckedRead /\ SessionSafe /\ Unsent

CleanInv == troubles = 0 => Clean

\* The records r are the beginnings of the records w.
Under(r, w) ==
  \A k \in DOMAIN r : /\ k \in DOMAIN w /\ FIDsOf(r[k]) \subseteq FIDsOf(w[k])
                      /\ Rising(Decode(w[k].body)) => Rising(Decode(r[k].body))

\* A reader of them finds what they hold, in order.
LEMMA UnderRead ==
  ASSUME NEW r, NEW w, AreRecords(r, BlockKeys), AreRecords(w, BlockKeys), Under(r, w), NEW t \in Terms,
         TrueList(w, t), NEW S, KnownIn(r, S)
  PROVE  /\ StrictlyIncreasing(ListOf(BlocksOf(r, t)))
         /\ \A f : f \in ToSet(ListOf(BlocksOf(r, t))) <=> ReadIn(r, t, f)
         /\ BlocksIn(r, t, BlocksOf(r, t))
<1> DEFINE blocks == BlocksOf(r, t)
           n == CountIn(w, t)
<1>1. \A k \in DOMAIN r : k = <<k[1], k[2]>>
  BY DEF AreRecords, BlockKeys
<1>2. blocks = [id \in {k[2] : k \in {q \in DOMAIN r : q[1] = t}} |-> r[<<t, id>>]]
  BY DEF BlocksOf
<1> HIDE DEF blocks
<1>3. BlocksIn(r, t, blocks)
  BY <1>1, <1>2, BlocksGiven
<1>4. /\ \A b : Has(w, t, b) <=> b \in 1..n
      /\ \A b \in 1..n : InOrder(w[<<t, b>>])
      /\ \A b, c \in 1..n : b < c => Below(FIDsOf(w[<<t, b>>]), FIDsOf(w[<<t, c>>]))
  BY DEF TrueList, Tidy
<1>5. n \in Nat
  BY RecordsCoded DEF CountsAreNat
<1> HIDE DEF n
<1>6. ASSUME NEW b, Has(r, t, b)
      PROVE  /\ b \in 1..n /\ FIDsOf(r[<<t, b>>]) \subseteq FIDsOf(w[<<t, b>>])
             /\ Rising(Decode(r[<<t, b>>].body))
             /\ r[<<t, b>>].body \in Seq(Nat) /\ r[<<t, b>>].body # <<>>
  <2>1. Has(w, t, b)
    BY <1>6 DEF Under, Has
  <2>2. b \in 1..n /\ InOrder(w[<<t, b>>])
    BY <1>4, <2>1
  <2>3. r[<<t, b>>].body \in Seq(Nat)
    BY <1>6 DEF AreRecords, BlockRecords, Has
  <2>4. r[<<t, b>>].body # <<>>
    BY <1>6 DEF KnownIn
  <2>5. /\ FIDsOf(r[<<t, b>>]) \subseteq FIDsOf(w[<<t, b>>])
        /\ Rising(Decode(w[<<t, b>>].body)) => Rising(Decode(r[<<t, b>>].body))
    BY <1>6 DEF Under, Has
  <2>6. QED
    BY <2>2, <2>3, <2>4, <2>5 DEF InOrder
<1>7. IsFiniteSet(DOMAIN blocks)
  <2>1. DOMAIN blocks \subseteq 1..n
    BY <1>3, <1>6 DEF BlocksIn
  <2>2. IsFiniteSet(1..n)
    BY <1>5, FS_Interval
  <2> DEFINE S1 == 1..n
             S2 == DOMAIN blocks
  <2>3. S2 \in SUBSET S1 /\ IsFiniteSet(S1)
    BY <2>1, <2>2
  <2> HIDE DEF S1, S2
  <2>4. IsFiniteSet(S2)
    BY <2>3, FS_Subset
  <2>5. QED
    BY <2>4 DEF S2
<1>8. ASSUME NEW b, NEW c, Has(r, t, b), Has(r, t, c), b < c
      PROVE  Below(FIDsOf(r[<<t, b>>]), FIDsOf(r[<<t, c>>]))
  <2>1. Below(FIDsOf(w[<<t, b>>]), FIDsOf(w[<<t, c>>]))
    BY <1>4, <1>6, <1>8
  <2>2. QED
    BY <1>6, <1>8, <2>1 DEF Below
<1>9. \A f : f \in ToSet(ListOf(blocks)) <=> ReadIn(r, t, f)
  BY <1>3, <1>6, <1>7, BlocksRead
<1>10. StrictlyIncreasing(ListOf(blocks))
  BY <1>3, <1>6, <1>7, <1>8, BlocksRise
<1>11. QED
  BY <1>3, <1>9, <1>10 DEF blocks

-----------------------------------------------------------------------------
(* What the lists as a whole tell of those a reader finds.                 *)

\* The records there are.
LEMMA WholeTypes ==
  ASSUME TypeInv
  PROVE  /\ AreRecords(View(main), BlockKeys) /\ AreRecords(Written(main), BlockKeys)
         /\ AreRecords(Written(delta), BlockKeys) /\ AreRecords(Rest, BlockKeys)
         /\ AreRecords(Whole, BlockKeys)
<1>1. IsIndex(main) /\ IsIndex(delta)
  BY DEF TypeInv
<1>2. AreRecords(View(main), BlockKeys)
  BY <1>1, StoredType DEF View
<1>3. AreRecords(Written(main), BlockKeys) /\ AreRecords(Written(delta), BlockKeys)
  BY <1>1, WrittenAt
<1> DEFINE w == Written(delta)
<1>4. AreRecords(Rest, BlockKeys)
  <2> DEFINE D == {x \in DOMAIN w : pc = "merge" => x \in ToSet(mkeys)}
  <2>1. AreRecords(w, BlockKeys)
    BY <1>3
  <2>2. Rest = [k \in D |-> w[k]]
    BY DEF Rest
  <2> HIDE DEF w
  <2>3. D \subseteq BlockKeys /\ \A k \in D : w[k] \in BlockRecords
    BY <2>1 DEF AreRecords
  <2> HIDE DEF D
  <2>4. QED
    BY <2>2, <2>3 DEF AreRecords
<1>5. AreRecords(Whole, BlockKeys)
  <2> DEFINE m == Written(main)
             r == Rest
  <2>1. AreRecords(m, BlockKeys) /\ AreRecords(r, BlockKeys)
    BY <1>3, <1>4
  <2> HIDE DEF m, r
  <2>2. AreRecords(Plus(m, r), BlockKeys)
    BY <2>1, PlusType
  <2>3. QED
    BY <2>2 DEF m, r, Whole
<1>6. QED
  BY <1>2, <1>3, <1>4, <1>5

\* Before the merge all of the delta is still to be merged, and without a
\* delta the records are those of the live index.
LEMMA WholeIs ==
  ASSUME TypeInv
  PROVE  /\ pc # "merge" => Rest = Written(delta)
         /\ pc # "merge" => Whole = Plus(Written(main), Written(delta))
         /\ DOMAIN Rest = {} => Whole = Written(main)
         /\ DOMAIN Written(delta) = {} => Whole = Written(main)
<1> DEFINE w == Written(delta)
           m == Written(main)
<1>1. AreRecords(m, BlockKeys) /\ AreRecords(w, BlockKeys)
  BY WholeTypes
<1>2. ASSUME pc # "merge" PROVE Rest = w
  <2>1. Rest = [k \in DOMAIN w |-> w[k]]
    BY <1>2 DEF Rest
  <2> HIDE DEF w
  <2>2. QED
    BY <1>1, <2>1 DEF AreRecords
<1>3. ASSUME DOMAIN Rest = {} PROVE Whole = m
  <2> DEFINE r == Rest
  <2>1. DOMAIN r = {}
    BY <1>3
  <2> HIDE DEF m, r
  <2>2. Plus(m, r) = m
    BY <1>1, <2>1, PlusNone
  <2>3. QED
    BY <2>2 DEF m, r, Whole
<1>4. DOMAIN w = {} => DOMAIN Rest = {}
  BY DEF Rest
<1>5. QED
  BY <1>2, <1>3, <1>4 DEF Whole

\* A flush writes to one of the indexes.
LEMMA TwoOps ==
  ASSUME TypeInv
  PROVE  op \in {"BUILD", "BUILD_MERGE"}
BY CBSessionAssumption DEF TypeInv, ScalarTypes

\* In the build mode the lists are those of the live index; in the other one
\* nothing is cached for it.
LEMMA CleanWhole ==
  ASSUME TypeInv, Clean
  PROVE  /\ op = "BUILD" => Whole = Written(main) /\ Target = main
         /\ op = "BUILD_MERGE" => Written(main) = View(main) /\ Target = delta
         /\ DOMAIN main.cache = {} => Written(main) = View(main)
<1>1. op = "BUILD" => Whole = Written(main)
  BY WholeIs DEF Clean, LiveCache
<1>2. DOMAIN main.cache = {} => Written(main) = View(main)
  BY WrittenViews
<1>3. QED
  BY <1>1, <1>2 DEF Clean, LiveCache, Target

\* What a reader finds in a list.
LEMMA ReaderFinds ==
  ASSUME TypeInv, Clean, NEW t \in Terms
  PROVE  /\ StrictlyIncreasing(Postings(main, t))
         /\ \A f : f \in ToSet(Postings(main, t)) <=> ReadIn(View(main), t, f)
         /\ BlocksIn(View(main), t, BlocksOf(View(main), t))
<1> DEFINE v == View(main)
           w == IF pc = "merge" THEN Whole ELSE v
<1>1. AreRecords(v, BlockKeys) /\ AreRecords(w, BlockKeys)
  BY WholeTypes
<1>2. KnownIn(v, accepted) /\ TrueList(w, t)
  BY DEF Clean, ListsTrue, TrueLists
<1>3. Under(v, w)
  <2>1. CASE pc = "merge"
    <3>1. Written(main) = v /\ w = Whole
      BY <2>1, CleanWhole DEF Clean, LiveCache
    <3> DEFINE r == Rest
    <3>2. w = Plus(v, r) /\ AreRecords(r, BlockKeys)
      BY <3>1, WholeTypes DEF Whole
    <3> HIDE DEF v, w, r
    <3>3. \A k \in DOMAIN v : /\ k \in DOMAIN Plus(v, r)
                              /\ FIDsOf(v[k]) \subseteq FIDsOf(Plus(v, r)[k])
                              /\ Rising(Decode(Plus(v, r)[k].body)) => Rising(Decode(v[k].body))
      BY <1>1, <3>2, PlusUnder
    <3>4. QED
      BY <3>2, <3>3 DEF Under
  <2>2. CASE pc # "merge"
    BY <2>2 DEF Under
  <2>3. QED
    BY <2>1, <2>2
<1> HIDE DEF w
<1>4. /\ StrictlyIncreasing(ListOf(BlocksOf(v, t)))
      /\ \A f : f \in ToSet(ListOf(BlocksOf(v, t))) <=> ReadIn(v, t, f)
      /\ BlocksIn(v, t, BlocksOf(v, t))
  <2> HIDE DEF v
  <2>1. QED
    BY <1>1, <1>2, <1>3, UnderRead
<1>5. QED
  BY <1>4 DEF Postings

\* The lists can be relied on as long as nothing failed.
LEMMA CleanLists == TypeInv /\ CleanInv => ListsSound
<1> SUFFICES ASSUME TypeInv, CleanInv PROVE HeadersExact /\ ListsIncrease
  BY InvTypes DEF ListsSound
<1>1. Untroubled => Clean
  BY DEF Untroubled, CleanInv
<1>2. ListsIncrease
  BY <1>1, ReaderFinds DEF ListsIncrease
<1>3. ASSUME Untroubled, pc # "merge", NEW t \in Terms, NEW blocks, blocks = BlocksOf(View(main), t)
      PROVE  /\ DOMAIN blocks = 1..GetPListHeader(main, t)
             /\ \A b \in DOMAIN blocks : blocks[b].hdr.ID = b /\ BlockHeaderExact(blocks[b])
  <2>1. BlocksIn(View(main), t, blocks)
    BY <1>1, <1>3, ReaderFinds
  <2>2. TrueList(View(main), t)
    BY <1>1, <1>3 DEF Clean, ListsTrue, TrueLists
  <2>3. GetPListHeader(main, t) = CountIn(View(main), t)
    BY CountRead
  <2>4. DOMAIN blocks = 1..GetPListHeader(main, t)
    BY <2>1, <2>2, <2>3 DEF BlocksIn, TrueList, Tidy
  <2>5. ASSUME NEW b \in DOMAIN blocks
        PROVE  blocks[b].hdr.ID = b /\ BlockHeaderExact(blocks[b])
    <3>1. Has(View(main), t, b) /\ blocks[b] = View(main)[<<t, b>>]
      BY <2>1 DEF BlocksIn
    <3>2. TrueBlock(b, View(main)[<<t, b>>])
      BY <2>2, <3>1 DEF TrueList
    <3>3. QED
      BY <3>1, <3>2 DEF TrueBlock
  <2>6. QED
    BY <2>4, <2>5
<1>4. HeadersExact
  BY <1>3 DEF HeadersExact
<1>5. QED
  BY <1>2, <1>4

\* And what was acknowledged is in them.
LEMMA CleanAcked == TypeInv /\ CleanInv => AckedSafe
<1> SUFFICES ASSUME TypeInv, CleanInv, Untroubled
             PROVE  /\ acked \subseteq PostingSet(main)
                    /\ pc = "idle" /\ ~open => Len(main.sched) <= 1 /\ delta.sched = <<>>
  BY DEF AckedSafe, AckedKept, OneStoreUnsent
<1>1. Clean
  BY DEF Untroubled, CleanInv
<1>2. ASSUME NEW p \in acked PROVE p \in PostingSet(main)
  <2>1. PICK t \in Terms, f \in 1..MaxFID : p = <<t, f>>
    BY DEF TypeInv, ScalarTypes
  <2>2. p[1] = t /\ p[2] = f
    BY <2>1
  <2>3. ReadIn(View(main), t, f)
    BY <1>1, <2>2 DEF Clean, AckedRead
  <2>4. f \in ToSet(Postings(main, t))
    BY <1>1, <2>3, ReaderFinds
  <2>5. QED
    BY <2>1, <2>4 DEF PostingSet
<1>3. ASSUME pc = "idle", ~open PROVE Len(main.sched) <= 1 /\ delta.sched = <<>>
  <2>1. Unsent
    BY <1>1 DEF Clean
  <2>2. CASE op = "BUILD"
    <3>1. main.sched = <<>> /\ delta.sched = <<>>
      BY <1>1, <1>3, <2>1, <2>2, CleanWhole DEF Unsent
    <3>2. Len(<<>>) <= 1
      OBVIOUS
    <3>3. QED
      BY <3>1, <3>2
  <2>3. CASE op = "BUILD_MERGE"
    BY <1>1, <1>3, <2>1, <2>3, CleanWhole DEF Unsent
  <2>4. QED
    BY <2>2, <2>3, TwoOps
<1>4. QED
  BY <1>2, <1>3

-----------------------------------------------------------------------------
(* A list is started, and a chunk taken of what is cached for it.          *)

\* A wait in which nothing fails finds nothing failed; the other operations
\* leave the status alone.
LEMMA StatusKept ==
  ASSUME NEW ix, IsIndex(ix)
  PROVE  /\ ix.status = "ok" => \A w \in Waits(ix, "none") : w.status = "ok"
         /\ WriteCached(ix).status = ix.status /\ FlushedCache(ix).status = ix.status
         /\ Close(ix).status = ix.status /\ ResetCaches(ix).status = ix.status
         /\ Drop(ix).status \in {ix.status, "ok"}
         /\ \A t : SwitchList(ix, t).status = ix.status
         /\ \A t, b, r : WriteBlock(ix, t, b, r).status = ix.status
<1>1. ASSUME ix.status = "ok", NEW w \in Waits(ix, "none") PROVE w.status = "ok"
  <2>1. w \in Wait(ix, {})
    BY <1>1 DEF Waits
  <2>2. PICK s \in Statuses(ix, {}) :
          w = [ix EXCEPT !.server = Stored(ix, {}), !.sched = <<>>, !.status = s]
    BY <2>1 DEF Wait
  <2>3. s = "ok"
    BY <1>1, <2>2 DEF Statuses
  <2>4. QED
    BY <2>2, <2>3 DEF IsIndex
<1>2. WriteCached(ix).status = ix.status
  BY DEF WriteCached, IsIndex
<1>3. /\ FlushedCache(ix).status = ix.status /\ Close(ix).status = ix.status
      /\ Drop(ix).status \in {ix.status, "ok"} /\ ResetCaches(ix).status = ix.status
  BY DEF FlushedCache, Close, Drop, ResetCaches, IsIndex
<1>4. \A t : SwitchList(ix, t).status = ix.status
  BY DEF SwitchList, IsIndex
<1>5. \A t, b, r : WriteBlock(ix, t, b, r).status = ix.status
  BY DEF WriteBlock, IsIndex
<1>6. QED
  BY <1>1, <1>2, <1>3, <1>4, <1>5

\* The last posting of a block is one of its postings.
LEMMA LastFID ==
  ASSUME NEW body \in Seq(Nat), body # <<>>
  PROVE  Last(Decode(body)) \in ToSet(Decode(body))
<1>1. Len(body) \in Nat \ {0}
  BY EmptySeq
<1>2. Decode(body) \in Seq(FIDs32) /\ Len(Decode(body)) = Len(body)
  BY DecodeSums DEF SumsOf
<1> DEFINE u == Decode(body)
<1>3. u \in Seq(FIDs32) /\ Len(u) \in Nat \ {0}
  BY <1>1, <1>2
<1> HIDE DEF u
<1>4. Len(u) \in DOMAIN u /\ Last(u) = u[Len(u)]
  BY <1>3 DEF Last
<1>5. QED
  BY <1>4 DEF u, ToSet

\* Where a list under way goes on.
LEMMA JobPlace ==
  ASSUME TypeInv, Clean, job # NoJob, NEW t, t = job.term
  PROVE  /\ t \in Terms /\ t \notin todo /\ pc \in {"flush", "batch"} /\ open
         /\ Waiting(t) = ToSet(job.rest) /\ Rising(job.rest)
         /\ job.lh = CountIn(Whole, t) /\ job.lh \in Nat
         /\ \A b : Has(Whole, t, b) <=> b \in 1..job.lh
         /\ job.lh = 0 => job.hdr = NullHdr
         /\ job.lh # 0 => /\ Has(Whole, t, job.lh) /\ TrueBlock(job.lh, Whole[<<t, job.lh>>])
                          /\ job.hdr = Whole[<<t, job.lh>>].hdr
<1>1. t \in Terms /\ pc \in {"flush", "batch"}
  BY DEF TypeInv, JobHasPostings, JobInFlush
<1>2. t \notin todo /\ open
  BY <1>1 DEF Clean, Phases
<1>3. Waiting(t) = ToSet(job.rest)
  BY <1>1, <1>2 DEF Waiting
<1>4. /\ Rising(job.rest) /\ job.lh = CountIn(Whole, t)
      /\ job.hdr = IF job.lh = 0 THEN NullHdr ELSE Whole[<<t, job.lh>>].hdr
  BY DEF Clean, JobTrue
<1>5. job.lh \in Nat
  BY DEF TypeInv, CallTypes, Jobs
<1>6. TrueList(Whole, t)
  BY <1>1 DEF Clean, ListsTrue, TrueLists
<1>7. \A b : Has(Whole, t, b) <=> b \in 1..job.lh
  BY <1>4, <1>6 DEF TrueList, Tidy
<1>8. job.lh # 0 => Has(Whole, t, job.lh) /\ TrueBlock(job.lh, Whole[<<t, job.lh>>])
  <2>1. job.lh # 0 => job.lh \in 1..job.lh
    BY <1>5
  <2>2. QED
    BY <1>6, <1>7, <2>1 DEF TrueList
<1>9. QED
  BY <1>1, <1>2, <1>3, <1>4, <1>5, <1>7, <1>8

\* The pieces of the list under way that a chunk is.
LEMMA ChunkPiece ==
  ASSUME TypeInv, job # NoJob
  PROVE  /\ Last(Chunk) \in ToSet(job.rest) /\ Last(Chunk) \in ToSet(Chunk)
         /\ \E n \in 1..Len(job.rest) : Chunk = SubSeq(job.rest, 1, n) /\ Len(Chunk) = n
<1> DEFINE r == job.rest
           n == IF Len(r) < ChunkLimit THEN Len(r) ELSE ChunkLimit
<1>1. r \in Seq(1..MaxFID) /\ r # <<>>
  BY DEF TypeInv, CallTypes, Jobs, JobHasPostings
<1>2. Chunk \in Seq(1..MaxFID) /\ Len(Chunk) \in 1..Len(r)
  BY ChunkType
<1>3. Chunk = SubSeq(r, 1, n)
  BY DEF Chunk
<1> DEFINE X == 1..MaxFID
<1>4. r \in Seq(X) /\ Chunk \in Seq(X)
  BY <1>1, <1>2
<1> HIDE DEF X, r
<1>5. Len(r) \in Nat \ {0} /\ ChunkLimit \in Nat \ {0}
  BY <1>1, EmptySeq, CBSessionAssumption
<1>6. n \in 1..Len(r)
  BY <1>5
<1> HIDE DEF n
<1>7. Len(Chunk) = n /\ \A i \in 1..n : Chunk[i] = r[i]
  BY <1>3, <1>4, <1>5, <1>6
<1>8. Last(Chunk) = r[n] /\ n \in DOMAIN r /\ n \in DOMAIN Chunk /\ Chunk[n] = r[n]
  BY <1>4, <1>5, <1>6, <1>7 DEF Last
<1>9. Last(Chunk) \in ToSet(r) /\ Last(Chunk) \in ToSet(Chunk)
  BY <1>8 DEF ToSet
<1>10. QED
  BY <1>3, <1>6, <1>7, <1>9 DEF r

\* No chunk is refused.
LEMMA JobAllowed ==
  ASSUME TypeInv, Clean, job # NoJob
  PROVE  ValidChunk
<1>0. PICK t : t = job.term
  OBVIOUS
<1>1. /\ t \in Terms /\ Waiting(t) = ToSet(job.rest) /\ job.lh = CountIn(Whole, t) /\ job.lh \in Nat
      /\ job.lh = 0 => job.hdr = NullHdr
      /\ job.lh # 0 => /\ Has(Whole, t, job.lh) /\ TrueBlock(job.lh, Whole[<<t, job.lh>>])
                       /\ job.hdr = Whole[<<t, job.lh>>].hdr
  BY <1>0, JobPlace
<1>2. Last(Chunk) \in ToSet(job.rest) /\ Last(Chunk) \in 1..MaxFID
  BY ChunkPiece, ChunkType
<1>3. Before(Whole, t, Last(Chunk))
  BY <1>1, <1>2 DEF Clean, Ahead
<1>4. CASE job.lh = 0
  <2>1. job.hdr.FIDmax = 0
    BY <1>1, <1>4 DEF NullHdr
  <2>2. Last(Chunk) > 0
    BY <1>2, CBSessionAssumption
  <2>3. QED
    BY <2>1, <2>2 DEF ValidChunk
<1>5. CASE job.lh # 0
  <2> DEFINE b == Whole[<<t, job.lh>>]
  <2>1. b.body # <<>> /\ job.hdr.FIDmax = Last(Decode(b.body))
    BY <1>1, <1>5 DEF TrueBlock, BlockHeaderExact
  <2>2. b.body \in Seq(Nat)
    BY <1>1, <1>5, WholeTypes DEF Has, AreRecords, BlockRecords
  <2>3. \A g \in FIDsOf(b) : g < Last(Chunk)
    <3>1. job.lh \in 1..CountIn(Whole, t)
      BY <1>1, <1>5
    <3>2. QED
      BY <1>3, <3>1 DEF Before
  <2>4. job.hdr.FIDmax \in FIDsOf(b)
    BY <2>1, <2>2, LastFID DEF FIDsOf
  <2> HIDE DEF b
  <2>5. job.hdr.FIDmax < Last(Chunk)
    BY <2>3, <2>4
  <2>6. job.hdr.FIDmax \in Nat /\ Last(Chunk) \in Nat
    <3>1. job.hdr \in Headers
      BY DEF TypeInv, CallTypes, Jobs
    <3>2. job.hdr.FIDmax \in Nat
      BY <3>1 DEF Headers
    <3>3. QED
      BY <1>2, <3>2, CBSessionAssumption
  <2>7. QED
    BY <2>5, <2>6 DEF ValidChunk
<1>6. QED
  BY <1>4, <1>5

\* Of a list still to be flushed no block is cached, here for the live index.
LEMMA TodoLive ==
  ASSUME TypeInv, Clean, pc = "flush", NEW t \in todo, NEW b
  PROVE  At(Written(main), <<t, b>>) = At(View(main), <<t, b>>)
         /\ (Has(Written(main), t, b) <=> Has(View(main), t, b))
<1> DEFINE k == <<t, b>>
<1>1. k \notin CachedKeys(main)
  BY DEF CachedKeys, Clean, LiveCache
<1> HIDE DEF k
<1>2. /\ k \in DOMAIN Written(main) <=> k \in DOMAIN View(main)
      /\ k \in DOMAIN View(main) => Written(main)[k] = View(main)[k]
  BY <1>1, WrittenAt DEF TypeInv
<1>3. QED
  BY <1>2 DEF At, Has, k

\* The list header and the block header a flush starts a list from are those
\* of the list with all that is to be merged.
LEMMA CleanStart ==
  ASSUME TypeInv, op = "BUILD_MERGE" => MergeInv, Clean, pc = "flush", NEW t \in todo,
         NEW lh, lh = ListHeader(t)
  PROVE  /\ lh = CountIn(Whole, t)
         /\ lh # 0 => BlockHeader(t, lh) = Whole[<<t, lh>>].hdr /\ BlockHeader(t, lh) # NullHdr
<1> DEFINE v == View(main)
           k == <<t, lh>>
<1>1. /\ t \in Terms /\ TrueList(Whole, t) /\ CountIn(Whole, t) \in Nat
  <2>1. t \in Terms
    BY DEF TypeInv, ScalarTypes
  <2>2. QED
    BY <2>1, WholeTypes, RecordsCoded DEF CountsAreNat, Clean, ListsTrue, TrueLists
<1>2. \A b : Has(Whole, t, b) <=> b \in 1..CountIn(Whole, t)
  BY <1>1 DEF TrueList, Tidy
<1>3. GetPListHeader(main, t) = CountIn(v, t) /\ GetPListBlockHeader(main, t, lh) = At(v, k).hdr
  BY CountRead DEF GetPListBlockHeader, ReadBlock, At
<1>4. lh = CountIn(Whole, t) /\ BlockHeader(t, lh) = At(Whole, k).hdr
  <2>1. CASE op = "BUILD"
    <3>1. ~DeltaFirst
      BY <2>1 DEF DeltaFirst
    <3>2. ListHeader(t) = CountIn(v, t) /\ BlockHeader(t, lh) = At(v, k).hdr
      BY <1>3, <3>1 DEF ListHeader, BlockHeader
    <3>3. /\ At(Written(main), k) = At(v, k) /\ At(Written(main), <<t, 1>>) = At(v, <<t, 1>>)
          /\ Has(Written(main), t, 1) <=> Has(v, t, 1)
      BY TodoLive
    <3>4. CountIn(Written(main), t) = CountIn(v, t)
      BY <3>3 DEF CountIn, At, Has
    <3>5. Whole = Written(main)
      BY <2>1, CleanWhole
    <3>6. QED
      BY <3>2, <3>3, <3>4, <3>5
  <2>2. CASE op = "BUILD_MERGE"
    <3> DEFINE d == Written(delta)
    <3>1. MergeInv
      BY <2>2
    <3>2. lh = IF CountIn(d, t) # 0 THEN CountIn(d, t) ELSE CountIn(v, t)
      BY <1>3, <2>2, <3>1, ListStarts DEF DeltaCount
    <3>3. Whole = Plus(v, d) /\ AreRecords(v, BlockKeys) /\ AreRecords(d, BlockKeys)
      BY <2>2, CleanWhole, WholeIs, WholeTypes
    <3>4. GetPListBlockHeader(delta, t, lh) = At(d, k).hdr
      <4>1. (k \in DOMAIN d <=> k \in DOMAIN View(delta)) /\ (k \in DOMAIN View(delta) => d[k] = View(delta)[k])
        BY <3>1, TodoRead
      <4> HIDE DEF d
      <4>2. QED
        BY <4>1 DEF GetPListBlockHeader, ReadBlock, At
    <3>5. ~DeltaFirst => k \notin DOMAIN d
      <4>1. run # 0
        BY <3>1 DEF Clean, Phases, MergeInv, DeltaStarts
      <4>2. ~DeltaFirst => run = 1
        BY <2>2 DEF DeltaFirst
      <4>3. run = 1 => \A x \in DOMAIN d : x[1] # t
        BY <3>1 DEF MergeInv, DeltaStarts
      <4>4. k[1] = t
        OBVIOUS
      <4> HIDE DEF d, k
      <4>5. QED
        BY <4>2, <4>3, <4>4
    <3>6. BlockHeader(t, lh) = IF At(d, k).hdr # NullHdr THEN At(d, k).hdr ELSE At(v, k).hdr
      <4>1. k \notin DOMAIN d => At(d, k).hdr = NullHdr
        BY DEF At, NoBlock
      <4> HIDE DEF d, k, v
      <4>2. QED
        BY <1>3, <3>4, <3>5, <4>1 DEF BlockHeader
    <3> HIDE DEF d, v, k
    <3>7. JoinOf(At(Whole, k), At(v, k), At(d, k))
      BY <3>3, PlusParts
    <3>8. CountIn(Whole, t) = IF Has(d, t, 1) THEN CountIn(d, t) ELSE CountIn(v, t)
      BY <3>3, PlusCount
    <3>9. Has(d, t, 1) => CountIn(d, t) # 0
      <4>1. Has(d, t, 1) => Has(Whole, t, 1)
        BY <3>3, PlusAt DEF Has
      <4>2. QED
        BY <1>1, <1>2, <3>8, <4>1
    <3>10. ~Has(d, t, 1) => CountIn(d, t) = 0
      BY DEF CountIn
    <3>11. lh = CountIn(Whole, t)
      BY <3>2, <3>8, <3>9, <3>10
    <3>12. QED
      BY <3>6, <3>7, <3>11 DEF JoinOf
  <2>3. QED
    BY <2>1, <2>2, TwoOps
<1>5. ASSUME lh # 0 PROVE At(Whole, k).hdr = Whole[k].hdr /\ Whole[k].hdr # NullHdr
  <2>1. lh \in 1..CountIn(Whole, t)
    BY <1>1, <1>4, <1>5
  <2>2. Has(Whole, t, lh)
    BY <1>2, <2>1
  <2>3. Whole[k].hdr.ID = lh
    BY <1>1, <2>2 DEF TrueList, TrueBlock
  <2>4. QED
    BY <1>5, <2>2, <2>3 DEF At, Has, NullHdr
<1>6. QED
  BY <1>4, <1>5

-----------------------------------------------------------------------------
(* Steps outside a flush keep the lists true.                              *)

\* No records, no lists.
LEMMA EmptyTrue ==
  ASSUME NEW r, DOMAIN r = {}
  PROVE  TrueLists(r) /\ \A S : KnownIn(r, S)
<1>1. \A t, b : ~Has(r, t, b)
  BY DEF Has
<1>2. \A t : CountIn(r, t) = 0
  BY <1>1 DEF CountIn
<1>3. \A t : TrueList(r, t)
  BY <1>1, <1>2 DEF TrueList, Tidy
<1>4. QED
  BY <1>1, <1>3 DEF TrueLists, KnownIn

\* What is known stays known.
LEMMA KnownMore ==
  ASSUME NEW r, NEW S, KnownIn(r, S), NEW T, S \subseteq T
  PROVE  KnownIn(r, T)
BY DEF KnownIn

\* The lists as a whole stay as they are, and a reader sees what it saw or
\* all of them.
LEMMA SameLists ==
  ASSUME Clean, NEW v, v = View(main'), Whole' = Whole, v \in {View(main), Whole}, accepted \subseteq accepted',
         pc' # "merge" => pc # "merge" \/ v = Whole
  PROVE  ListsTrue' /\ (acked' = acked => AckedRead')
<1>1. KnownIn(Whole, accepted') /\ KnownIn(v, accepted')
  BY KnownMore DEF Clean, ListsTrue
<1>2. TrueLists(Whole) /\ (pc' # "merge" => TrueLists(v))
  BY DEF Clean, ListsTrue
<1>3. ListsTrue'
  BY <1>1, <1>2 DEF ListsTrue
<1>4. acked' = acked => AckedRead'
  BY DEF Clean, AckedRead
<1>5. QED
  BY <1>3, <1>4

\* Nothing is indexed, appended or merged.
LEMMA TasksKept ==
  ASSUME Clean, Whole' = Whole, UNCHANGED <<open, cache, job, accepted, session>>,
         \A t \in Terms : Waiting(t)' = Waiting(t), session \subseteq Terms \X (1..MaxFID),
         pc' \in {"end", "merge"} => pc \in {"end", "merge"}
  PROVE  JobTrue' /\ CacheRises' /\ Ahead' /\ SessionSafe'
<1>1. JobTrue'
  BY DEF Clean, JobTrue
<1>2. CacheRises'
  BY DEF Clean, CacheRises
<1>3. Ahead'
  BY DEF Clean, Ahead
<1>4. SessionSafe'
  BY DEF Clean, SessionSafe
<1>5. QED
  BY <1>1, <1>2, <1>3, <1>4

\* Nothing to close.
LEMMA CloseSame ==
  ASSUME NEW ix, IsIndex(ix), ix.sched = <<>>
  PROVE  Close(ix) = ix
BY DEF Close, IsIndex

\* A reset of empty caches changes no record.
LEMMA ResetSame ==
  ASSUME NEW ix, IsIndex(ix), DOMAIN ix.cache = {}
  PROVE  /\ View(ResetCaches(ix)) = View(ix) /\ Written(ResetCaches(ix)) = Written(ix)
         /\ ResetCaches(ix).sched = ix.sched /\ ResetCaches(ix).status = ix.status
         /\ DOMAIN ResetCaches(ix).cache = {}
<1> DEFINE w == ResetCaches(ix)
<1>1. /\ w.server = ix.server /\ w.sched = ix.sched /\ w.status = ix.status /\ w.cache = NoRecords
  BY DEF ResetCaches, IsIndex
<1> HIDE DEF w
<1>2. View(w) = View(ix)
  BY <1>1 DEF View, Stored, StoresOn
<1>3. DOMAIN w.cache = {}
  BY <1>1, NewType
<1>4. Written(w) = View(w) /\ Written(ix) = View(ix)
  BY <1>3, WrittenViews
<1>5. QED
  BY <1>1, <1>2, <1>3, <1>4 DEF w

\* Between sessions the delta has nothing.
LEMMA CleanIdle ==
  ASSUME TypeInv, Clean, pc = "idle"
  PROVE  /\ job = NoJob /\ DOMAIN main.cache = {}
         /\ ~open => DOMAIN delta.cache = {} /\ DOMAIN Written(delta) = {} /\ session = {}
         /\ Target.sched = <<>> /\ delta.sched = <<>>
<1>1. job = NoJob /\ DOMAIN main.cache = {} /\ Target.sched = <<>>
  BY DEF TypeInv, JobInFlush, Clean, LiveCache, Unsent
<1>2. delta.sched = <<>>
  BY <1>1, CleanWhole, TwoOps DEF Clean, Unsent
<1>3. ~open => DOMAIN Written(delta) = {} /\ session = {}
  BY DEF Clean, Phases
<1>4. DOMAIN Written(delta) = {} => DOMAIN delta.cache = {}
  <2>1. DOMAIN Written(delta) = DOMAIN View(delta) \cup CachedKeys(delta)
    BY WrittenAt DEF TypeInv
  <2>2. CachedKeys(delta) = {} => DOMAIN delta.cache = {}
    BY DEF CachedKeys
  <2>3. QED
    BY <2>1, <2>2
<1>5. QED
  BY <1>1, <1>2, <1>3, <1>4

\* Steps that leave alone what there is to say of.
LEMMA SameClean ==
  ASSUME TypeInv, Clean,
         UNCHANGED <<open, cache, op, main, delta, pc, todo, job, mkeys, failed, accepted, session, acked>>
  PROVE  Clean'
<1>1. Rest' = Rest /\ Target' = Target
  BY DEF Rest, Target
<1>2. Whole' = Whole
  BY <1>1 DEF Whole
<1>3. \A t \in Terms : Waiting(t)' = Waiting(t)
  BY DEF Waiting
<1>4. ListsTrue' /\ AckedRead'
  BY <1>2, SameLists
<1>5. JobTrue' /\ CacheRises' /\ Ahead' /\ SessionSafe'
  BY <1>2, <1>3, TasksKept DEF TypeInv, ScalarTypes
<1>6. NoFailure' /\ Phases' /\ LiveCache' /\ Unsent'
  BY <1>1 DEF Clean, NoFailure, Phases, LiveCache, Unsent
<1>7. QED
  BY <1>4, <1>5, <1>6 DEF Clean

\* The index is opened, read and closed.
LEMMA StoreClean ==
  ASSUME TypeInv, Clean, ReadsLast, troubles' = 0, OpenStore \/ ReadList \/ CloseStore \/ UNCHANGED vars
  PROVE  Clean'
<1>0. IsIndex(main) /\ IsIndex(delta)
  BY DEF TypeInv
<1>1. CASE OpenStore
  BY <1>1, SameClean DEF OpenStore, indexer, call, history
<1>2. CASE UNCHANGED vars
  BY <1>2, SameClean DEF vars, indexer, store, call, history
<1>3. CASE CloseStore
  <2>1. /\ pc = "idle" /\ main.sched = <<>>
        /\ main' = Close(main) /\ delta' = Close(delta)
        /\ UNCHANGED <<open, cache, op, pc, todo, job, mkeys, failed, accepted, session, acked>>
    BY <1>3 DEF CloseStore, indexer, call, history
  <2>2. delta.sched = <<>>
    BY <2>1, CleanIdle
  <2>3. main' = main /\ delta' = delta
    BY <1>0, <2>1, <2>2, CloseSame
  <2>4. QED
    BY <2>1, <2>3, SameClean
<1>4. CASE ReadList
  <2>1. /\ pc = "idle" /\ ~open
        /\ UNCHANGED <<open, cache, op, pc, todo, job, mkeys, failed, accepted, session, acked, delta>>
    BY <1>4 DEF ReadList, indexer, call, history
  <2>2. PICK fault \in Faults : Count(fault) /\ main' \in Waits(main, fault)
    BY <1>4 DEF ReadList
  <2>3. main' \in Waits(main, "none")
    BY <2>2, NoFault
  <2>4. /\ View(main') = View(main) /\ Written(main') = Written(main)
        /\ main'.status = "ok" /\ main'.sched = <<>> /\ main'.cache = main.cache
    BY <1>0, <2>3, WaitType, WaitView, StatusKept DEF Clean, NoFailure
  <2>5. Rest' = Rest
    BY <2>1 DEF Rest
  <2>6. Whole' = Whole
    BY <2>4, <2>5 DEF Whole
  <2>7. \A t \in Terms : Waiting(t)' = Waiting(t)
    BY <2>1 DEF Waiting
  <2>8. ListsTrue' /\ AckedRead'
    BY <2>1, <2>4, <2>6, SameLists
  <2>9. JobTrue' /\ CacheRises' /\ Ahead' /\ SessionSafe'
    BY <2>1, <2>6, <2>7, TasksKept DEF TypeInv, ScalarTypes
  <2>10. NoFailure' /\ Phases' /\ LiveCache'
    BY <2>1, <2>4 DEF Clean, NoFailure, Phases, LiveCache
  <2>11. Unsent'
    <3>1. Len(<<>>) <= 1 /\ Target.sched = <<>>
      BY <2>1, CleanIdle
    <3>2. Target'.sched = <<>>
      BY <2>1, <2>4, <3>1, CleanIdle DEF Target
    <3>3. QED
      BY <2>1, <2>4, <3>1, <3>2 DEF Clean, Unsent
  <2>12. QED
    BY <2>8, <2>9, <2>10, <2>11 DEF Clean
<1>5. QED
  BY <1>1, <1>2, <1>3, <1>4

\* The store is emptied.
LEMMA ClearClean ==
  ASSUME TypeInv, Clean, ClearStore
  PROVE  Clean'
<1>0. IsIndex(main) /\ IsIndex(delta)
  BY DEF TypeInv
<1>1. /\ pc = "idle" /\ ~open /\ main' = Drop(main) /\ accepted' = {} /\ acked' = {}
      /\ UNCHANGED <<open, cache, op, pc, todo, job, mkeys, failed, session, delta>>
  BY DEF ClearStore, indexer, call
<1>2. /\ job = NoJob /\ DOMAIN main.cache = {} /\ DOMAIN Written(delta) = {} /\ session = {}
      /\ delta.sched = <<>>
  BY <1>1, CleanIdle
<1>3. DOMAIN Written(main') = {} /\ DOMAIN main'.cache = {} /\ main'.sched = <<>> /\ main'.status = "ok"
  <2>1. DOMAIN Written(main') = {} /\ DOMAIN main'.cache = {}
    BY <1>0, <1>1, <1>2, EmptyWritten
  <2>2. main'.sched = <<>>
    BY <1>0, <1>1 DEF Drop, IsIndex
  <2>3. QED
    BY <1>0, <1>1, <2>1, <2>2, StatusKept DEF Clean, NoFailure
<1>4. View(main') = Written(main')
  BY <1>3, WrittenViews
<1>5. TypeInv'
  BY <1>1, OuterType
<1>6. Whole' = Written(main')
  <2>1. DOMAIN Written(delta') = {}
    BY <1>1, <1>2
  <2>2. (DOMAIN Written(delta) = {} => Whole = Written(main))'
    BY <1>5, WholeIs, PTL
  <2>3. QED
    BY <2>1, <2>2
<1>7. ListsTrue' /\ AckedRead'
  BY <1>1, <1>3, <1>4, <1>6, EmptyTrue DEF ListsTrue, AckedRead
<1>8. JobTrue' /\ CacheRises' /\ SessionSafe'
  BY <1>1, <1>2 DEF JobTrue, CacheRises, SessionSafe
<1>9. Ahead'
  <2>1. \A t \in Terms : Waiting(t)' = {}
    BY <1>1 DEF Waiting
  <2>2. QED
    BY <2>1 DEF Ahead
<1>10. NoFailure' /\ Phases' /\ LiveCache'
  BY <1>1, <1>2, <1>3 DEF Clean, NoFailure, Phases, LiveCache
<1>11. Unsent'
  <2>1. Len(<<>>) <= 1 /\ Target'.sched = <<>>
    BY <1>1, <1>2, <1>3 DEF Target
  <2>2. QED
    BY <1>1, <1>2, <1>3, <2>1 DEF Unsent
<1>12. QED
  BY <1>7, <1>8, <1>9, <1>10, <1>11 DEF Clean

\* A session starts.
LEMMA StartClean ==
  ASSUME TypeInv, Clean, Start
  PROVE  Clean'
<1>0. IsIndex(main) /\ IsIndex(delta)
  BY DEF TypeInv
<1>1. /\ pc = "idle" /\ ~open /\ open' = TRUE /\ cache' = EmptyCache /\ session' = {}
      /\ main' = ResetCaches(main)
      /\ delta' = ResetCaches(IF op = "BUILD_MERGE" THEN Close(delta) ELSE delta)
      /\ UNCHANGED <<op, pc, todo, job, mkeys, failed, accepted, acked>>
  BY DEF Start, Idle, call
<1>2. /\ job = NoJob /\ DOMAIN main.cache = {} /\ DOMAIN delta.cache = {}
      /\ DOMAIN Written(delta) = {} /\ delta.sched = <<>>
  BY <1>1, CleanIdle
<1>3. delta' = ResetCaches(delta)
  BY <1>0, <1>1, <1>2, CloseSame
<1>4. /\ View(main') = View(main) /\ Written(main') = Written(main) /\ main'.sched = main.sched
      /\ main'.status = main.status /\ DOMAIN main'.cache = {}
      /\ Written(delta') = Written(delta) /\ delta'.sched = delta.sched /\ delta'.status = delta.status
  BY <1>0, <1>1, <1>2, <1>3, ResetSame
<1>5. Rest' = Rest
  BY <1>1, <1>4 DEF Rest
<1>6. Whole' = Whole
  BY <1>4, <1>5 DEF Whole
<1>7. ListsTrue' /\ AckedRead'
  BY <1>1, <1>4, <1>6, SameLists
<1>8. \A t \in Terms : cache'[t] = <<>> /\ Waiting(t)' = {}
  <2>1. \A t \in Terms : cache'[t] = <<>>
    BY <1>1 DEF EmptyCache
  <2>2. ToSet(<<>>) = {}
    BY DEF ToSet
  <2>3. QED
    BY <1>1, <2>1, <2>2 DEF Waiting
<1>9. CacheRises' /\ Ahead'
  <2>1. Rising(<<>>)
    BY DEF Rising
  <2>2. QED
    BY <1>8, <2>1 DEF CacheRises, Ahead
<1>10. JobTrue' /\ SessionSafe'
  BY <1>1, <1>2 DEF JobTrue, SessionSafe
<1>11. NoFailure' /\ Phases' /\ LiveCache'
  BY <1>1, <1>2, <1>4 DEF Clean, NoFailure, Phases, LiveCache
<1>12. Unsent'
  <2>1. Target'.sched = Target.sched
    BY <1>1, <1>4 DEF Target
  <2>2. QED
    BY <1>1, <1>4, <2>1 DEF Clean, Unsent
<1>13. QED
  BY <1>7, <1>9, <1>10, <1>11, <1>12 DEF Clean

\* A flush begins: what waits in the cache is to be done.
LEMMA FlushClean ==
  ASSUME TypeInv, Clean, Flush \/ \E flush \in BOOLEAN : End(flush)
  PROVE  Clean'
<1>1. /\ pc = "idle" /\ open
      /\ UNCHANGED <<open, cache, op, main, delta, failed, accepted, acked>>
  BY DEF Flush, End, BeginFlush, Idle, indexer, history
<1>2. /\ job = NoJob /\ DOMAIN main.cache = {} /\ Target.sched = <<>>
  BY <1>1, CleanIdle
<1>3. /\ UNCHANGED <<job, mkeys>>
      /\ \/ pc' = "flush" /\ todo' = {t \in Terms : cache[t] # <<>>} /\ session' = session
         \/ /\ pc' = "end" /\ todo' = todo
            /\ session' = {p \in session : p[2] \notin ToSet(cache[p[1]])}
  BY DEF Flush, End, BeginFlush, indexer, history
<1>4. Rest' = Rest /\ Target' = Target
  BY <1>1, <1>3 DEF Rest, Target
<1>5. Whole' = Whole
  BY <1>1, <1>4 DEF Whole
<1>6. ListsTrue' /\ AckedRead'
  BY <1>1, <1>3, <1>5, SameLists
<1>7. \A t \in Terms : Waiting(t) = ToSet(cache[t]) /\ Waiting(t)' = ToSet(cache[t])
  <2>1. ToSet(<<>>) = {}
    BY DEF ToSet
  <2>2. QED
    BY <1>1, <1>2, <1>3, <2>1 DEF Waiting
<1>8. JobTrue' /\ CacheRises' /\ Ahead'
  BY <1>1, <1>2, <1>3, <1>5, <1>7 DEF Clean, JobTrue, CacheRises, Ahead
<1>9. SessionSafe'
  <2>1. \A p \in session : p[1] \in Terms
    BY DEF TypeInv, ScalarTypes
  <2>2. QED
    BY <1>1, <1>3, <1>5, <1>7, <2>1 DEF Clean, SessionSafe
<1>10. NoFailure' /\ Phases' /\ LiveCache'
  BY <1>1, <1>2, <1>3 DEF Clean, NoFailure, Phases, LiveCache
<1>11. Unsent'
  BY <1>1, <1>2, <1>4 DEF Clean, Unsent
<1>12. QED
  BY <1>6, <1>8, <1>9, <1>10, <1>11 DEF Clean

\* A number above all of a rising sequence goes to its end.
LEMMA RisingAppend ==
  ASSUME NEW X \in SUBSET Int, NEW s \in Seq(X), NEW x \in X
  PROVE  /\ ToSet(Append(s, x)) = ToSet(s) \cup {x}
         /\ Rising(s) /\ (\A g \in ToSet(s) : g < x) => Rising(Append(s, x))
<1> DEFINE n == Len(s)
           more == Append(s, x)
<1>1. n \in Nat /\ DOMAIN s = 1..n
  OBVIOUS
<1>2. /\ Len(more) = n + 1 /\ DOMAIN more = 1..(n + 1)
      /\ \A i \in 1..n : more[i] = s[i]
      /\ more[n + 1] = x
  OBVIOUS
<1> HIDE DEF n, more
<1>3. \A i \in 1..(n + 1) : i \in 1..n \/ i = n + 1
  BY <1>1
<1>4. n + 1 \in 1..(n + 1) /\ \A i \in 1..n : i \in 1..(n + 1)
  BY <1>1
<1>5. ToSet(more) = ToSet(s) \cup {x}
  <2>1. ToSet(more) = {more[i] : i \in 1..(n + 1)} /\ ToSet(s) = {s[i] : i \in 1..n}
    BY <1>1, <1>2 DEF ToSet
  <2>2. QED
    BY <1>2, <1>3, <1>4, <2>1
<1>6. ASSUME Rising(s), \A g \in ToSet(s) : g < x, NEW i \in 1..(n + 1), NEW j \in 1..(n + 1), i < j
      PROVE  more[i] < more[j]
  <2>1. i \in 1..n
    BY <1>1, <1>6
  <2>2. CASE j \in 1..n
    BY <1>2, <1>6, <2>1, <2>2 DEF Rising, n
  <2>3. CASE j = n + 1
    <3>1. s[i] \in ToSet(s)
      BY <1>1, <2>1 DEF ToSet
    <3>2. QED
      BY <1>2, <1>6, <2>1, <2>3, <3>1
  <2>4. QED
    BY <1>3, <1>6, <2>2, <2>3
<1>7. Rising(s) /\ (\A g \in ToSet(s) : g < x) => Rising(more)
  BY <1>2, <1>6 DEF Rising
<1>8. QED
  BY <1>5, <1>7 DEF more

\* A new recording is behind all that is there.
LEMMA FreshFID ==
  ASSUME TypeInv, Clean, NEW f \in ClientFIDs, NEW t \in Terms
  PROVE  Before(Whole, t, f) /\ \A g \in Waiting(t) : g < f
<1>1. \A p \in accepted : p[2] < f
  BY DEF ClientFIDs
<1>2. \A g : <<t, g>> \in accepted => g < f
  BY <1>1
<1>3. ASSUME NEW b \in 1..CountIn(Whole, t), NEW g \in FIDsOf(Whole[<<t, b>>]) PROVE g < f
  <2>1. Has(Whole, t, b)
    BY DEF Clean, ListsTrue, TrueLists, TrueList, Tidy
  <2>2. <<t, g>> \in accepted
    BY <2>1 DEF Clean, ListsTrue, KnownIn
  <2>3. QED
    BY <1>2, <2>2
<1>4. \A g \in Waiting(t) : g < f
  BY <1>2 DEF Clean, Ahead
<1>5. QED
  BY <1>3, <1>4 DEF Before

\* A recording is indexed.
LEMMA IndexClean ==
  ASSUME TypeInv, Clean, troubles' = 0, NEW f \in 1..MaxFID, NEW ts \in Recordings, Index(f, ts)
  PROVE  Clean'
<1>1. /\ pc = "idle" /\ open /\ f \in ClientFIDs
      /\ cache' = [t \in Terms |-> IF t \in ts THEN Append(cache[t], f) ELSE cache[t]]
      /\ accepted' = accepted \cup (ts \X {f}) /\ session' = session \cup (ts \X {f})
      /\ UNCHANGED <<open, op, main, delta, acked>>
  BY DEF Index, Idle
<1>2. PICK fault \in Faults \ {"get"} :
       /\ Count(fault)
       /\ IF fault = "store" THEN Fail /\ UNCHANGED run
          ELSE IF CacheSize(cache') >= CacheLimit THEN BeginFlush(cache', "idle")
          ELSE UNCHANGED <<run, call>>
  BY Zenon DEF Index
<1>3. fault = "none"
  BY <1>2, NoFault
<1>4. /\ UNCHANGED <<job, mkeys, failed>>
      /\ \/ pc' = "flush" /\ todo' = {t \in Terms : cache'[t] # <<>>}
         \/ pc' = pc /\ todo' = todo
  BY <1>2, <1>3 DEF BeginFlush, call
<1>5. /\ job = NoJob /\ DOMAIN main.cache = {} /\ Target.sched = <<>>
  BY <1>1, CleanIdle
<1>6. Rest' = Rest /\ Target' = Target
  BY <1>1, <1>4 DEF Rest, Target
<1>7. Whole' = Whole
  BY <1>1, <1>6 DEF Whole
<1>8. ListsTrue' /\ AckedRead'
  BY <1>1, <1>4, <1>7, SameLists
<1>9. \A t \in Terms : Waiting(t) = ToSet(cache[t]) /\ Waiting(t)' = ToSet(cache'[t])
  <2>1. ToSet(<<>>) = {}
    BY DEF ToSet
  <2>2. QED
    BY <1>1, <1>4, <1>5, <2>1 DEF Waiting
<1> DEFINE X == 1..MaxFID
<1>10. X \in SUBSET Int /\ f \in X /\ \A t \in Terms : cache[t] \in Seq(X)
  BY CBSessionAssumption DEF TypeInv, ScalarTypes
<1> HIDE DEF X
<1>11. ASSUME NEW t \in Terms
       PROVE  /\ ToSet(cache'[t]) = IF t \in ts THEN ToSet(cache[t]) \cup {f} ELSE ToSet(cache[t])
              /\ Rising(cache'[t])
  <2>1. Rising(cache[t]) /\ \A g \in ToSet(cache[t]) : g < f
    BY <1>1, <1>9, FreshFID DEF Clean, CacheRises
  <2>2. cache'[t] = IF t \in ts THEN Append(cache[t], f) ELSE cache[t]
    BY <1>1
  <2> DEFINE s == cache[t]
  <2>3. s \in Seq(X) /\ Rising(s) /\ \A g \in ToSet(s) : g < f
    BY <1>10, <2>1
  <2> HIDE DEF s
  <2>4. ToSet(Append(s, f)) = ToSet(s) \cup {f} /\ Rising(Append(s, f))
    BY <1>10, <2>3, RisingAppend
  <2>5. QED
    BY <2>2, <2>3, <2>4 DEF s
<1>12. CacheRises'
  BY <1>11 DEF CacheRises
<1>13. JobTrue'
  BY <1>4, <1>5 DEF JobTrue
<1>14. Ahead'
  <2>1. ASSUME NEW t \in Terms, NEW g \in ToSet(cache'[t])
        PROVE  <<t, g>> \in accepted' /\ Before(Whole, t, g)
    <3>1. CASE g \in ToSet(cache[t])
      BY <1>1, <1>9, <3>1 DEF Clean, Ahead
    <3>2. CASE t \in ts /\ g = f
      BY <1>1, <3>2, FreshFID
    <3>3. QED
      BY <1>11, <2>1, <3>1, <3>2
  <2>2. QED
    BY <1>7, <1>9, <2>1 DEF Ahead
<1>15. SessionSafe'
  <2>1. ASSUME NEW p \in session'
        PROVE  ReadIn(Whole, p[1], p[2]) \/ p[2] \in ToSet(cache'[p[1]])
    <3>1. CASE p \in session
      <4>1. p[1] \in Terms
        BY <3>1 DEF TypeInv, ScalarTypes
      <4>2. ReadIn(Whole, p[1], p[2]) \/ p[2] \in ToSet(cache[p[1]])
        BY <1>9, <3>1, <4>1 DEF Clean, SessionSafe
      <4>3. QED
        BY <1>11, <4>1, <4>2
    <3>2. CASE p \in ts \X {f}
      <4>1. p[1] \in ts /\ p[1] \in Terms /\ p[2] = f
        BY <3>2 DEF Recordings
      <4>2. QED
        BY <1>11, <4>1
    <3>3. QED
      BY <1>1, <2>1, <3>1, <3>2
  <2>2. \A p \in session' : p[1] \in Terms
    BY <1>1 DEF TypeInv, ScalarTypes, Recordings
  <2>3. QED
    BY <1>1, <1>4, <1>7, <1>9, <2>1, <2>2 DEF SessionSafe
<1>16. NoFailure' /\ Phases' /\ LiveCache'
  BY <1>1, <1>4, <1>5 DEF Clean, NoFailure, Phases, LiveCache
<1>17. Unsent'
  BY <1>1, <1>4, <1>5, <1>6 DEF Clean, Unsent
<1>18. QED
  BY <1>8, <1>12, <1>13, <1>14, <1>15, <1>16, <1>17 DEF Clean

-----------------------------------------------------------------------------
(* The block cache moves and is emptied.                                   *)

\* What is cached for one of the indexes is written.
LEMMA TargetWritten ==
  ASSUME TypeInv, Clean, pc # "merge", pc' # "merge", op' = op,
         NEW T, SetTarget({T}), Written(T) = Written(Target), View(T) = Written(T), T.status = "ok"
  PROVE  /\ Whole' = Whole /\ View(main') \in {View(main), Whole}
         /\ main'.status = "ok" /\ delta'.status = "ok" /\ View(main') = Written(main')
         /\ op = "BUILD" => main' = T /\ delta' = delta
         /\ op = "BUILD_MERGE" => delta' = T /\ main' = main
         /\ Target' = T /\ Written(delta') = Written(delta)
<1>1. CASE op = "BUILD"
  <2>1. main' = T /\ delta' = delta /\ Target = main /\ Target' = T /\ Whole = Written(main)
    BY <1>1, CleanWhole DEF SetTarget, Target
  <2>2. Rest' = Rest
    BY <2>1 DEF Rest
  <2>3. Whole' = Whole
    BY <2>1, <2>2 DEF Whole
  <2>4. QED
    BY <1>1, <2>1, <2>3 DEF Clean, NoFailure
<1>2. CASE op = "BUILD_MERGE"
  <2>1. delta' = T /\ main' = main /\ Target = delta /\ Target' = T /\ View(main) = Written(main)
    BY <1>2, CleanWhole DEF SetTarget, Target
  <2>2. Rest' = Rest
    <3>1. Written(delta') = Written(delta)
      BY <2>1
    <3>2. QED
      BY <3>1 DEF Rest
  <2>3. Whole' = Whole
    BY <2>1, <2>2 DEF Whole
  <2>4. QED
    BY <1>2, <2>1, <2>3 DEF Clean, NoFailure
<1>3. QED
  BY <1>1, <1>2, TwoOps

\* An index that takes the records of another, and caches nothing.
LEMMA SwitchedView ==
  ASSUME NEW ix, NEW w, DOMAIN w.cache = {}, w.server = ix.server, w.sched = ix.sched
  PROVE  View(w) = View(ix) /\ Written(w) = View(ix)
<1>1. View(w) = View(ix)
  BY DEF View, Stored, StoresOn
<1>2. QED
  BY <1>1, WrittenViews

\* The cache moves to the list under way.
LEMMA MovedClean ==
  ASSUME TypeInv, Clean, job # NoJob, pc' \in {"flush", "batch"},
         UNCHANGED <<open, cache, op, todo, job, mkeys, failed, accepted, session, acked>>,
         NEW T, SetTarget({T}), Written(T) = Written(Target), View(T) = Written(T), T.status = "ok",
         pc' = "flush" => DOMAIN T.cache = {}
  PROVE  Clean'
<1>1. pc \in {"flush", "batch"}
  BY DEF TypeInv, JobInFlush
<1>2. /\ Whole' = Whole /\ View(main') \in {View(main), Whole}
      /\ main'.status = "ok" /\ delta'.status = "ok" /\ View(main') = Written(main')
      /\ op = "BUILD" => main' = T /\ delta' = delta
      /\ op = "BUILD_MERGE" => delta' = T /\ main' = main
      /\ Target' = T /\ Written(delta') = Written(delta)
  BY <1>1, TargetWritten
<1>3. ListsTrue' /\ AckedRead'
  BY <1>1, <1>2, SameLists
<1>4. \A t \in Terms : Waiting(t)' = Waiting(t)
  BY <1>1 DEF Waiting
<1>5. JobTrue' /\ CacheRises' /\ Ahead' /\ SessionSafe'
  BY <1>2, <1>4, TasksKept DEF TypeInv, ScalarTypes
<1>6. NoFailure' /\ Phases'
  BY <1>1, <1>2 DEF Clean, NoFailure, Phases
<1>7. LiveCache'
  BY <1>1, <1>2, TwoOps DEF Clean, LiveCache
<1>8. Unsent'
  BY <1>1, <1>2 DEF Clean, Unsent
<1>9. QED
  BY <1>3, <1>5, <1>6, <1>7, <1>8 DEF Clean

\* The cached blocks of another list are scheduled, and perhaps executed.
LEMMA MoveClean ==
  ASSUME TypeInv, op = "BUILD_MERGE" => MergeInv, Clean, troubles' = 0, MoveCache \/ ExecuteBatch
  PROVE  Clean'
<1>1. job # NoJob /\ job.term \in Terms /\ IsIndex(Target) /\ Target.status = "ok"
  BY TargetType DEF MoveCache, ExecuteBatch, TypeInv, JobInFlush, JobHasPostings, Clean, NoFailure, Target
<1>2. UNCHANGED <<open, cache, op, accepted, session, acked>>
  BY DEF MoveCache, ExecuteBatch, indexer, history
<1> DEFINE X == Target
           w == WriteCached(X)
<1>3. CASE MoveCache
  <2>1. /\ IsIndex(w) /\ View(w) = Written(X) /\ Written(w) = Written(X) /\ w.status = "ok"
    BY <1>1, WriteCachedType, CachedView, MovedView, StatusKept
  <2>2. UNCHANGED <<todo, job, mkeys, failed>> /\ pc = "flush"
    BY <1>3 DEF MoveCache
  <2>3. CASE BatchDue
    <3>1. SetTarget({w}) /\ pc' = "batch"
      BY <1>3, <2>3 DEF MoveCache
    <3> HIDE DEF w
    <3>2. QED
      BY <1>1, <1>2, <2>1, <2>2, <3>1, MovedClean
  <2>4. CASE ~BatchDue
    <3> DEFINE s == SwitchList(w, job.term)
    <3>1. SetTarget({s}) /\ pc' = "flush"
      BY <1>3, <2>2, <2>4 DEF MoveCache
    <3> HIDE DEF w
    <3>2. s.server = w.server /\ s.sched = w.sched /\ s.cache = NoRecords /\ s.status = "ok"
      BY <1>1, <2>1, SwitchType, StatusKept
    <3>3. DOMAIN s.cache = {}
      BY <3>2, NewType
    <3>4. View(s) = View(w) /\ Written(s) = View(w)
      BY <3>2, <3>3, SwitchedView
    <3> HIDE DEF s
    <3>5. QED
      BY <1>1, <1>2, <2>1, <2>2, <3>1, <3>2, <3>3, <3>4, MovedClean
  <2>5. QED
    BY <2>3, <2>4
<1>4. CASE ExecuteBatch
  <2>1. PICK fault \in Faults \ {"get"} : \E ix \in Waits(Target, fault) :
       /\ Count(fault)
       /\ IF ix.status = "failed" THEN SetTarget({ix}) /\ Fail
          ELSE /\ SetTarget({SwitchList([ix EXCEPT !.accum = 0], job.term)})
               /\ pc' = "flush" /\ UNCHANGED <<ret, todo, job, mkeys, mbuf, failed>>
    BY <1>4, Zenon DEF ExecuteBatch
  <2>2. PICK ix \in Waits(Target, fault) :
       /\ Count(fault)
       /\ IF ix.status = "failed" THEN SetTarget({ix}) /\ Fail
          ELSE /\ SetTarget({SwitchList([ix EXCEPT !.accum = 0], job.term)})
               /\ pc' = "flush" /\ UNCHANGED <<ret, todo, job, mkeys, mbuf, failed>>
    BY <2>1, Zenon
  <2>3. ix \in Waits(X, "none")
    BY <2>2, NoFault
  <2>4. IsIndex(ix) /\ View(ix) = View(X) /\ ix.status = "ok"
    BY <1>1, <2>3, WaitType, WaitView, StatusKept
  <2>5. View(X) = Written(X)
    BY <1>4, CleanWhole, TwoOps DEF ExecuteBatch, MergeInv, CacheClean, Clean, LiveCache
  <2> DEFINE y == [ix EXCEPT !.accum = 0]
             s == SwitchList(y, job.term)
  <2>6. SetTarget({s}) /\ UNCHANGED <<todo, job, mkeys, failed>> /\ pc' = "flush"
    BY <2>2, <2>4
  <2>7. y.server = ix.server /\ y.sched = ix.sched /\ y.status = ix.status /\ IsIndex(y)
    BY <2>4 DEF IsIndex
  <2> HIDE DEF y
  <2>8. s.server = ix.server /\ s.sched = ix.sched /\ s.cache = NoRecords /\ s.status = "ok"
    BY <1>1, <2>4, <2>7, SwitchType, StatusKept
  <2>9. DOMAIN s.cache = {}
    BY <2>8, NewType
  <2>10. View(s) = View(ix) /\ Written(s) = View(ix)
    BY <2>8, <2>9, SwitchedView
  <2> HIDE DEF s
  <2>11. QED
    BY <1>1, <1>2, <2>4, <2>5, <2>6, <2>8, <2>9, <2>10, MovedClean
<1>5. QED
  BY <1>3, <1>4

\* A flush ends: nothing waits any more.
LEMMA EndFlushClean ==
  ASSUME TypeInv, Clean, troubles' = 0, EndFlush
  PROVE  Clean'
<1>1. /\ pc = "flush" /\ job = NoJob /\ todo = {} /\ open /\ cache' = EmptyCache
      /\ UNCHANGED <<open, op, todo, job, mkeys, accepted, session, acked>>
  BY DEF EndFlush, Clean, Phases, history
<1>2. IsIndex(Target) /\ Target.status = "ok"
  BY TargetType DEF Clean, NoFailure, Target
<1> DEFINE X == Target
<1>3. \E T : /\ SetTarget({T}) /\ Written(T) = Written(X) /\ View(T) = Written(T) /\ T.status = "ok"
             /\ DOMAIN T.cache = {} /\ T.sched = <<>> /\ pc' = ret /\ failed' = failed
  <2>1. CASE DOMAIN X.cache = {}
    <3>1. SetTarget({X}) /\ pc' = ret /\ failed' = failed
      BY <2>1 DEF EndFlush
    <3>2. X.sched = <<>>
      BY <1>1, <2>1 DEF Clean, Unsent
    <3>3. View(X) = Written(X)
      BY <2>1, WrittenViews
    <3>4. QED
      BY <1>2, <2>1, <3>1, <3>2, <3>3
  <2>2. CASE DOMAIN X.cache # {}
    <3>1. PICK fault \in Faults \ {"get"} : \E ix \in Waits(WriteCached(X), fault) :
            /\ Count(fault)
            /\ IF ix.status = "failed"
               THEN SetTarget({ix}) /\ pc' = "idle" /\ ret' = "idle" /\ failed' = TRUE
               ELSE SetTarget({FlushedCache(ix)}) /\ pc' = ret /\ ret' = "idle" /\ UNCHANGED failed
      BY <2>2, Zenon DEF EndFlush
    <3>2. PICK ix \in Waits(WriteCached(X), fault) :
            /\ Count(fault)
            /\ IF ix.status = "failed"
               THEN SetTarget({ix}) /\ pc' = "idle" /\ ret' = "idle" /\ failed' = TRUE
               ELSE SetTarget({FlushedCache(ix)}) /\ pc' = ret /\ ret' = "idle" /\ UNCHANGED failed
      BY <3>1, Zenon
    <3>3. ix \in Waits(WriteCached(X), "none")
      BY <3>2, NoFault
    <3> DEFINE w == WriteCached(X)
               T == FlushedCache(ix)
    <3>4. IsIndex(w) /\ w.status = "ok"
      BY <1>2, WriteCachedType, StatusKept
    <3>5. ix \in Waits(w, "none")
      BY <3>3
    <3> HIDE DEF w
    <3>6. IsIndex(ix) /\ ix.sched = <<>> /\ ix.status = "ok"
      BY <3>4, <3>5, WaitType, StatusKept
    <3>7. SetTarget({T}) /\ pc' = ret /\ failed' = failed
      BY <3>2, <3>6
    <3>8. T.sched = <<>> /\ T.cache = NoRecords /\ T.status = "ok"
      BY <3>6 DEF FlushedCache, IsIndex
    <3>9. Written(T) = Written(X)
      BY <1>2, <3>3, MovedView
    <3>10. DOMAIN T.cache = {}
      BY <3>8, NewType
    <3> HIDE DEF T
    <3>11. View(T) = Written(T)
      BY <3>10, WrittenViews
    <3>12. QED
      BY <3>7, <3>8, <3>9, <3>10, <3>11
  <2>3. QED
    BY <2>1, <2>2
<1>4. PICK T : /\ SetTarget({T}) /\ Written(T) = Written(X) /\ View(T) = Written(T) /\ T.status = "ok"
             /\ DOMAIN T.cache = {} /\ T.sched = <<>> /\ pc' = ret /\ failed' = failed
  BY <1>3, Zenon
<1>5. pc' \in {"idle", "end"}
  BY <1>4 DEF TypeInv, ScalarTypes
<1>6. /\ Whole' = Whole /\ View(main') \in {View(main), Whole}
      /\ main'.status = "ok" /\ delta'.status = "ok" /\ View(main') = Written(main')
      /\ op = "BUILD" => main' = T /\ delta' = delta
      /\ op = "BUILD_MERGE" => delta' = T /\ main' = main
      /\ Target' = T /\ Written(delta') = Written(delta)
  BY <1>1, <1>4, <1>5, TargetWritten
<1>7. ListsTrue' /\ AckedRead'
  BY <1>1, <1>6, SameLists
<1>8. \A t \in Terms : cache'[t] = <<>> /\ Waiting(t)' = {} /\ Waiting(t) = {}
  <2>1. \A t \in Terms : cache'[t] = <<>>
    BY <1>1 DEF EmptyCache
  <2>2. ToSet(<<>>) = {}
    BY DEF ToSet
  <2>3. QED
    BY <1>1, <1>5, <2>1, <2>2 DEF Waiting
<1>9. CacheRises' /\ Ahead' /\ JobTrue'
  <2>1. Rising(<<>>)
    BY DEF Rising
  <2>2. QED
    BY <1>1, <1>8, <2>1 DEF CacheRises, Ahead, JobTrue
<1>10. SessionSafe'
  <2>1. \A p \in session : p[1] \in Terms
    BY DEF TypeInv, ScalarTypes
  <2>2. \A p \in session : ReadIn(Whole, p[1], p[2])
    BY <1>1, <1>8, <2>1 DEF Clean, SessionSafe
  <2>3. QED
    BY <1>1, <1>6, <2>2 DEF SessionSafe
<1>11. NoFailure' /\ Phases'
  BY <1>1, <1>4, <1>5, <1>6 DEF Clean, NoFailure, Phases
<1>12. LiveCache'
  BY <1>1, <1>4, <1>5, <1>6, TwoOps DEF Clean, LiveCache
<1>13. Unsent'
  BY <1>1, <1>4, <1>5, <1>6 DEF Clean, Unsent
<1>14. QED
  BY <1>7, <1>9, <1>10, <1>11, <1>12, <1>13 DEF Clean

-----------------------------------------------------------------------------
(* A list is started, and a session ended.                                 *)

\* An index that is waited for, or not.
LEMMA WaitedSame ==
  ASSUME NEW ix, IsIndex(ix), ix.status = "ok", NEW w \in {ix} \cup Waits(ix, "none")
  PROVE  /\ View(w) = View(ix) /\ Written(w) = Written(ix) /\ w.status = "ok"
         /\ w.clist = ix.clist /\ w.cache = ix.cache /\ w.keys = ix.keys
         /\ w.sched \in {<<>>, ix.sched}
<1>1. CASE w = ix
  BY <1>1
<1>2. CASE w \in Waits(ix, "none")
  BY <1>2, WaitType, WaitView, StatusKept
<1>3. QED
  BY <1>1, <1>2

\* The headers of a list are read.
LEMMA BeginClean ==
  ASSUME TypeInv, op = "BUILD_MERGE" => MergeInv, Clean, troubles' = 0, NEW t \in Terms, BeginList(t)
  PROVE  Clean'
<1> DEFINE lh  == ListHeader(t)
           hdr == IF lh = 0 THEN NullHdr ELSE BlockHeader(t, lh)
<1>0. IsIndex(main) /\ IsIndex(delta) /\ main.status = "ok" /\ delta.status = "ok"
  BY DEF TypeInv, Clean, NoFailure
<1>1. PICK fault \in Faults :
       /\ Count(fault)
       /\ main' \in IF ReadsMain(t) THEN Waits(main, fault) ELSE {main}
       /\ delta' \in IF DeltaFirst THEN Waits(delta, fault) ELSE {delta}
       /\ IF fault = "get" \/ (lh # 0 /\ hdr = NullHdr)
          THEN Fail
          ELSE /\ job' = [term |-> t, lh |-> lh, hdr |-> hdr, rest |-> cache[t]]
               /\ todo' = todo \ {t}
               /\ UNCHANGED <<pc, ret, mkeys, mbuf, failed>>
  BY Zenon DEF BeginList
<1>2. /\ pc = "flush" /\ t \in todo /\ job = NoJob
      /\ UNCHANGED <<open, cache, op, accepted, session, acked>>
  BY DEF BeginList, indexer, history
<1>3. /\ lh = CountIn(Whole, t)
      /\ lh # 0 => hdr = Whole[<<t, lh>>].hdr /\ hdr # NullHdr
      /\ lh = 0 => hdr = NullHdr
  BY <1>2, CleanStart
<1> HIDE DEF lh, hdr
<1>4. fault = "none"
  BY <1>1, NoFault
<1>5. /\ job' = [term |-> t, lh |-> lh, hdr |-> hdr, rest |-> cache[t]]
      /\ todo' = todo \ {t} /\ UNCHANGED <<pc, mkeys, failed>>
  BY <1>1, <1>3, <1>4
<1>6. job'.term = t /\ job'.lh = lh /\ job'.hdr = hdr /\ job'.rest = cache[t]
  BY <1>5
<1>7. job' # NoJob
  BY <1>6, CBIndexAssumption DEF NoJob
<1>8. main' \in {main} \cup Waits(main, "none") /\ delta' \in {delta} \cup Waits(delta, "none")
  BY <1>1, <1>4
<1>9. /\ View(main') = View(main) /\ Written(main') = Written(main) /\ main'.status = "ok"
      /\ main'.clist = main.clist /\ main'.cache = main.cache /\ main'.sched \in {<<>>, main.sched}
      /\ Written(delta') = Written(delta) /\ delta'.status = "ok" /\ delta'.sched \in {<<>>, delta.sched}
  BY <1>0, <1>8, WaitedSame
<1>10. Rest' = Rest
  BY <1>5, <1>9 DEF Rest
<1>11. Whole' = Whole
  BY <1>9, <1>10 DEF Whole
<1>12. ListsTrue' /\ AckedRead'
  BY <1>2, <1>5, <1>9, <1>11, SameLists
<1>13. CacheRises' /\ Rising(cache[t])
  BY <1>2 DEF Clean, CacheRises, Phases
<1>14. JobTrue'
  BY <1>3, <1>6, <1>11, <1>13 DEF JobTrue
<1>15. \A u \in Terms : Waiting(u)' = Waiting(u)
  BY <1>2, <1>5, <1>6, <1>7 DEF Waiting
<1>16. Ahead' /\ SessionSafe'
  <2>1. \A p \in session : p[1] \in Terms
    BY DEF TypeInv, ScalarTypes
  <2>2. QED
    BY <1>2, <1>5, <1>11, <1>15, <2>1 DEF Clean, Ahead, SessionSafe
<1>17. NoFailure' /\ Phases' /\ LiveCache'
  BY <1>2, <1>5, <1>6, <1>9 DEF Clean, NoFailure, Phases, LiveCache
<1>18. Unsent'
  <2>1. Len(<<>>) <= 1
    OBVIOUS
  <2>2. QED
    BY <1>2, <1>5, <1>7, <1>9, <2>1 DEF Clean, Unsent
<1>19. QED
  BY <1>12, <1>13, <1>14, <1>16, <1>17, <1>18 DEF Clean

\* A session ends: what it indexed is in the lists.
LEMMA EndSessionClean ==
  ASSUME TypeInv, op = "BUILD_MERGE" => MergeInv, Clean, troubles' = 0, EndSession
  PROVE  Clean'
<1>1. /\ pc = "end" /\ open /\ open' = FALSE
      /\ UNCHANGED <<cache, op, main, todo, job, accepted>>
  BY DEF EndSession, Clean, Phases
<1>2. job = NoJob /\ DOMAIN main.cache = {} /\ Target.sched = <<>>
  BY <1>1 DEF TypeInv, JobInFlush, Clean, LiveCache, Unsent
<1>3. \A p \in session : ReadIn(Whole, p[1], p[2])
  BY <1>1 DEF Clean, SessionSafe
<1>4. CASE op = "BUILD"
  <2>1. /\ pc' = "idle" /\ acked' = acked \cup session /\ session' = {}
        /\ UNCHANGED <<delta, mkeys, failed>>
    BY <1>4 DEF EndSession, Acknowledge
  <2>2. Rest' = Rest /\ Target' = Target
    BY <1>1, <2>1 DEF Rest, Target
  <2>3. Whole' = Whole
    BY <1>1, <2>2 DEF Whole
  <2>4. View(main') = Whole
    BY <1>1, <1>2, <1>4, CleanWhole
  <2>5. ListsTrue'
    BY <1>1, <2>1, <2>3, <2>4, SameLists
  <2>6. AckedRead'
    BY <1>3, <2>1, <2>3, <2>4 DEF Clean, AckedRead
  <2>7. JobTrue' /\ CacheRises' /\ SessionSafe'
    BY <1>1, <1>2, <2>1 DEF JobTrue, CacheRises, SessionSafe
  <2>8. \A t \in Terms : Waiting(t)' = {}
    BY <1>1, <2>1 DEF Waiting
  <2>9. Ahead'
    BY <2>8 DEF Ahead
  <2>10. NoFailure' /\ Phases' /\ LiveCache'
    BY <1>1, <1>2, <1>4, <2>1 DEF Clean, NoFailure, Phases, LiveCache
  <2>11. Unsent'
    BY <1>1, <1>2, <1>4, <2>1, <2>2 DEF Clean, Unsent
  <2>12. QED
    BY <2>5, <2>6, <2>7, <2>9, <2>10, <2>11 DEF Clean
<1>5. CASE op = "BUILD_MERGE"
  <2>1. DOMAIN delta.cache = {} /\ KeysOf(delta.keys, DOMAIN Written(delta))
    BY <1>1, <1>5 DEF MergeInv, CacheClean, KeysRight
  <2>2. /\ pc' = "merge" /\ mkeys' = delta.keys /\ delta' = delta
        /\ UNCHANGED <<failed, session, acked>>
    BY <1>5, <2>1 DEF EndSession
  <2>3. Rest' = Rest /\ Target' = Target
    BY <1>1, <2>1, <2>2 DEF Rest, Target, KeysOf
  <2>4. Whole' = Whole
    BY <1>1, <2>3 DEF Whole
  <2>5. ListsTrue' /\ AckedRead'
    BY <1>1, <2>2, <2>4, SameLists
  <2>6. JobTrue' /\ CacheRises' /\ SessionSafe'
    BY <1>1, <1>2, <1>3, <2>2, <2>4 DEF JobTrue, CacheRises, SessionSafe
  <2>7. \A t \in Terms : Waiting(t)' = {}
    BY <1>1, <2>2 DEF Waiting
  <2>8. Ahead'
    BY <2>7 DEF Ahead
  <2>9. NoFailure' /\ Phases' /\ LiveCache'
    BY <1>1, <1>2, <1>5, <2>1, <2>2 DEF Clean, NoFailure, Phases, LiveCache, KeysOf
  <2>10. Unsent'
    BY <1>1, <1>2, <1>5, <2>2, <2>3 DEF Clean, Unsent
  <2>11. QED
    BY <2>5, <2>6, <2>8, <2>9, <2>10 DEF Clean
<1>6. QED
  BY <1>4, <1>5, TwoOps

-----------------------------------------------------------------------------
(* The merge.                                                              *)

\* The keys behind the first one.
LEMMA TailKeys ==
  ASSUME NEW s \in Seq(BlockKeys), s # <<>>, IsInjective(s)
  PROVE  /\ Head(s) \in ToSet(s) /\ Head(s) \in BlockKeys
         /\ ToSet(Tail(s)) = ToSet(s) \ {Head(s)} /\ IsInjective(Tail(s))
<1> DEFINE n == Len(s)
           u == Tail(s)
<1>1. n \in Nat \ {0} /\ DOMAIN s = 1..n /\ Head(s) = s[1] /\ \A i \in 1..n : s[i] \in BlockKeys
  BY EmptySeq, ElementOfSeq
<1>2. DOMAIN u = 1..(n - 1) /\ \A i \in 1..(n - 1) : u[i] = s[i + 1]
  OBVIOUS
<1>3. \A i, j \in 1..n : s[i] = s[j] => i = j
  BY <1>1 DEF IsInjective
<1> HIDE DEF n, u
<1>4. ToSet(s) = {s[i] : i \in 1..n} /\ ToSet(u) = {u[i] : i \in 1..(n - 1)}
  BY <1>1, <1>2 DEF ToSet
<1>5. 1 \in 1..n
  BY <1>1
<1>6. ASSUME NEW x \in ToSet(u) PROVE x \in ToSet(s) \ {Head(s)}
  <2>1. PICK i \in 1..(n - 1) : x = s[i + 1]
    BY <1>2, <1>4
  <2>2. i + 1 \in 1..n /\ i + 1 # 1
    BY <1>1
  <2>3. QED
    BY <1>1, <1>3, <1>4, <1>5, <2>1, <2>2
<1>7. ASSUME NEW x \in ToSet(s) \ {Head(s)} PROVE x \in ToSet(u)
  <2>1. PICK i \in 1..n : x = s[i]
    BY <1>4
  <2>2. i # 1
    BY <1>1, <2>1
  <2>3. i - 1 \in 1..(n - 1) /\ (i - 1) + 1 = i
    BY <1>1, <2>2
  <2>4. u[i - 1] = x
    BY <1>2, <2>1, <2>3
  <2>5. QED
    BY <1>4, <2>3, <2>4
<1>8. IsInjective(u)
  <2>1. ASSUME NEW i \in 1..(n - 1), NEW j \in 1..(n - 1), u[i] = u[j] PROVE i = j
    <3>1. i + 1 \in 1..n /\ j + 1 \in 1..n
      BY <1>1
    <3>2. i + 1 = j + 1
      BY <1>2, <1>3, <2>1, <3>1
    <3>3. QED
      BY <3>2
  <2>2. QED
    BY <1>2, <2>1 DEF IsInjective
<1>9. QED
  BY <1>1, <1>4, <1>5, <1>6, <1>7, <1>8 DEF u

\* The index w is ix with the record b written as number k.
Wrote(w, ix, k, b) ==
  /\ DOMAIN View(w) = DOMAIN View(ix) \cup {k} /\ View(w)[k] = b
  /\ \A x \in DOMAIN View(ix) : x # k => View(w)[x] = View(ix)[x]
  /\ w.status = ix.status /\ w.cache = ix.cache /\ Len(w.sched) = 1

\* A record is written to an index that has nothing scheduled.
LEMMA WroteView ==
  ASSUME NEW ix, IsIndex(ix), ix.sched = <<>>, NEW k \in BlockKeys, NEW b \in BlockRecords,
         NEW w, w = WriteBlock(ix, k[1], k[2], b)
  PROVE  Wrote(w, ix, k, b)
<1>1. k[1] \in Terms /\ k[2] \in Nat /\ k = <<k[1], k[2]>>
  BY DEF BlockKeys
<1>2. w = [ix EXCEPT !.sched = <<<<k, b>>>>]
  BY <1>1 DEF WriteBlock, IsIndex
<1>3. /\ w.server = ix.server /\ w.sched = <<<<k, b>>>>
      /\ w.status = ix.status /\ w.cache = ix.cache /\ w.clist = ix.clist
  BY <1>2 DEF IsIndex
<1>4. IsIndex(w)
  BY <1>1, WriteType
<1>5. View(ix) = ix.server
  BY ViewServer
<1>6. DOMAIN w.sched = {1} /\ w.sched[1][1] = k /\ w.sched[1][2] = b /\ Len(w.sched) = 1
  BY <1>3
<1>7. ASSUME NEW x PROVE /\ x \in DOMAIN View(w) <=> x \in DOMAIN ix.server \/ x = k
                         /\ x = k => View(w)[x] = b
                         /\ x # k /\ x \in DOMAIN ix.server => View(w)[x] = ix.server[x]
  <2>1. /\ x \in DOMAIN View(w) <=>
              x \in DOMAIN w.server \/ \E i \in DOMAIN w.sched : w.sched[i][1] = x
        /\ \A i \in DOMAIN w.sched :
              w.sched[i][1] = x /\ (\A j \in DOMAIN w.sched : j > i => w.sched[j][1] # x) =>
                View(w)[x] = w.sched[i][2]
        /\ (\A i \in DOMAIN w.sched : w.sched[i][1] # x) /\ x \in DOMAIN w.server =>
              View(w)[x] = w.server[x]
    BY <1>4, ViewAt
  <2>2. \A j \in DOMAIN w.sched : ~(j > 1)
    BY <1>6
  <2>3. QED
    BY <1>3, <1>6, <2>1, <2>2
<1>8. QED
  BY <1>3, <1>5, <1>6, <1>7 DEF Wrote

\* What is read of records is read of records that begin with them.
LEMMA UnderReads ==
  ASSUME NEW r, NEW w, Under(r, w), NEW t, NEW f, ReadIn(r, t, f)
  PROVE  ReadIn(w, t, f)
BY DEF Under, ReadIn, Holds, Has

\* A record of the delta is merged.
LEMMA MergeClean ==
  ASSUME TypeInv, MergeInv, op = "BUILD_MERGE", Clean, troubles' = 0, MergeRecord
  PROVE  Clean'
<1>0. IsIndex(main) /\ IsIndex(delta) /\ main.status = "ok" /\ delta.status = "ok"
  BY DEF TypeInv, Clean, NoFailure
<1> DEFINE k == Head(mkeys)
<1>1. /\ pc = "merge" /\ mkeys # <<>> /\ UNCHANGED <<open, cache, op, accepted, session, acked>>
  BY DEF MergeRecord, indexer, history
<1>2. PICK fault \in MergeFaults :
       /\ Count(fault)
       /\ delta' \in Waits(delta, "none")
       /\ \E ix \in Waits(main, fault) :
            IF fault = "get" THEN main' = ix /\ Fail
            ELSE LET live == ReadBlock(ix, k[1], k[2])
                     d    == ReadBlock(delta, k[1], k[2])
                     read == Larger(mbuf, Len(live.body))
                     size == Larger(read, Len(live.body) + Len(d.body))
                 IN  /\ BufferMoves(fault) => size > read
                     /\ main' = WriteBlock(ix, k[1], k[2], MergedBlock(live, d, k[2], BufferMoves(fault)))
                     /\ mkeys' = Tail(mkeys) /\ mbuf' = size
                     /\ UNCHANGED <<pc, ret, todo, job, failed>>
  BY Zenon DEF MergeRecord
<1>3. fault = "none"
  BY <1>2, NoFault
<1>4. PICK ix \in Waits(main, "none") :
            IF fault = "get" THEN main' = ix /\ Fail
            ELSE LET live == ReadBlock(ix, k[1], k[2])
                     d    == ReadBlock(delta, k[1], k[2])
                     read == Larger(mbuf, Len(live.body))
                     size == Larger(read, Len(live.body) + Len(d.body))
                 IN  /\ BufferMoves(fault) => size > read
                     /\ main' = WriteBlock(ix, k[1], k[2], MergedBlock(live, d, k[2], BufferMoves(fault)))
                     /\ mkeys' = Tail(mkeys) /\ mbuf' = size
                     /\ UNCHANGED <<pc, ret, todo, job, failed>>
  BY <1>2, <1>3, Zenon
<1> DEFINE live == ReadBlock(ix, k[1], k[2])
           d    == ReadBlock(delta, k[1], k[2])
           read == Larger(mbuf, Len(live.body))
           size == Larger(read, Len(live.body) + Len(d.body))
<1>5. /\ main' = WriteBlock(ix, k[1], k[2], MergedBlock(live, d, k[2], BufferMoves(fault)))
      /\ mkeys' = Tail(mkeys) /\ mbuf' = size
      /\ UNCHANGED <<pc, todo, job, failed>>
  BY <1>3, <1>4, Zenon
<1>6. IsIndex(ix) /\ View(ix) = View(main) /\ ix.sched = <<>> /\ ix.status = "ok" /\ ix.cache = main.cache
  BY <1>0, WaitType, WaitView, StatusKept
<1>7. live \in BlockRecords /\ d \in BlockRecords
  BY <1>0, <1>6, ReadType
<1>8. main' = WriteBlock(ix, k[1], k[2], MergedBlock(live, d, k[2], FALSE))
  <2>1. BufferMoves(fault) = FALSE
    BY <1>3 DEF BufferMoves
  <2> HIDE DEF live, d, read, size
  <2>2. QED
    BY <1>5, <2>1
<1> HIDE DEF read, size
<1>9. mkeys \in Seq(BlockKeys) /\ IsInjective(mkeys) /\ ToSet(mkeys) \subseteq DOMAIN Written(delta) /\ ~open
  BY <1>1 DEF TypeInv, CallTypes, Clean, Phases
<1>10. /\ k \in ToSet(mkeys) /\ k \in BlockKeys
       /\ ToSet(mkeys') = ToSet(mkeys) \ {k} /\ IsInjective(mkeys')
  BY <1>1, <1>5, <1>9, TailKeys
<1>11. k = <<k[1], k[2]>>
  BY <1>10 DEF BlockKeys
<1>12. /\ Written(delta) = View(delta) /\ Written(main) = View(main) /\ DOMAIN main.cache = {}
       /\ job = NoJob
  BY <1>1, WrittenViews DEF MergeInv, CacheClean, Clean, LiveCache, TypeInv, JobInFlush
<1>13. live = At(View(main), k) /\ d = Written(delta)[k]
  <2>1. live = At(View(ix), k)
    BY <1>11 DEF ReadBlock, At
  <2>2. k \in DOMAIN View(delta)
    BY <1>9, <1>10, <1>12
  <2>3. d = View(delta)[k]
    BY <1>11, <2>2 DEF ReadBlock
  <2>4. QED
    BY <1>6, <1>12, <2>1, <2>3
<1> DEFINE b == MergedBlock(live, d, k[2], FALSE)
<1>14. b \in BlockRecords
  BY <1>7, MergedType
<1>15. main' = WriteBlock(ix, k[1], k[2], b)
  BY <1>8
<1> HIDE DEF live, d, b, k
<1>16. /\ DOMAIN View(main') = DOMAIN View(main) \cup {k} /\ View(main')[k] = b
       /\ \A x \in DOMAIN View(main) : x # k => View(main')[x] = View(main)[x]
       /\ main'.status = "ok" /\ main'.cache = main.cache /\ Len(main'.sched) = 1
  <2>1. PICK w : w = main'
    OBVIOUS
  <2>2. w = WriteBlock(ix, k[1], k[2], b)
    BY <1>15, <2>1
  <2>3. Wrote(w, ix, k, b)
    BY <1>6, <1>10, <1>14, <2>2, WroteView
  <2>4. QED
    BY <1>6, <2>1, <2>3 DEF Wrote
<1>17. Written(delta') = Written(delta) /\ delta'.status = "ok" /\ delta'.sched = <<>>
  BY <1>0, <1>2, WaitType, WaitView, StatusKept
<1> DEFINE m == View(main)
           n == View(main')
           r == Rest
           e == Rest'
           w == Written(delta)
<1>18. r = [x \in {y \in DOMAIN w : y \in ToSet(mkeys)} |-> w[x]]
  BY <1>1 DEF Rest
<1>19. e = [x \in {y \in DOMAIN w : y \in ToSet(mkeys')} |-> w[x]]
  BY <1>1, <1>5, <1>17 DEF Rest
<1>20. Written(main') = n
  BY <1>12, <1>16, WrittenViews
<1>21. Whole = Plus(m, r) /\ Whole' = Plus(n, e)
  BY <1>12, <1>20 DEF Whole
<1>22. AreRecords(m, BlockKeys) /\ AreRecords(r, BlockKeys) /\ ToSet(mkeys) \subseteq DOMAIN w
       /\ KnownIn(m, accepted) /\ KnownIn(Whole, accepted)
  BY <1>9, WholeTypes DEF Clean, ListsTrue
<1>23. live = At(m, k) /\ d = w[k]
  BY <1>13
<1>24. DOMAIN n = DOMAIN m \cup {k} /\ n[k] = b /\ \A x \in DOMAIN m : x # k => n[x] = m[x]
  BY <1>16
<1> HIDE DEF m, n, r, e, w
<1>25. DOMAIN r = ToSet(mkeys) /\ DOMAIN e = ToSet(mkeys) \ {k} /\ \A x \in DOMAIN e : e[x] = r[x]
  BY <1>10, <1>18, <1>19, <1>22
<1>26. k \in DOMAIN r /\ r[k] = d
  BY <1>10, <1>18, <1>22, <1>23
<1>27. Moved(m, r, k, n, e)
  BY <1>23, <1>24, <1>25, <1>26 DEF Moved, b
<1>28. Plus(n, e) = Plus(m, r)
  BY <1>27, PlusMoved
<1>29. Whole' = Whole
  BY <1>21, <1>28
<1>30. k \in DOMAIN Whole /\ Whole[k] = b
  <2>1. /\ k \in DOMAIN Plus(m, r) <=> k \in DOMAIN m \/ k \in DOMAIN r
        /\ k \in DOMAIN r => Plus(m, r)[k] = MergedBlock(At(m, k), r[k], k[2], FALSE)
    BY PlusAt
  <2>2. QED
    BY <1>21, <1>23, <1>26, <2>1 DEF b
<1>31. KnownIn(n, accepted)
  BY <1>22, <1>24, <1>30 DEF KnownIn, Has
<1>32. Under(m, n)
  <2>1. ASSUME NEW x \in DOMAIN m
        PROVE  /\ x \in DOMAIN n /\ FIDsOf(m[x]) \subseteq FIDsOf(n[x])
               /\ Rising(Decode(n[x].body)) => Rising(Decode(m[x].body))
    <3>1. CASE x # k
      BY <1>24, <3>1
    <3>2. CASE x = k
      <4>1. /\ FIDsOf(m[x]) \subseteq FIDsOf(Plus(m, r)[x])
            /\ Rising(Decode(Plus(m, r)[x].body)) => Rising(Decode(m[x].body))
        BY <1>22, PlusUnder
      <4>2. QED
        BY <1>21, <1>24, <1>30, <3>2, <4>1
    <3>3. QED
      BY <3>1, <3>2
  <2>2. QED
    BY <2>1 DEF Under
<1>33. ListsTrue'
  BY <1>1, <1>5, <1>22, <1>29, <1>31 DEF Clean, ListsTrue, n
<1>34. AckedRead'
  <2>1. ASSUME NEW p \in acked PROVE ReadIn(n, p[1], p[2]) /\ ReadIn(Whole, p[1], p[2])
    <3>1. ReadIn(m, p[1], p[2]) /\ ReadIn(Whole, p[1], p[2])
      BY DEF Clean, AckedRead, m
    <3>2. QED
      BY <1>32, <3>1, UnderReads
  <2>2. QED
    BY <1>1, <1>29, <2>1 DEF AckedRead, n
<1>35. \A t \in Terms : Waiting(t)' = Waiting(t)
  BY <1>1, <1>5 DEF Waiting
<1>36. JobTrue' /\ CacheRises' /\ Ahead' /\ SessionSafe'
  BY <1>1, <1>5, <1>29, <1>35, TasksKept DEF TypeInv, ScalarTypes
<1>37. NoFailure' /\ Phases' /\ LiveCache'
  BY <1>1, <1>5, <1>9, <1>10, <1>12, <1>16, <1>17 DEF Clean, NoFailure, Phases, LiveCache
<1>38. Unsent'
  <2>1. Target' = delta'
    BY <1>1 DEF Target
  <2>2. QED
    BY <1>1, <1>5, <1>16, <1>17, <2>1 DEF Unsent
<1>39. QED
  BY <1>33, <1>34, <1>36, <1>37, <1>38 DEF Clean

\* The merge is over.
LEMMA EndMergeClean ==
  ASSUME TypeInv, MergeInv, op = "BUILD_MERGE", Clean, troubles' = 0, EndMerge
  PROVE  Clean'
<1>0. IsIndex(main) /\ IsIndex(delta) /\ main.status = "ok" /\ delta.status = "ok"
  BY DEF TypeInv, Clean, NoFailure
<1>1. /\ pc = "merge" /\ mkeys = <<>> /\ UNCHANGED <<open, cache, op, main, accepted>>
  BY DEF EndMerge, indexer
<1>2. PICK fault \in Faults \ {"store"} :
       /\ Count(fault)
       /\ IF fault = "get" THEN Fail /\ UNCHANGED <<delta, session, acked>>
          ELSE /\ delta' = Drop(delta) /\ Acknowledge
               /\ pc' = "idle" /\ UNCHANGED <<ret, todo, job, mkeys, mbuf, failed>>
  BY Zenon DEF EndMerge
<1>3. fault = "none"
  BY <1>2, NoFault
<1>4. /\ delta' = Drop(delta) /\ acked' = acked \cup session /\ session' = {}
      /\ pc' = "idle" /\ UNCHANGED <<todo, job, mkeys, failed>>
  BY <1>2, <1>3 DEF Acknowledge
<1>5. /\ Written(main) = View(main) /\ DOMAIN main.cache = {} /\ DOMAIN delta.cache = {}
      /\ job = NoJob /\ ~open
  BY <1>1, WrittenViews DEF MergeInv, CacheClean, Clean, LiveCache, TypeInv, JobInFlush, Phases
<1>6. Whole = View(main)
  <2>1. ToSet(<<>>) = {}
    BY DEF ToSet
  <2>2. DOMAIN Rest = {}
    BY <1>1, <2>1 DEF Rest
  <2>3. QED
    BY <1>5, <2>2, WholeIs
<1>7. DOMAIN Written(delta') = {} /\ delta'.sched = <<>> /\ delta'.status = "ok"
  <2>1. DOMAIN Written(delta') = {} /\ delta'.status = "ok"
    BY <1>0, <1>4, <1>5, EmptyWritten, StatusKept
  <2>2. delta'.sched = <<>>
    BY <1>0, <1>4 DEF Drop, IsIndex
  <2>3. QED
    BY <2>1, <2>2
<1>8. Whole' = Whole
  <2>1. TypeInv'
    BY NextType DEF Next
  <2>2. (DOMAIN Written(delta) = {} => Whole = Written(main))'
    BY <2>1, WholeIs, PTL
  <2>3. QED
    BY <1>1, <1>5, <1>6, <1>7, <2>2
<1>9. ListsTrue'
  BY <1>1, <1>6, <1>8, SameLists
<1>10. AckedRead'
  <2>1. \A p \in session : ReadIn(Whole, p[1], p[2])
    BY <1>1 DEF Clean, SessionSafe
  <2>2. QED
    BY <1>1, <1>4, <1>6, <1>8, <2>1 DEF Clean, AckedRead
<1>11. JobTrue' /\ CacheRises' /\ SessionSafe'
  BY <1>1, <1>4, <1>5 DEF JobTrue, CacheRises, SessionSafe
<1>12. \A t \in Terms : Waiting(t)' = {}
  BY <1>1, <1>4, <1>5 DEF Waiting
<1>13. Ahead'
  BY <1>12 DEF Ahead
<1>14. NoFailure' /\ Phases' /\ LiveCache'
  BY <1>0, <1>1, <1>4, <1>5, <1>7 DEF Clean, NoFailure, Phases, LiveCache
<1>15. Unsent'
  <2>1. Target' = delta'
    BY <1>1 DEF Target
  <2>2. QED
    BY <1>1, <1>4, <1>7, <2>1 DEF Clean, Unsent
<1>16. QED
  BY <1>9, <1>10, <1>11, <1>13, <1>14, <1>15 DEF Clean

-----------------------------------------------------------------------------
(* A chunk is appended.                                                    *)

\* The record there is of a key once a block is cached.
LEMMA CachesAt ==
  ASSUME NEW w, NEW ix, NEW id, NEW b, Caches(w, ix, id, b)
  PROVE  /\ \A k : k \in DOMAIN Written(w) <=> k \in DOMAIN Written(ix) \/ k = <<ix.clist, id>>
         /\ \A k : At(Written(w), k) = IF k = <<ix.clist, id>> THEN b ELSE At(Written(ix), k)
<1> DEFINE key == <<ix.clist, id>>
<1>1. /\ DOMAIN Written(w) = DOMAIN Written(ix) \cup {key}
      /\ Written(w)[key] = b
      /\ \A k \in DOMAIN Written(ix) : k # key => Written(w)[k] = Written(ix)[k]
  BY DEF Caches
<1> HIDE DEF key
<1>2. \A k : k \in DOMAIN Written(w) <=> k \in DOMAIN Written(ix) \/ k = key
  BY <1>1
<1>3. \A k : At(Written(w), k) = IF k = key THEN b ELSE At(Written(ix), k)
  BY <1>1 DEF At
<1>4. QED
  BY <1>2, <1>3 DEF key

\* A chunk appended to a block is added to its list.
LEMMA AppendAdded ==
  ASSUME NEW ix, IsIndex(ix), NoneEmpty(ix),
         NEW t \in Terms, ix.clist = t, NEW lh \in Nat \ {0}, NEW hdr \in Headers, hdr.ID = lh,
         NEW code \in Seq(Nat), NEW new \in BOOLEAN, new => <<t, lh>> \notin DOMAIN Written(ix),
         NEW n, n = AppendChunk(ix, t, lh, hdr, code, new)
  PROVE  Added(Written(ix), Written(n), t, lh, hdr, code, new)
<1> DEFINE d == Written(ix)
           e == Written(n)
<1>1. hdr # NullHdr
  BY DEF NullHdr
<1>2. PICK w :
        /\ Caches(w, ix, hdr.ID, [lh |-> IF hdr.ID = 1 THEN lh ELSE 0, hdr |-> hdr,
                                  body |-> At(Written(ix), <<t, hdr.ID>>).body \o code])
        /\ IF new /\ hdr.ID # 1
           THEN Caches(n, w, 1, [At(Written(w), <<t, 1>>) EXCEPT !.lh = lh])
           ELSE n = w
  <2>1. new => <<t, hdr.ID>> \notin DOMAIN Written(ix)
    OBVIOUS
  <2>2. Appended(n, ix, t, lh, hdr, code, new)
    BY <1>1, <2>1, AppendCaches
  <2>3. QED
    BY <2>2, Zenon DEF Appended
<1> DEFINE k == <<t, lh>>
           old == At(d, k)
           b == [lh |-> IF lh = 1 THEN lh ELSE 0, hdr |-> hdr, body |-> old.body \o code]
<1>3. b.hdr = hdr /\ b.lh = (IF lh = 1 THEN lh ELSE 0) /\ b.body = old.body \o code
  OBVIOUS
<1>4. Caches(w, ix, lh, b)
  BY <1>2
<1> HIDE DEF b
<1>5. IsIndex(w) /\ w.clist = t
  BY <1>4 DEF Caches
<1>6. /\ \A x : x \in DOMAIN Written(w) <=> x \in DOMAIN d \/ x = k
      /\ \A x : At(Written(w), x) = IF x = k THEN b ELSE At(d, x)
      /\ \A u : CountIn(Written(w), u) = IF u = t /\ lh = 1 THEN b.lh ELSE CountIn(d, u)
  BY <1>4, CachesAt, CachesCounts
<1> DEFINE v == Written(w)
<1> HIDE DEF v
<1>7. /\ \A x : x \in DOMAIN e <=> x \in DOMAIN v \/ (new /\ x = <<t, 1>>)
      /\ \A x : x # <<t, 1>> => At(e, x) = At(v, x)
      /\ At(e, <<t, 1>>).hdr = At(v, <<t, 1>>).hdr /\ At(e, <<t, 1>>).body = At(v, <<t, 1>>).body
      /\ CountIn(e, t) = IF new \/ lh = 1 THEN lh ELSE CountIn(d, t)
  <2>1. CASE new /\ lh # 1
    <3> DEFINE first == At(Written(w), <<t, 1>>)
               one == [first EXCEPT !.lh = lh]
    <3>1. Caches(n, w, 1, one) /\ first \in BlockRecords
      BY <1>2, <1>5, <2>1, WrittenAt, AtType
    <3> HIDE DEF first
    <3>2. one.lh = lh /\ one.hdr = first.hdr /\ one.body = first.body
      BY <3>1 DEF BlockRecords
    <3> HIDE DEF one
    <3>3. /\ \A x : x \in DOMAIN e <=> x \in DOMAIN Written(w) \/ x = <<t, 1>>
          /\ \A x : At(e, x) = IF x = <<t, 1>> THEN one ELSE At(Written(w), x)
          /\ CountIn(e, t) = one.lh
      <4>1. /\ \A x : x \in DOMAIN e <=> x \in DOMAIN Written(w) \/ x = <<w.clist, 1>>
            /\ \A x : At(e, x) = IF x = <<w.clist, 1>> THEN one ELSE At(Written(w), x)
        BY <3>1, CachesAt
      <4>2. \A u : CountIn(e, u) = IF u = w.clist /\ 1 = 1 THEN one.lh ELSE CountIn(Written(w), u)
        BY <3>1, CachesCounts
      <4>3. QED
        BY <1>5, <4>1, <4>2
    <3>4. QED
      BY <2>1, <3>2, <3>3 DEF v, first
  <2>2. CASE ~(new /\ lh # 1)
    <3>1. e = v
      BY <1>2, <2>2 DEF v
    <3>2. CountIn(v, t) = IF lh = 1 THEN lh ELSE CountIn(d, t)
      BY <1>3, <1>6 DEF v
    <3>3. new => k \in DOMAIN v /\ k = <<t, 1>>
      BY <1>6, <2>2 DEF v
    <3> HIDE DEF e
    <3>4. QED
      BY <2>2, <3>1, <3>2, <3>3
  <2>3. QED
    BY <2>1, <2>2
<1>8. /\ \A x : x \in DOMAIN v <=> x \in DOMAIN d \/ x = k
      /\ \A x : At(v, x) = IF x = k THEN b ELSE At(d, x)
  BY <1>6 DEF v
<1> HIDE DEF d, e
<1>9. \A c : Has(e, t, c) <=> Has(d, t, c) \/ c = lh \/ (new /\ c = 1)
  BY <1>7, <1>8 DEF Has
<1>10. At(e, k).hdr = hdr /\ At(e, k).body = old.body \o code
  <2>1. At(v, k).hdr = hdr /\ At(v, k).body = old.body \o code
    BY <1>3, <1>8
  <2>2. At(e, k).hdr = At(v, k).hdr /\ At(e, k).body = At(v, k).body
    <3> HIDE DEF k
    <3>1. QED
      BY <1>7
  <2>3. QED
    BY <2>1, <2>2
<1>11. ASSUME NEW c, c # lh
       PROVE  At(e, <<t, c>>).hdr = At(d, <<t, c>>).hdr /\ At(e, <<t, c>>).body = At(d, <<t, c>>).body
  <2> DEFINE x == <<t, c>>
  <2>1. x # k
    BY <1>11
  <2> HIDE DEF x, k
  <2>2. At(v, x) = At(d, x)
    BY <1>8, <2>1
  <2>3. At(e, x).hdr = At(v, x).hdr /\ At(e, x).body = At(v, x).body
    BY <1>7
  <2>4. QED
    BY <2>2, <2>3 DEF x
<1>12. ASSUME NEW u, NEW c, u # t
       PROVE  (Has(e, u, c) <=> Has(d, u, c)) /\ (Has(d, u, c) => e[<<u, c>>] = d[<<u, c>>])
  <2> DEFINE x == <<u, c>>
  <2>1. x # k /\ x # <<t, 1>>
    BY <1>12
  <2> HIDE DEF x, k
  <2>2. (x \in DOMAIN e <=> x \in DOMAIN d) /\ At(e, x) = At(d, x)
    BY <1>7, <1>8, <2>1
  <2>3. QED
    BY <2>2 DEF At, Has, x
<1>13. QED
  BY <1>7, <1>9, <1>10, <1>11, <1>12 DEF Added, d, e

\* An index that has all its parts, and the parts of it an append leaves alone.
Parts(x) == x \in [server : {x.server}, sched : {x.sched}, status : {x.status}, keys : {x.keys},
                   clist : {x.clist}, accum : {x.accum}, cache : {x.cache}]

SameParts(x, y) ==
  x.server = y.server /\ x.sched = y.sched /\ x.status = y.status /\ x.clist = y.clist

GrownTo(y, x, a, c, k) == y = [x EXCEPT !.accum = a, !.cache = c, !.keys = k]

\* A grown index keeps its parts.
LEMMA PartsGrow ==
  ASSUME NEW x, Parts(x), NEW a, NEW c, NEW k,
         NEW y, GrownTo(y, x, a, c, k)
  PROVE  Parts(y) /\ SameParts(y, x) /\ y.cache = c
<1>0. y = [x EXCEPT !.accum = a, !.cache = c, !.keys = k]
  BY DEF GrownTo
<1>1. /\ y.server = x.server /\ y.sched = x.sched /\ y.status = x.status /\ y.clist = x.clist
      /\ y.accum = a /\ y.cache = c /\ y.keys = k
  BY <1>0 DEF Parts
<1>2. y \in [server : {x.server}, sched : {x.sched}, status : {x.status}, keys : {k},
             clist : {x.clist}, accum : {a}, cache : {c}]
  BY <1>0 DEF Parts
<1>3. Parts(y)
  BY <1>1, <1>2 DEF Parts
<1>4. SameParts(y, x)
  BY <1>1 DEF SameParts
<1>5. QED
  BY <1>1, <1>3, <1>4

\* What an append leaves alone.
LEMMA AppendFields ==
  ASSUME NEW ix, IsIndex(ix), NEW t, NEW lh, NEW hdr, NEW code, NEW new,
         NEW n, n = AppendChunk(ix, t, lh, hdr, code, new)
  PROVE  /\ n.server = ix.server /\ n.sched = ix.sched /\ n.status = ix.status /\ n.clist = ix.clist
         /\ DOMAIN n.cache # {} /\ View(n) = View(ix)
<1>1. Parts(ix)
  BY DEF IsIndex, Parts
<1>2. \A c, i, b : DOMAIN Put(c, i, b) # {}
  BY DEF Put
<1> DEFINE old == Fetch(ix, t, hdr.ID, new)
           block == [lh |-> IF hdr.ID = 1 THEN lh ELSE 0, hdr |-> hdr, body |-> old.body \o code]
           a1 == ix.accum + Len(code)
           c1 == Put(ix.cache, hdr.ID, block)
           k1 == Keys(ix, t, hdr.ID, old)
           i1 == [ix EXCEPT !.accum = a1, !.cache = c1, !.keys = k1]
           c2 == Put(i1.cache, 1, [Fetch(i1, t, 1, FALSE) EXCEPT !.lh = lh])
           k2 == Keys(i1, t, 1, Fetch(i1, t, 1, FALSE))
           i2 == [i1 EXCEPT !.cache = c2, !.keys = k2]
<1>3. n = IF new /\ hdr.ID # 1 THEN i2 ELSE i1
  BY DEF AppendChunk, UpdateListHeader
<1>4. DOMAIN c1 # {} /\ DOMAIN c2 # {}
  BY <1>2
<1>11. GrownTo(i1, ix, a1, c1, k1)
  BY Zenon DEF GrownTo
<1> HIDE DEF a1, c1, k1, i1
<1>5. Parts(i1) /\ SameParts(i1, ix) /\ i1.cache = c1
  BY <1>1, <1>11, PartsGrow
<1> HIDE DEF c2, k2
<1>6. GrownTo(i2, i1, i1.accum, c2, k2)
  BY <1>5 DEF Parts, GrownTo
<1> HIDE DEF i2
<1>7. SameParts(i2, i1) /\ i2.cache = c2
  BY <1>5, <1>6, PartsGrow
<1>8. SameParts(n, ix) /\ DOMAIN n.cache # {}
  BY <1>3, <1>4, <1>5, <1>7 DEF SameParts
<1>9. View(n) = View(ix)
  BY <1>8 DEF View, Stored, StoresOn, SameParts
<1>10. QED
  BY <1>8, <1>9 DEF SameParts

\* Where the next chunk of the list under way goes, and how.
ChunkGoes(t, lh, hdr, code, chunk, new) ==
  /\ t = job.term /\ lh = (IF Fits THEN job.lh ELSE job.lh + 1) /\ hdr = ChunkHeader
  /\ code = Encode(Chunk, Base) /\ chunk = Chunk /\ new \in BOOLEAN /\ (new <=> ~Fits)

\* It goes to the end of the list, with a header that is true.
LEMMA ChunkPlaced ==
  ASSUME TypeInv, Clean, job # NoJob, NEW t, NEW lh, NEW hdr, NEW code, NEW chunk, NEW new,
         ChunkGoes(t, lh, hdr, code, chunk, new)
  PROVE  /\ Placed(Whole, t, lh, code, chunk, new) /\ Fitting(Whole, t, lh, hdr, code, chunk)
         /\ t \in Terms /\ hdr \in Headers /\ hdr.ID = lh /\ lh \in Nat \ {0} /\ new \in BOOLEAN
         /\ new => ~Has(Whole, t, lh)
<1>0. /\ t = job.term /\ lh = (IF Fits THEN job.lh ELSE job.lh + 1) /\ hdr = ChunkHeader
      /\ code = Encode(chunk, Base) /\ chunk = Chunk /\ new \in BOOLEAN /\ (new <=> ~Fits)
  BY DEF ChunkGoes
<1>1. /\ t \in Terms /\ Waiting(t) = ToSet(job.rest) /\ Rising(job.rest)
      /\ job.lh = CountIn(Whole, t) /\ job.lh \in Nat
      /\ \A b : Has(Whole, t, b) <=> b \in 1..job.lh
      /\ job.lh = 0 => job.hdr = NullHdr
      /\ job.lh # 0 => /\ Has(Whole, t, job.lh) /\ TrueBlock(job.lh, Whole[<<t, job.lh>>])
                       /\ job.hdr = Whole[<<t, job.lh>>].hdr
  BY <1>0, JobPlace
<1>2. /\ chunk \in Seq(1..MaxFID) /\ chunk # <<>> /\ Last(chunk) \in 1..MaxFID
      /\ Base \in Nat /\ hdr \in Headers
  BY <1>0, ChunkType
<1>3. Rising(chunk) /\ ToSet(chunk) \subseteq ToSet(job.rest)
  <2> DEFINE X == 1..MaxFID
             r == job.rest
  <2>1. X \in SUBSET Int /\ r \in Seq(X)
    BY CBSessionAssumption DEF TypeInv, CallTypes, Jobs
  <2>2. PICK n \in 1..Len(r) : chunk = SubSeq(r, 1, n)
    BY <1>0, ChunkPiece
  <2> HIDE DEF X, r
  <2>3. Rising(r)
    BY <1>1 DEF r
  <2> DEFINE head == SubSeq(r, 1, n)
             tail == SubSeq(r, n + 1, Len(r))
  <2>4. Rising(head) /\ ToSet(r) = ToSet(head) \cup ToSet(tail)
    BY <2>1, <2>2, <2>3, RisingPieces
  <2> HIDE DEF head, tail
  <2>5. chunk = head
    BY <2>2 DEF head
  <2>6. QED
    BY <2>4, <2>5 DEF r
<1>4. \A f \in ToSet(chunk) : Before(Whole, t, f)
  BY <1>1, <1>3 DEF Clean, Ahead
<1>5. job.lh # 0 => /\ job.hdr.ID = job.lh /\ job.hdr.BodySize = Len(Whole[<<t, job.lh>>].body)
                    /\ job.hdr.FIDmax = Last(Decode(Whole[<<t, job.lh>>].body))
                    /\ Whole[<<t, job.lh>>].body # <<>>
  BY <1>1 DEF TrueBlock, BlockHeaderExact
<1>6. job.lh = 0 => new /\ job.hdr.ID = 0
  BY <1>0, <1>1 DEF Fits, NullHdr
<1>7. lh \in Nat \ {0} /\ lh = (IF new THEN job.lh + 1 ELSE job.lh)
  BY <1>0, <1>1, <1>6
<1>8. job.hdr.ID = job.lh /\ job.hdr \in Headers
  BY <1>5, <1>6 DEF TypeInv, CallTypes, Jobs
<1>9. /\ hdr.ID = lh /\ hdr.FIDmax = Last(chunk)
      /\ hdr.BodySize = IF new THEN Len(chunk) ELSE job.hdr.BodySize + Len(chunk)
  BY <1>0, <1>7, <1>8 DEF ChunkHeader, Headers
<1>10. new => ~Has(Whole, t, lh)
  BY <1>1, <1>7
<1> DEFINE body == At(Whole, <<t, lh>>).body
<1>11. body \in Seq(Nat)
  BY WholeTypes, AtType
<1>12. body = IF new THEN <<>> ELSE Whole[<<t, job.lh>>].body
  BY <1>1, <1>6, <1>7, <1>10 DEF At, Has, NoBlock
<1>13. Base = IF body = <<>> THEN 0 ELSE Last(Decode(body))
  <2>1. ~new => job.lh # 0
    BY <1>6
  <2>2. Base = IF new THEN 0 ELSE job.hdr.FIDmax
    BY <1>0 DEF Base
  <2> HIDE DEF body
  <2>3. QED
    BY <1>5, <1>12, <2>1, <2>2
<1> HIDE DEF body
<1>14. /\ code \in Seq(Nat) /\ Len(code) = Len(chunk)
       /\ Decode(body \o code) = Decode(body) \o chunk
  <2>1. chunk \in Seq(FIDs32)
    BY <1>2, FIDsFit
  <2>2. QED
    BY <1>0, <1>11, <1>13, <2>1, DecodeAppend
<1>15. code # <<>> /\ Len(code) \in Nat
  <2>1. Len(code) \in Nat \ {0}
    BY <1>2, <1>14, EmptySeq
  <2>2. QED
    BY <1>14, <2>1, EmptySeq
<1>16. Placed(Whole, t, lh, code, chunk, new)
  BY <1>1, <1>7, <1>14 DEF Placed, body
<1>17. hdr.BodySize = Len(code) + IF lh = CountIn(Whole, t) THEN Whole[<<t, lh>>].hdr.BodySize ELSE 0
  <2>1. CASE new
    <3>1. lh # CountIn(Whole, t)
      BY <1>1, <1>7, <2>1
    <3>2. QED
      BY <1>9, <1>14, <1>15, <2>1, <3>1
  <2>2. CASE ~new
    <3>1. lh = job.lh /\ job.lh # 0 /\ lh = CountIn(Whole, t)
      BY <1>1, <1>6, <1>7, <2>2
    <3>2. Whole[<<t, lh>>].hdr.BodySize = job.hdr.BodySize
      BY <1>1, <3>1
    <3>3. job.hdr.BodySize \in Nat
      BY <1>8 DEF Headers
    <3>4. QED
      BY <1>9, <1>14, <1>15, <2>2, <3>1, <3>2, <3>3
  <2>3. QED
    BY <1>0, <2>1, <2>2
<1>18. lh \in {CountIn(Whole, t), CountIn(Whole, t) + 1}
  BY <1>1, <1>7
<1>19. Fitting(Whole, t, lh, hdr, code, chunk)
  BY <1>2, <1>3, <1>4, <1>7, <1>9, <1>14, <1>15, <1>17, <1>18 DEF Fitting
<1>20. QED
  BY <1>0, <1>1, <1>2, <1>7, <1>9, <1>10, <1>16, <1>19

\* What becomes of the indexes when a chunk is appended.
Emitted(n, t, lh, hdr, code, chunk) ==
  /\ Extended(Whole, Whole', t, lh, hdr, code, chunk) /\ View(main') = View(main)
  /\ NoFailure' /\ Target' = n /\ DOMAIN n.cache # {} /\ n.clist = t
  /\ op = "BUILD" => main' = n /\ delta' = delta
  /\ op = "BUILD_MERGE" => delta' = n /\ main' = main

\* The chunk extends the list it belongs to.
LEMMA EmitExtends ==
  ASSUME TypeInv, op = "BUILD_MERGE" => MergeInv, Clean, job # NoJob, pc = "flush",
         NEW t, NEW lh, NEW hdr, NEW code, NEW chunk, NEW new, ChunkGoes(t, lh, hdr, code, chunk, new),
         NEW ix \in {Target} \cup Waits(Target, "none"), Target.clist = t,
         NEW n, n = AppendChunk(ix, t, lh, hdr, code, new), SetTarget({n}),
         TypeInv', UNCHANGED <<op, pc, failed>>
  PROVE  Emitted(n, t, lh, hdr, code, chunk)
<1>1. /\ Placed(Whole, t, lh, code, chunk, new) /\ Fitting(Whole, t, lh, hdr, code, chunk)
      /\ t \in Terms /\ hdr \in Headers /\ hdr.ID = lh /\ lh \in Nat \ {0} /\ new \in BOOLEAN
      /\ new => ~Has(Whole, t, lh)
  BY ChunkPlaced
<1>2. code \in Seq(Nat) /\ hdr # NullHdr
  BY <1>1 DEF Fitting, NullHdr
<1> DEFINE d == Written(Target)
           e == Written(n)
           m == Written(main)
<1>3. IsIndex(Target) /\ Target.status = "ok"
  BY TargetType DEF Clean, NoFailure, Target
<1>4. IsIndex(ix) /\ Written(ix) = d /\ View(ix) = View(Target) /\ ix.clist = t /\ ix.status = "ok"
  BY <1>3, WaitedSame, WaitType
<1>5. /\ op = "BUILD" => Whole = d /\ d = m
      /\ op = "BUILD_MERGE" => Whole = Plus(m, d) /\ d = Written(delta)
  BY CleanWhole, WholeIs
<1>6. NoneEmpty(ix)
  <2>1. CASE op = "BUILD"
    <3>1. AreRecords(Whole, BlockKeys) /\ KnownIn(Whole, accepted) /\ Written(ix) = Whole
      BY <1>4, <1>5, <2>1, WholeTypes DEF Clean, ListsTrue
    <3>2. ASSUME NEW k \in DOMAIN Whole PROVE Whole[k] # NoBlock
      <4>1. k = <<k[1], k[2]>> /\ k[1] \in Terms
        BY <3>1 DEF AreRecords, BlockKeys
      <4>2. Has(Whole, k[1], k[2])
        BY <4>1 DEF Has
      <4>3. Whole[<<k[1], k[2]>>].body # <<>>
        BY <3>1, <4>1, <4>2 DEF KnownIn
      <4>4. QED
        BY <4>1, <4>3 DEF NoBlock
    <3>3. QED
      BY <3>1, <3>2 DEF NoneEmpty
  <2>2. CASE op = "BUILD_MERGE"
    BY <1>4, <1>5, <2>2 DEF MergeInv, DeltaRecords, NoneEmpty
  <2>3. QED
    BY <2>1, <2>2, TwoOps
<1>7. new => <<t, lh>> \notin DOMAIN Written(ix)
  <2>1. op = "BUILD_MERGE" /\ <<t, lh>> \in DOMAIN d => <<t, lh>> \in DOMAIN Whole
    BY <1>5, PlusAt
  <2>2. QED
    BY <1>1, <1>4, <1>5, <2>1, TwoOps DEF Has
<1>8. Added(d, e, t, lh, hdr, code, new)
  <2>1. Added(Written(ix), e, t, lh, hdr, code, new)
    BY <1>1, <1>2, <1>4, <1>6, <1>7, AppendAdded
  <2>2. QED
    BY <1>4, <2>1
<1>9. /\ n.status = "ok" /\ n.clist = t /\ DOMAIN n.cache # {} /\ View(n) = View(Target)
  BY <1>4, AppendFields
<1>10. /\ op = "BUILD" => main' = n /\ delta' = delta /\ Target' = n
       /\ op = "BUILD_MERGE" => delta' = n /\ main' = main /\ Target' = n
  BY DEF SetTarget, Target
<1>11. NoFailure' /\ Target' = n /\ View(main') = View(main)
  <2>1. CASE op = "BUILD"
    BY <1>9, <1>10, <2>1 DEF Clean, NoFailure, Target
  <2>2. CASE op = "BUILD_MERGE"
    BY <1>9, <1>10, <2>2 DEF Clean, NoFailure, Target
  <2>3. QED
    BY <2>1, <2>2, TwoOps
<1>12. AreRecords(m, BlockKeys) /\ AreRecords(d, BlockKeys) /\ AreRecords(e, BlockKeys)
  <2>1. IsIndex(main') /\ IsIndex(delta') /\ IsIndex(main)
    BY DEF TypeInv
  <2>2. IsIndex(n) /\ IsIndex(main)
    BY <1>10, <2>1, TwoOps
  <2>3. QED
    BY <1>3, <2>2, WrittenAt
<1>13. (pc # "merge" => Whole = Plus(Written(main), Written(delta)))'
  BY WholeIs, PTL
<1>14. (DOMAIN Written(delta) = {} => Whole = Written(main))'
  BY WholeIs, PTL
<1>15. Extended(Whole, Whole', t, lh, hdr, code, chunk)
  <2>1. CASE op = "BUILD"
    <3>1. Whole' = e
      <4>1. DOMAIN Written(delta) = {}
        BY <2>1 DEF Clean, LiveCache
      <4>2. QED
        BY <1>10, <1>14, <2>1, <4>1
    <3>2. Placed(d, t, lh, code, chunk, new)
      BY <1>1, <1>5, <2>1
    <3> HIDE DEF d, e
    <3>3. Extended(d, e, t, lh, hdr, code, chunk)
      BY <1>1, <1>8, <3>2, AddedExtends
    <3>4. QED
      BY <1>5, <2>1, <3>1, <3>3
  <2>2. CASE op = "BUILD_MERGE"
    <3>1. Whole' = Plus(m, e)
      BY <1>10, <1>13, <2>2
    <3>2. Placed(Plus(m, d), t, lh, code, chunk, new)
      BY <1>1, <1>5, <2>2
    <3> HIDE DEF d, e, m
    <3>3. Extended(Plus(m, d), Plus(m, e), t, lh, hdr, code, chunk)
      BY <1>1, <1>2, <1>8, <1>12, <3>2, PlusExtends
    <3>4. QED
      BY <1>5, <2>2, <3>1, <3>3
  <2>3. QED
    BY <2>1, <2>2, TwoOps
<1>16. QED
  BY <1>9, <1>10, <1>11, <1>15 DEF Emitted

\* The rest of the list under way is behind the chunk.
LEMMA ChunkRest ==
  ASSUME TypeInv, job # NoJob, Rising(job.rest), NEW rest, rest = SubSeq(job.rest, Len(Chunk) + 1, Len(job.rest))
  PROVE  /\ Rising(rest) /\ ToSet(job.rest) = ToSet(Chunk) \cup ToSet(rest)
         /\ Below(ToSet(Chunk), ToSet(rest))
<1> DEFINE X == 1..MaxFID
           r == job.rest
<1>1. X \in SUBSET Int /\ r \in Seq(X) /\ Rising(r)
  BY CBSessionAssumption DEF TypeInv, CallTypes, Jobs
<1>2. PICK n \in 1..Len(r) : Chunk = SubSeq(r, 1, n) /\ Len(Chunk) = n
  BY ChunkPiece
<1> HIDE DEF X, r
<1> DEFINE head == SubSeq(r, 1, n)
           tail == SubSeq(r, n + 1, Len(r))
<1>3. Rising(tail) /\ ToSet(r) = ToSet(head) \cup ToSet(tail) /\ Below(ToSet(head), ToSet(tail))
  BY <1>1, <1>2, RisingPieces
<1>4. Chunk = head /\ rest = tail
  BY <1>2 DEF r
<1> HIDE DEF head, tail
<1>5. QED
  BY <1>3, <1>4 DEF r

\* What is read of the lists once a chunk is appended.
LEMMA EmittedReads ==
  ASSUME TypeInv, Clean, job # NoJob,
         NEW t, NEW lh, NEW hdr, NEW code, NEW chunk, NEW new, ChunkGoes(t, lh, hdr, code, chunk, new),
         NEW w, AreRecords(w, BlockKeys), Extended(Whole, w, t, lh, hdr, code, chunk)
  PROVE  /\ TrueLists(w) /\ KnownIn(w, accepted)
         /\ CountIn(w, t) = lh /\ w[<<t, lh>>].hdr = hdr /\ lh # 0
         /\ \A u, f : ReadIn(Whole, u, f) => ReadIn(w, u, f)
         /\ \A f \in ToSet(chunk) : ReadIn(w, t, f)
         /\ \A f : Before(Whole, t, f) /\ (\A g \in ToSet(chunk) : g < f) => Before(w, t, f)
         /\ \A u \in Terms \ {t} : \A f : Before(Whole, u, f) => Before(w, u, f)
<1>1. /\ Fitting(Whole, t, lh, hdr, code, chunk) /\ t \in Terms /\ lh \in Nat \ {0}
  BY ChunkPlaced
<1> DEFINE r == Whole
<1>2. AreRecords(r, BlockKeys) /\ TrueLists(r) /\ KnownIn(r, accepted)
  BY WholeTypes DEF Clean, ListsTrue
<1>3. chunk = Chunk /\ t = job.term
  BY DEF ChunkGoes
<1>4. \A f \in ToSet(chunk) : <<t, f>> \in accepted
  <2>1. ToSet(chunk) \subseteq ToSet(job.rest)
    BY <1>3, ChunkRest DEF Clean, JobTrue
  <2>2. Waiting(t) = ToSet(job.rest)
    BY <1>3, JobPlace
  <2>3. QED
    BY <1>1, <2>1, <2>2 DEF Clean, Ahead
<1>5. Extended(r, w, t, lh, hdr, code, chunk) /\ Fitting(r, t, lh, hdr, code, chunk)
  BY <1>1
<1> HIDE DEF r
<1>6. /\ TrueLists(w)
      /\ \A f : Before(r, t, f) /\ (\A g \in ToSet(chunk) : g < f) => Before(w, t, f)
      /\ \A u \in Terms \ {t} : \A f : Before(r, u, f) => Before(w, u, f)
  BY <1>1, <1>2, <1>5, ChunkTrue
<1>7. KnownIn(w, accepted)
  BY <1>1, <1>2, <1>4, <1>5, ChunkKnown
<1>8. CountIn(w, t) = lh /\ w[<<t, lh>>].hdr = hdr
  BY <1>5, Zenon DEF Extended
<1>9. \A b \in 1..lh : Has(w, t, b)
  BY <1>1, <1>6, <1>8 DEF TrueLists, TrueList, Tidy
<1>10. Coded(r, t) /\ chunk \in Seq(FIDs32)
  BY <1>1, <1>2, RecordsCoded, FIDsFit DEF Fitting
<1>11. /\ \A u, f : ReadIn(r, u, f) => ReadIn(w, u, f)
       /\ \A f \in ToSet(chunk) : ReadIn(w, t, f)
  BY <1>1, <1>5, <1>9, <1>10, ExtendedReads
<1>12. QED
  BY <1>1, <1>6, <1>7, <1>8, <1>11 DEF r

\* A chunk is appended.
LEMMA EmitClean ==
  ASSUME TypeInv, op = "BUILD_MERGE" => MergeInv, Clean, troubles' = 0, EmitChunk
  PROVE  Clean'
<1>0. PICK t, new : t = job.term /\ new \in BOOLEAN /\ (new <=> ~Fits)
  OBVIOUS
<1> DEFINE lh   == IF Fits THEN job.lh ELSE job.lh + 1
           hdr  == ChunkHeader
           code == Encode(Chunk, Base)
           rest == SubSeq(job.rest, Len(Chunk) + 1, Len(job.rest))
           good(w) == AppendChunk(w, job.term, lh, hdr, code, ~Fits)
           bad(w) == AppendFails(w, job.term, lh, hdr, code, ~Fits)
           next == IF rest = <<>> THEN NoJob ELSE [job EXCEPT !.lh = lh, !.hdr = hdr, !.rest = rest]
           reads == Reads(Target, hdr, ~Fits)
<1>1. /\ pc = "flush" /\ job # NoJob /\ Target.clist = t
      /\ UNCHANGED <<open, cache, op, accepted, session, acked>>
  BY <1>0 DEF EmitChunk, indexer, history
<1>2. PICK fault \in IF reads THEN Faults ELSE {"none"} :
        /\ Count(fault)
        /\ \E ix \in IF reads THEN Waits(Target, fault) ELSE {Target} :
             IF fault = "get" THEN SetTarget({bad(ix)}) /\ Fail
             ELSE /\ SetTarget({good(ix)}) /\ job' = next
                  /\ UNCHANGED <<pc, ret, todo, mkeys, mbuf, failed>>
  BY Zenon DEF EmitChunk
<1>3. fault = "none"
  BY <1>2, NoFault
<1>4. PICK ix \in {Target} \cup Waits(Target, "none") :
        /\ SetTarget({good(ix)}) /\ job' = next
        /\ UNCHANGED <<pc, ret, todo, mkeys, mbuf, failed>>
  <2>1. PICK ix \in IF reads THEN Waits(Target, fault) ELSE {Target} :
             IF fault = "get" THEN SetTarget({bad(ix)}) /\ Fail
             ELSE /\ SetTarget({good(ix)}) /\ job' = next
                  /\ UNCHANGED <<pc, ret, todo, mkeys, mbuf, failed>>
    BY <1>2, Zenon
  <2>2. /\ SetTarget({good(ix)}) /\ job' = next
        /\ UNCHANGED <<pc, ret, todo, mkeys, mbuf, failed>>
    BY <1>3, <2>1, Zenon
  <2>3. ix \in {Target} \cup Waits(Target, "none")
    BY <1>3, <2>1
  <2> HIDE DEF good, next
  <2>4. QED
    BY <2>2, <2>3
<1>5. TypeInv'
  BY EmitType
<1>6. (~Fits) = new
  BY <1>0
<1>7. PICK n : n = AppendChunk(ix, t, lh, hdr, code, new) /\ SetTarget({n})
  <2>1. SetTarget({AppendChunk(ix, t, lh, hdr, code, new)})
    BY <1>0, <1>4, <1>6
  <2>2. QED
    BY <2>1
<1>8. ChunkGoes(t, lh, hdr, code, Chunk, new)
  BY <1>0 DEF ChunkGoes
<1>9. job' = IF rest = <<>> THEN NoJob ELSE [job EXCEPT !.lh = lh, !.hdr = hdr, !.rest = rest]
  BY <1>4
<1>10. Rising(rest) /\ ToSet(job.rest) = ToSet(Chunk) \cup ToSet(rest) /\ Below(ToSet(Chunk), ToSet(rest))
  BY <1>1, ChunkRest DEF Clean, JobTrue
<1> HIDE DEF lh, hdr, code, rest, good, bad, next, reads
<1>11. Emitted(n, t, lh, hdr, code, Chunk)
  BY <1>1, <1>4, <1>5, <1>7, <1>8, EmitExtends
<1>12. PICK w : w = Whole'
  OBVIOUS
<1>13. /\ Extended(Whole, w, t, lh, hdr, code, Chunk) /\ View(main') = View(main)
       /\ NoFailure' /\ Target' = n /\ DOMAIN n.cache # {} /\ n.clist = t
       /\ op = "BUILD" => main' = n /\ delta' = delta
       /\ op = "BUILD_MERGE" => delta' = n /\ main' = main
  BY <1>11, <1>12 DEF Emitted
<1>14. AreRecords(w, BlockKeys)
  <2>1. (AreRecords(Whole, BlockKeys))'
    BY <1>5, WholeTypes, PTL
  <2>2. QED
    BY <1>12, <2>1
<1>15. /\ TrueLists(w) /\ KnownIn(w, accepted)
       /\ CountIn(w, t) = lh /\ w[<<t, lh>>].hdr = hdr /\ lh # 0
       /\ \A u, f : ReadIn(Whole, u, f) => ReadIn(w, u, f)
       /\ \A f \in ToSet(Chunk) : ReadIn(w, t, f)
       /\ \A f : Before(Whole, t, f) /\ (\A g \in ToSet(Chunk) : g < f) => Before(w, t, f)
       /\ \A u \in Terms \ {t} : \A f : Before(Whole, u, f) => Before(w, u, f)
  BY <1>1, <1>8, <1>13, <1>14, EmittedReads
<1>16. /\ t \in Terms /\ t \notin todo /\ open /\ Waiting(t) = ToSet(job.rest) /\ job.term = t
  BY <1>0, <1>1, JobPlace
<1>17. job' # NoJob => job'.term = t /\ job'.lh = lh /\ job'.hdr = hdr /\ job'.rest = rest
  <2>1. job \in Jobs
    BY DEF TypeInv, CallTypes
  <2>2. QED
    BY <1>9, <1>16, <2>1 DEF Jobs
<1>18. job' = NoJob => rest = <<>>
  <2>1. job \in Jobs
    BY DEF TypeInv, CallTypes
  <2>2. rest # <<>> => job'.term = t
    BY <1>9, <1>16, <2>1 DEF Jobs
  <2>3. QED
    BY <1>16, <2>2, CBIndexAssumption DEF NoJob
<1>19. /\ Waiting(t)' = ToSet(rest)
       /\ \A u \in Terms \ {t} : Waiting(u)' = Waiting(u)
  <2>1. ToSet(<<>>) = {}
    BY DEF ToSet
  <2>2. pc' = "flush" /\ todo' = todo /\ cache' = cache
    BY <1>1, <1>4
  <2>3. Waiting(t)' = ToSet(rest)
    BY <1>16, <1>17, <1>18, <2>1, <2>2 DEF Waiting
  <2>4. \A u \in Terms \ {t} : Waiting(u)' = Waiting(u)
    BY <1>1, <1>16, <1>17, <2>2 DEF Waiting
  <2>5. QED
    BY <2>3, <2>4
<1>20. ListsTrue'
  BY <1>1, <1>4, <1>12, <1>13, <1>15 DEF Clean, ListsTrue
<1>21. AckedRead'
  BY <1>1, <1>12, <1>13, <1>15 DEF Clean, AckedRead
<1>22. JobTrue'
  BY <1>10, <1>12, <1>15, <1>17 DEF JobTrue
<1>23. CacheRises'
  BY <1>1 DEF Clean, CacheRises
<1>24. Ahead'
  <2>1. ASSUME NEW f \in ToSet(rest) PROVE <<t, f>> \in accepted /\ Before(w, t, f)
    <3>1. <<t, f>> \in accepted /\ Before(Whole, t, f)
      BY <1>10, <1>16 DEF Clean, Ahead
    <3>2. \A g \in ToSet(Chunk) : g < f
      BY <1>10 DEF Below
    <3>3. QED
      BY <1>15, <3>1, <3>2
  <2>2. ASSUME NEW u \in Terms \ {t}, NEW f \in Waiting(u) PROVE <<u, f>> \in accepted /\ Before(w, u, f)
    <3>1. <<u, f>> \in accepted /\ Before(Whole, u, f)
      BY DEF Clean, Ahead
    <3>2. QED
      BY <1>15, <3>1
  <2>3. QED
    BY <1>1, <1>12, <1>19, <2>1, <2>2 DEF Ahead
<1>25. SessionSafe'
  <2>1. ASSUME NEW p \in session
        PROVE  ReadIn(w, p[1], p[2]) \/ p[2] \in Waiting(p[1])'
    <3>1. p[1] \in Terms
      BY DEF TypeInv, ScalarTypes
    <3>2. ReadIn(Whole, p[1], p[2]) \/ p[2] \in Waiting(p[1])
      BY <1>1 DEF Clean, SessionSafe
    <3>3. CASE ReadIn(Whole, p[1], p[2])
      BY <1>15, <3>3
    <3>4. CASE p[1] = t /\ p[2] \in ToSet(job.rest)
      BY <1>10, <1>15, <1>19, <3>4
    <3>5. CASE p[1] # t /\ p[2] \in Waiting(p[1])
      BY <1>19, <3>1, <3>5
    <3>6. QED
      BY <1>16, <3>2, <3>3, <3>4, <3>5
  <2>2. QED
    BY <1>1, <1>4, <1>12, <2>1 DEF SessionSafe
<1>26. Phases'
  BY <1>1, <1>4, <1>16, <1>17 DEF Phases
<1>27. LiveCache'
  BY <1>1, <1>4, <1>13, <1>16, TwoOps DEF Clean, LiveCache
<1>28. Unsent'
  BY <1>1, <1>4, <1>13 DEF Clean, Unsent
<1>29. QED
  BY <1>13, <1>20, <1>21, <1>22, <1>23, <1>24, <1>25, <1>26, <1>27, <1>28 DEF Clean

-----------------------------------------------------------------------------
(* Every step, and what follows.                                           *)

\* All is well with an empty store.
LEMMA InitClean == Init => Clean
<1> SUFFICES ASSUME Init PROVE Clean
  OBVIOUS
<1>0. TypeInv
  BY InitType
<1>1. /\ open = FALSE /\ pc = "idle" /\ job = NoJob /\ failed = FALSE
      /\ main = NewIndex /\ delta = NewIndex /\ accepted = {} /\ session = {} /\ acked = {}
  BY DEF Init
<1>2. /\ NewIndex.sched = <<>> /\ NewIndex.status = "ok" /\ DOMAIN NewIndex.cache = {}
      /\ DOMAIN View(NewIndex) = {} /\ DOMAIN Written(NewIndex) = {}
      /\ View(NewIndex) = Written(NewIndex)
  <2>1. /\ NewIndex.server = NoRecords /\ NewIndex.sched = <<>> /\ NewIndex.cache = NoRecords
        /\ NewIndex.status = "ok"
    BY DEF NewIndex
  <2>2. DOMAIN NoRecords = {} /\ DOMAIN <<>> = {} /\ IsIndex(NewIndex)
    BY NewType
  <2>3. View(NewIndex) = NoRecords
    BY <2>1, <2>2, ViewServer
  <2>4. Written(NewIndex) = NoRecords
    BY <2>1, <2>2, <2>3, WrittenViews
  <2>5. QED
    BY <2>1, <2>2, <2>3, <2>4
<1>3. Whole = Written(main) /\ Target = NewIndex
  BY <1>0, <1>1, <1>2, WholeIs DEF Target
<1>4. Len(<<>>) <= 1
  OBVIOUS
<1>5. NoFailure /\ Phases /\ LiveCache /\ Unsent
  BY <1>1, <1>2, <1>3, <1>4 DEF NoFailure, Phases, LiveCache, Unsent
<1>6. ListsTrue
  BY <1>1, <1>2, <1>3, EmptyTrue DEF ListsTrue
<1>7. JobTrue /\ CacheRises /\ Ahead /\ AckedRead /\ SessionSafe
  BY <1>1 DEF JobTrue, CacheRises, Ahead, AckedRead, SessionSafe, Waiting
<1>8. QED
  BY <1>5, <1>6, <1>7 DEF Clean

\* A trouble is never forgotten.
LEMMA TroubleStays ==
  ASSUME TypeInv, [Next]_vars, troubles' = 0
  PROVE  troubles = 0 /\ op' = op /\ ~Crash
<1>1. troubles \in Nat
  BY DEF TypeInv, CallTypes
<1>2. \A fault : Count(fault) => troubles = 0
  BY NoFault
<1>3. ~Crash
  BY <1>1 DEF Crash
<1>4. CASE \/ OpenStore \/ CloseStore \/ ClearStore \/ Abandon \/ Start \/ Flush
           \/ RejectChunk \/ MoveCache
  BY <1>1, <1>3, <1>4 DEF OpenStore, CloseStore, ClearStore, Abandon, Gone, Start, Flush, RejectChunk,
     MoveCache, store
<1>5. CASE \E flush \in BOOLEAN : End(flush)
  BY <1>1, <1>3, <1>5 DEF End
<1>6. CASE ReadList \/ EmitChunk \/ ExecuteBatch \/ MergeRecord \/ EndMerge
  <2>1. \E fault : Count(fault)
    BY <1>6, Zenon DEF ReadList, EmitChunk, ExecuteBatch, MergeRecord, EndMerge
  <2>2. op' = op
    BY <1>6 DEF ReadList, EmitChunk, ExecuteBatch, MergeRecord, EndMerge
  <2>3. QED
    BY <1>2, <1>3, <2>1, <2>2
<1>7. CASE \E f \in 1..MaxFID, ts \in Recordings : Index(f, ts)
  <2>1. \E fault : Count(fault)
    BY <1>7, Zenon DEF Index
  <2>2. op' = op
    BY <1>7 DEF Index
  <2>3. QED
    BY <1>2, <1>3, <2>1, <2>2
<1>8. CASE \E t \in Terms : BeginList(t)
  <2>1. \E fault : Count(fault)
    BY <1>8, Zenon DEF BeginList
  <2>2. op' = op
    BY <1>8 DEF BeginList
  <2>3. QED
    BY <1>2, <1>3, <2>1, <2>2
<1>9. CASE EndFlush \/ EndSession
  <2>1. (\E fault : Count(fault)) \/ troubles' = troubles
    BY <1>9, Zenon DEF EndFlush, EndSession
  <2>2. op' = op
    BY <1>9 DEF EndFlush, EndSession
  <2>3. QED
    BY <1>2, <1>3, <2>1, <2>2
<1>10. CASE UNCHANGED vars
  BY <1>1, <1>3, <1>10 DEF vars, store
<1>11. QED
  BY <1>3, <1>4, <1>5, <1>6, <1>7, <1>8, <1>9, <1>10, Zenon DEF Next

\* Every step keeps the lists right until the first trouble.
LEMMA NextClean ==
  ASSUME ReadsLast, TypeInv, DeltaInv, CleanInv, [Next]_vars
  PROVE  CleanInv'
<1> SUFFICES ASSUME troubles' = 0 PROVE Clean'
  BY DEF CleanInv
<1>1. troubles = 0 /\ op' = op /\ ~Crash
  BY TroubleStays
<1>2. Clean /\ ~failed
  BY <1>1 DEF CleanInv, Clean, NoFailure
<1>3. op = "BUILD_MERGE" => MergeInv
  BY <1>1, <1>2 DEF DeltaInv, Untroubled
<1>4. ~Abandon /\ ~RejectChunk
  <2>1. ~Abandon
    BY <1>2 DEF Abandon
  <2>2. ~RejectChunk
    BY <1>2, JobAllowed DEF RejectChunk
  <2>3. QED
    BY <2>1, <2>2
<1>5. pc = "merge" => op = "BUILD_MERGE"
  BY <1>2 DEF Clean, Phases
<1>6. CASE OpenStore \/ ReadList \/ CloseStore \/ UNCHANGED vars
  BY <1>2, <1>6, StoreClean
<1>7. CASE ClearStore
  BY <1>2, <1>7, ClearClean
<1>8. CASE Start
  BY <1>2, <1>8, StartClean
<1>9. CASE \E f \in 1..MaxFID, ts \in Recordings : Index(f, ts)
  BY <1>2, <1>9, IndexClean
<1>10. CASE Flush \/ \E flush \in BOOLEAN : End(flush)
  BY <1>2, <1>10, FlushClean
<1>11. CASE \E t \in Terms : BeginList(t)
  BY <1>2, <1>3, <1>11, BeginClean
<1>12. CASE MoveCache \/ ExecuteBatch
  BY <1>2, <1>3, <1>12, MoveClean
<1>13. CASE EmitChunk
  BY <1>2, <1>3, <1>13, EmitClean
<1>14. CASE EndFlush
  BY <1>2, <1>14, EndFlushClean
<1>15. CASE EndSession
  BY <1>2, <1>3, <1>15, EndSessionClean
<1>16. CASE MergeRecord
  <2>1. pc = "merge"
    BY <1>16 DEF MergeRecord
  <2>2. QED
    BY <1>2, <1>3, <1>5, <1>16, <2>1, MergeClean
<1>17. CASE EndMerge
  <2>1. pc = "merge"
    BY <1>17 DEF EndMerge
  <2>2. QED
    BY <1>2, <1>3, <1>5, <1>17, <2>1, EndMergeClean
<1>18. QED
  BY <1>1, <1>4, <1>6, <1>7, <1>8, <1>9, <1>10, <1>11, <1>12, <1>13, <1>14, <1>15, <1>16, <1>17,
     Zenon DEF Next

\* Until then no client gives a session up.
LEMMA CleanKeeps ==
  ASSUME TypeInv, CleanInv
  PROVE  Abandon => troubles # 0
BY DEF CleanInv, Clean, NoFailure, Abandon

\* What is proved of the steps.
SessionInv == TypeInv /\ DeltaInv /\ CleanInv

\* All of it holds at the start.
LEMMA InitSession == Init => SessionInv
BY InitType, InitKeys, InitClean DEF SessionInv, CleanInv

\* And every step keeps it.
LEMMA NextSession ==
  ASSUME ReadsLast, SessionInv, [Next]_vars
  PROVE  SessionInv'
<1>1. TypeInv /\ DeltaInv /\ CleanInv
  BY DEF SessionInv
<1>2. TypeInv'
  BY <1>1, NextType
<1>3. DeltaInv'
  BY <1>1, CleanKeeps, NextKeys
<1>4. CleanInv'
  <2>1. CASE troubles' = 0
    BY <1>1, <2>1, NextClean
  <2>2. CASE troubles' # 0
    BY <2>2 DEF CleanInv
  <2>3. QED
    BY <2>1, <2>2
<1>5. QED
  BY <1>2, <1>3, <1>4 DEF SessionInv

\* What is proved of the steps holds throughout.
LEMMA SessionKept ==
  ASSUME ReadsLast
  PROVE  Spec => []SessionInv
<1>1. Init => SessionInv
  BY InitSession
<1>2. SessionInv /\ [Next]_vars => SessionInv'
  BY NextSession
<1>3. QED
  BY <1>1, <1>2, PTL DEF Spec

\* While no request failed, nobody died and no merge's buffer moved, the
\* keys remembered are those of the delta (CBIndex::UpdateKeyCache), for
\* every client that reads before it closes the store.
THEOREM BucketKeys ==
  ASSUME ReadsLast
  PROVE  Spec => []KeysCoverDelta
<1>1. SessionInv => KeysCoverDelta
  BY DeltaCovers DEF SessionInv
<1>2. QED
  BY <1>1, SessionKept, PTL

\* Until a request fails, the process dies or a merge's buffer moves, a
\* reader of the live index finds headers that are true and lists that
\* increase, in both modes and at every step of a flush and of a merge, also
\* of a merge that makes its buffer grow where it is.
THEOREM BucketLists ==
  ASSUME ReadsLast
  PROVE  Spec => []ListsSound
<1>1. SessionInv => ListsSound
  BY CleanLists DEF SessionInv
<1>2. QED
  BY <1>1, SessionKept, PTL

\* And what a session acknowledged (OnIndexerEnd) is in them; all of it but
\* one record has been sent.  A client that closes the store without a read
\* may lose the last store of a merge.
THEOREM BucketAcked ==
  ASSUME ReadsLast
  PROVE  Spec => []AckedSafe
<1>1. SessionInv => AckedSafe
  BY CleanAcked DEF SessionInv
<1>2. QED
  BY <1>1, SessionKept, PTL

-----------------------------------------------------------------------------
(* A build under failures.  A record the server has is one that was stored *)
(* at some time, so what holds of each record for itself survives whatever *)
(* a wait or a death loses: its header tells of its body, its postings     *)
(* were indexed and are below those that still wait for its list.          *)

\* A record of the key k = <<list, block>>.  S is the set of postings
\* indexed, W[t] that of the FIDs waiting for list t.
GoodRecord(S, W, k, r) ==
  /\ r.body = <<>> => r.hdr = NullHdr
  /\ r.body # <<>> => r.hdr.ID = k[2] /\ r.hdr.FIDmax = Last(Decode(r.body))
  /\ \A g \in FIDsOf(r) : <<k[1], g>> \in S /\ \A f \in W[k[1]] : g < f

GoodRecords(S, W, records) == \A k \in DOMAIN records : GoodRecord(S, W, k, records[k])

\* What is on the server and what is scheduled.
GoodStores(S, W, ix) ==
  /\ IsFiniteSet(DOMAIN ix.server) /\ GoodRecords(S, W, ix.server)
  /\ \A i \in DOMAIN ix.sched : GoodRecord(S, W, ix.sched[i][1], ix.sched[i][2])

GoodCache(S, W, ix) == \A b \in DOMAIN ix.cache : GoodRecord(S, W, <<ix.clist, b>>, ix.cache[b])

\* More is indexed, and what waits is still above it.
Onward(S, W, S2, W2) ==
  \A t \in Terms : \A g : <<t, g>> \in S /\ (\A f \in W[t] : g < f) =>
    <<t, g>> \in S2 /\ \A f \in W2[t] : g < f

\* Then good records stay good.
LEMMA GoodOnward ==
  ASSUME NEW S, NEW W, NEW S2, NEW W2, Onward(S, W, S2, W2), NEW ix, IsIndex(ix)
  PROVE  /\ GoodStores(S, W, ix) => GoodStores(S2, W2, ix)
         /\ GoodCache(S, W, ix) => GoodCache(S2, W2, ix)
<1>1. ASSUME NEW k, k[1] \in Terms, NEW r, GoodRecord(S, W, k, r) PROVE GoodRecord(S2, W2, k, r)
  BY <1>1 DEF GoodRecord, Onward
<1>2. \A k \in DOMAIN ix.server : k[1] \in Terms
  BY DEF IsIndex, AreRecords, BlockKeys
<1>3. \A i \in DOMAIN ix.sched : ix.sched[i][1][1] \in Terms
  <2>1. \A i \in DOMAIN ix.sched : ix.sched[i][1] \in BlockKeys
    BY SchedElements
  <2>2. \A k \in BlockKeys : k[1] \in Terms
    BY DEF BlockKeys
  <2>3. QED
    BY <2>1, <2>2
<1>4. \A b \in DOMAIN ix.cache : <<ix.clist, b>>[1] \in Terms
  BY DEF IsIndex
<1>5. GoodStores(S, W, ix) => GoodStores(S2, W2, ix)
  BY <1>1, <1>2, <1>3 DEF GoodStores, GoodRecords
<1>6. GoodCache(S, W, ix) => GoodCache(S2, W2, ix)
  BY <1>1, <1>4 DEF GoodCache
<1>7. QED
  BY <1>5, <1>6

\* The empty record is good.
LEMMA NoBlockGood == \A S, W, k : GoodRecord(S, W, k, NoBlock)
<1>1. ToSet(<<>>) = {}
  BY DEF ToSet
<1>2. QED
  BY <1>1, DecodeEmpty DEF GoodRecord, NoBlock, FIDsOf

\* What a wait leaves on the server, whatever it loses.
LEMMA StoredGood ==
  ASSUME NEW ix, IsIndex(ix), NEW S, NEW W, GoodStores(S, W, ix), NEW lost
  PROVE  IsFiniteSet(DOMAIN Stored(ix, lost)) /\ GoodRecords(S, W, Stored(ix, lost))
<1> DEFINE I == DOMAIN ix.sched \ lost
           K == {ix.sched[i][1] : i \in I}
           D == DOMAIN ix.server \cup K
<1>1. Len(ix.sched) \in Nat /\ DOMAIN ix.sched = 1..Len(ix.sched)
  BY SchedElements
<1>2. DOMAIN Stored(ix, lost) = D
  BY Zenon DEF Stored
<1>3. IsFiniteSet(D)
  <2>1. IsFiniteSet(1..Len(ix.sched))
    <3>1. 1 \in Int /\ Len(ix.sched) \in Int
      BY <1>1
    <3> QED
      BY <3>1, FS_Interval, Zenon
  <2>2. IsFiniteSet(I)
    <3>1. I \subseteq 1..Len(ix.sched)
      BY <1>1
    <3> HIDE DEF I
    <3>2. QED
      BY <2>1, <3>1, FS_Subset
  <2> DEFINE f == [i \in I |-> ix.sched[i][1]]
  <2> HIDE DEF I
  <2>3. f \in Surjection(I, K)
    BY DEF Surjection
  <2>4. IsFiniteSet(K)
    <3> HIDE DEF f, K
    <3>1. QED
      BY <2>2, <2>3, FS_Surjection
  <2>5. QED
    BY <2>4, FS_Union DEF GoodStores
<1>4. ASSUME NEW k \in D PROVE GoodRecord(S, W, k, Stored(ix, lost)[k])
  <2>1. Stored(ix, lost)[k] = IF StoresOn(ix, k, lost) = {} THEN ix.server[k]
                              ELSE ix.sched[Max(StoresOn(ix, k, lost))][2]
    BY <1>4, Zenon DEF Stored
  <2>2. CASE StoresOn(ix, k, lost) = {}
    <3>1. k \in DOMAIN ix.server
      BY <1>4, <2>2 DEF StoresOn
    <3>2. QED
      BY <2>1, <2>2, <3>1 DEF GoodStores, GoodRecords
  <2>3. CASE StoresOn(ix, k, lost) # {}
    <3>1. Max(StoresOn(ix, k, lost)) \in StoresOn(ix, k, lost)
      BY <2>3, StoredType
    <3>2. PICK i \in DOMAIN ix.sched : i = Max(StoresOn(ix, k, lost)) /\ ix.sched[i][1] = k
      BY <3>1 DEF StoresOn
    <3>3. GoodRecord(S, W, k, ix.sched[i][2])
      BY <3>2 DEF GoodStores
    <3>4. QED
      BY <2>1, <2>3, <3>2, <3>3
  <2>4. QED
    BY <2>2, <2>3
<1>5. QED
  BY <1>2, <1>3, <1>4 DEF GoodRecords

\* No store of list t is scheduled.
Free(ix, t) == \A i \in DOMAIN ix.sched : ix.sched[i][1][1] # t

\* Then the bucket has of it what the server has.
LEMMA FreeStored ==
  ASSUME NEW ix, IsIndex(ix), NEW t, Free(ix, t), NEW lost, NEW b
  PROVE  /\ <<t, b>> \in DOMAIN Stored(ix, lost) <=> <<t, b>> \in DOMAIN ix.server
         /\ <<t, b>> \in DOMAIN ix.server => Stored(ix, lost)[<<t, b>>] = ix.server[<<t, b>>]
<1> DEFINE k == <<t, b>>
           D == DOMAIN ix.server \cup {ix.sched[i][1] : i \in DOMAIN ix.sched \ lost}
<1>0. k[1] = t
  OBVIOUS
<1> HIDE DEF k
<1>1. \A i \in DOMAIN ix.sched : ix.sched[i][1] # k
  BY <1>0 DEF Free
<1>2. StoresOn(ix, k, lost) = {} /\ (k \in D <=> k \in DOMAIN ix.server)
  BY <1>1 DEF StoresOn
<1>3. DOMAIN Stored(ix, lost) = D
  BY Zenon DEF Stored
<1>4. k \in D => Stored(ix, lost)[k] = ix.server[k]
  BY <1>2, Zenon DEF Stored
<1>5. QED
  BY <1>2, <1>3, <1>4 DEF k

\* A wait: good records stay good, and of a list nothing is scheduled of
\* the same is read.
Waited(S, W, w, ix) ==
  /\ IsIndex(w) /\ w.sched = <<>> /\ w.clist = ix.clist /\ w.cache = ix.cache
  /\ GoodStores(S, W, w) /\ (GoodCache(S, W, ix) => GoodCache(S, W, w))
  /\ \A t : Free(ix, t) => \A b : ReadBlock(w, t, b) = ReadBlock(ix, t, b)

\* A wait does that, whatever it loses.
LEMMA WaitGood ==
  ASSUME NEW ix, IsIndex(ix), NEW S, NEW W, GoodStores(S, W, ix), NEW fault, NEW w \in Waits(ix, fault)
  PROVE  Waited(S, W, w, ix)
<1>1. IsIndex(w) /\ w.sched = <<>> /\ w.clist = ix.clist /\ w.cache = ix.cache
  BY WaitType
<1>2. PICK lost : w \in Wait(ix, lost)
  BY DEF Waits
<1>3. w.server = Stored(ix, lost)
  BY <1>2 DEF Wait, IsIndex
<1>4. GoodStores(S, W, w)
  <2>1. DOMAIN w.sched = {}
    BY <1>1
  <2>2. QED
    BY <1>3, <2>1, StoredGood DEF GoodStores
<1>5. GoodCache(S, W, ix) => GoodCache(S, W, w)
  BY <1>1 DEF GoodCache
<1>6. ASSUME NEW t, Free(ix, t), NEW b PROVE ReadBlock(w, t, b) = ReadBlock(ix, t, b)
  <2>1. View(w) = w.server
    BY <1>1, ViewServer
  <2>2. /\ <<t, b>> \in DOMAIN Stored(ix, lost) <=> <<t, b>> \in DOMAIN ix.server
        /\ <<t, b>> \in DOMAIN ix.server => Stored(ix, lost)[<<t, b>>] = ix.server[<<t, b>>]
    BY <1>6, FreeStored
  <2>3. /\ <<t, b>> \in DOMAIN View(ix) <=> <<t, b>> \in DOMAIN ix.server
        /\ <<t, b>> \in DOMAIN ix.server => View(ix)[<<t, b>>] = ix.server[<<t, b>>]
    BY <1>6, FreeStored DEF View
  <2>4. QED
    BY <1>3, <2>1, <2>2, <2>3 DEF ReadBlock
<1>7. QED
  BY <1>1, <1>4, <1>5, <1>6 DEF Waited

\* What is read of an index, and what of the list that is cached.
LEMMA FetchGood ==
  ASSUME NEW ix, IsIndex(ix), NEW S, NEW W, GoodStores(S, W, ix), NEW t, NEW b
  PROVE  /\ GoodRecord(S, W, <<t, b>>, ReadBlock(ix, t, b))
         /\ GoodCache(S, W, ix) /\ ix.clist = t =>
              \A new : GoodRecord(S, W, <<t, b>>, Fetch(ix, t, b, new))
<1>1. GoodRecords(S, W, View(ix))
  BY StoredGood DEF View
<1>2. GoodRecord(S, W, <<t, b>>, ReadBlock(ix, t, b))
  BY <1>1, NoBlockGood DEF ReadBlock, GoodRecords
<1>3. ASSUME GoodCache(S, W, ix), ix.clist = t, NEW new
      PROVE  GoodRecord(S, W, <<t, b>>, Fetch(ix, t, b, new))
  <2>1. b \in DOMAIN ix.cache => GoodRecord(S, W, <<t, b>>, ix.cache[b])
    BY <1>3 DEF GoodCache
  <2>2. GoodRecord(S, W, <<t, b>>, NoBlock)
    BY NoBlockGood
  <2>3. QED
    BY <1>2, <2>1, <2>2 DEF Fetch, Cached
<1>4. QED
  BY <1>2, <1>3

\* The cached blocks are scheduled.
Scheduled(S, W, w, ix) ==
  /\ IsIndex(w) /\ GoodStores(S, W, w)
  /\ w.clist = ix.clist /\ w.cache = ix.cache
  /\ \A t : Free(ix, t) /\ (DOMAIN ix.cache = {} \/ ix.clist # t) => Free(w, t)
  /\ GoodCache(S, W, w)

\* Which keeps the records good.
LEMMA WriteCachedGood ==
  ASSUME NEW ix, IsIndex(ix), NEW S, NEW W, GoodStores(S, W, ix), GoodCache(S, W, ix)
  PROVE  Scheduled(S, W, WriteCached(ix), ix)
<1> DEFINE w == WriteCached(ix)
           ids == SetToSeq(DOMAIN ix.cache)
           writes == [i \in 1..Len(ids) |-> <<<<ix.clist, ids[i]>>, ix.cache[ids[i]]>>]
<1>1. /\ IsIndex(w) /\ w.server = ix.server /\ w.clist = ix.clist /\ w.cache = ix.cache
  BY WriteCachedType
<1>2. Len(ids) \in Nat /\ ids \in [1..Len(ids) -> DOMAIN ix.cache]
  BY CachedOrder
<1>3. w.sched = ix.sched \o writes
  BY DEF WriteCached, IsIndex
<1> HIDE DEF ids, w
<1>4. /\ Len(writes) = Len(ids) /\ writes \in Seq({writes[i] : i \in 1..Len(ids)})
      /\ \A i \in 1..Len(ids) : writes[i] = <<<<ix.clist, ids[i]>>, ix.cache[ids[i]]>>
  BY <1>2
<1> HIDE DEF writes
<1> DEFINE n == Len(ix.sched)
<1>5. n \in Nat /\ DOMAIN ix.sched = 1..n /\ ix.sched \in Seq(BlockKeys \X BlockRecords)
  BY SchedElements DEF IsIndex
<1> HIDE DEF n
<1>6. ASSUME NEW i \in DOMAIN w.sched
      PROVE  \/ i \in DOMAIN ix.sched /\ w.sched[i] = ix.sched[i]
             \/ \E b \in DOMAIN ix.cache : w.sched[i][1] = <<ix.clist, b>> /\ w.sched[i][2] = ix.cache[b]
  <2>1. /\ \A j \in DOMAIN ix.sched : w.sched[j] = ix.sched[j]
        /\ \A j \in DOMAIN w.sched : j \notin DOMAIN ix.sched => w.sched[j][1] \in CachedKeys(ix)
        /\ \A k \in CachedKeys(ix) : \E j \in DOMAIN w.sched :
             /\ w.sched[j][1] = k /\ w.sched[j][2] = ix.cache[k[2]]
    BY CachedWrites DEF w
  <2>2. CASE i \in DOMAIN ix.sched
    BY <2>1, <2>2
  <2>3. CASE i \notin DOMAIN ix.sched
    <3> DEFINE X == (BlockKeys \X BlockRecords) \cup {writes[j] : j \in 1..Len(ids)}
    <3>1. ix.sched \in Seq(X) /\ writes \in Seq(X)
      <4>1. BlockKeys \X BlockRecords \subseteq X /\ {writes[j] : j \in 1..Len(ids)} \subseteq X
        OBVIOUS
      <4> HIDE DEF X
      <4>2. QED
        BY <1>4, <1>5, <4>1
    <3> HIDE DEF X
    <3> DEFINE u == ix.sched
               v == writes
    <3>a. /\ u \o v \in Seq(X) /\ Len(u \o v) = Len(u) + Len(v)
          /\ \A j \in 1..Len(u) : (u \o v)[j] = u[j]
          /\ \A j \in 1..Len(v) : (u \o v)[Len(u) + j] = v[j]
      <4>1. u \in Seq(X) /\ v \in Seq(X)
        BY <3>1
      <4> HIDE DEF u, v
      <4>2. QED
        BY <4>1, ConcatElements
    <3>2. /\ Len(w.sched) = n + Len(ids) /\ w.sched \in Seq(X)
          /\ \A j \in 1..Len(ids) : w.sched[n + j] = writes[j]
      BY <1>3, <1>4, <3>a DEF n
    <3>3. i \in 1..(n + Len(ids)) /\ i \notin 1..n
      BY <1>5, <2>3, <3>2
    <3>4. i - n \in 1..Len(ids) /\ n + (i - n) = i
      BY <1>2, <1>5, <3>3
    <3>5. w.sched[i] = <<<<ix.clist, ids[i - n]>>, ix.cache[ids[i - n]]>>
      BY <1>4, <3>2, <3>4
    <3>6. ids[i - n] \in DOMAIN ix.cache
      BY <1>2, <3>4
    <3>7. QED
      BY <3>5, <3>6
  <2>4. QED
    BY <2>2, <2>3
<1>7. ASSUME NEW i \in DOMAIN w.sched PROVE GoodRecord(S, W, w.sched[i][1], w.sched[i][2])
  <2>1. CASE i \in DOMAIN ix.sched /\ w.sched[i] = ix.sched[i]
    BY <2>1 DEF GoodStores
  <2>2. ASSUME NEW b \in DOMAIN ix.cache, w.sched[i][1] = <<ix.clist, b>>, w.sched[i][2] = ix.cache[b]
        PROVE  GoodRecord(S, W, w.sched[i][1], w.sched[i][2])
    BY <2>2 DEF GoodCache
  <2>3. QED
    BY <1>6, <2>1, <2>2
<1>8. GoodStores(S, W, w)
  BY <1>1, <1>7 DEF GoodStores
<1>9. ASSUME NEW t, Free(ix, t), DOMAIN ix.cache = {} \/ ix.clist # t PROVE Free(w, t)
  BY <1>6, <1>9 DEF Free
<1>10. GoodCache(S, W, w)
  BY <1>1 DEF GoodCache
<1>11. QED
  BY <1>1, <1>8, <1>9, <1>10 DEF Scheduled, w

\* A chunk is appended: the block b is put in the cache, and perhaps the
\* first one again, for the count of the list.
Putting(n, ix, t, id, block) ==
  /\ n.server = ix.server /\ n.sched = ix.sched /\ n.clist = ix.clist
  /\ id \in DOMAIN n.cache /\ n.cache[id] = block
  /\ \A b \in DOMAIN n.cache \ {id} :
       \/ b \in DOMAIN ix.cache /\ n.cache[b] = ix.cache[b]
       \/ b = 1 /\ \E lh : n.cache[b] = [Fetch(ix, t, 1, FALSE) EXCEPT !.lh = lh]

\* AppendChunk does that.
LEMMA AppendPuts ==
  ASSUME NEW ix, IsIndex(ix), NEW t, NEW lh, NEW hdr, NEW code, NEW new, NEW block,
         block = [lh |-> IF hdr.ID = 1 THEN lh ELSE 0, hdr |-> hdr,
                  body |-> Fetch(ix, t, hdr.ID, new).body \o code],
         NEW n, n = AppendChunk(ix, t, lh, hdr, code, new)
  PROVE  Putting(n, ix, t, hdr.ID, block)
<1>1. Parts(ix)
  BY DEF IsIndex, Parts
<1> DEFINE id == hdr.ID
           a1 == ix.accum + Len(code)
           c1 == Put(ix.cache, id, block)
           k1 == Keys(ix, t, id, Fetch(ix, t, id, new))
           i1 == [ix EXCEPT !.accum = a1, !.cache = c1, !.keys = k1]
           first == Fetch(i1, t, 1, FALSE)
           c2 == Put(i1.cache, 1, [first EXCEPT !.lh = lh])
           k2 == Keys(i1, t, 1, first)
           i2 == [i1 EXCEPT !.cache = c2, !.keys = k2]
<1>2. n = IF new /\ id # 1 THEN i2 ELSE i1
  BY DEF AppendChunk, UpdateListHeader
<1>3. /\ DOMAIN c1 = DOMAIN ix.cache \cup {id} /\ c1[id] = block
      /\ \A b \in DOMAIN ix.cache : b # id => c1[b] = ix.cache[b]
  BY DEF Put
<1>4. \A x : x = i1.cache =>
        /\ DOMAIN c2 = DOMAIN x \cup {1} /\ c2[1] = [first EXCEPT !.lh = lh]
        /\ \A b \in DOMAIN x : b # 1 => c2[b] = x[b]
  BY DEF Put
<1>5. GrownTo(i1, ix, a1, c1, k1)
  BY Zenon DEF GrownTo
<1>f. first = Fetch(i1, t, 1, FALSE)
  OBVIOUS
<1> HIDE DEF a1, c1, k1, i1, first
<1>6. Parts(i1) /\ SameParts(i1, ix) /\ i1.cache = c1
  BY <1>1, <1>5, PartsGrow
<1> HIDE DEF c2, k2
<1>7. GrownTo(i2, i1, i1.accum, c2, k2)
  BY <1>6 DEF Parts, GrownTo
<1> HIDE DEF i2
<1>8. SameParts(i2, i1) /\ i2.cache = c2
  BY <1>6, <1>7, PartsGrow
<1>9. id # 1 => first = Fetch(ix, t, 1, FALSE)
  <2>1. \A b : ReadBlock(i1, t, b) = ReadBlock(ix, t, b)
    BY <1>6 DEF SameParts, ReadBlock, View, Stored, StoresOn
  <2>2. ASSUME id # 1 PROVE Cached(i1, 1) <=> Cached(ix, 1)
    BY <1>3, <1>6, <2>2 DEF Cached
  <2>3. ASSUME id # 1, Cached(ix, 1) PROVE i1.cache[1] = ix.cache[1]
    BY <1>3, <1>6, <2>3 DEF Cached
  <2>4. QED
    BY <1>f, <2>1, <2>2, <2>3 DEF Fetch
<1>10. CASE new /\ id # 1
  <2>1. n.server = ix.server /\ n.sched = ix.sched /\ n.clist = ix.clist /\ n.cache = c2
    BY <1>2, <1>6, <1>8, <1>10 DEF SameParts
  <2>2. /\ DOMAIN c2 = DOMAIN c1 \cup {1} /\ c2[1] = [first EXCEPT !.lh = lh]
        /\ \A b \in DOMAIN c1 : b # 1 => c2[b] = c1[b]
    BY <1>4, <1>6
  <2>3. id \in DOMAIN n.cache /\ n.cache[id] = block
    BY <1>3, <1>10, <2>1, <2>2
  <2>4. \A b \in DOMAIN n.cache \ {id} :
          \/ b \in DOMAIN ix.cache /\ n.cache[b] = ix.cache[b]
          \/ b = 1 /\ n.cache[b] = [first EXCEPT !.lh = lh]
    BY <1>3, <2>1, <2>2
  <2>5. first = Fetch(ix, t, 1, FALSE)
    BY <1>9, <1>10
  <2>6. \A b \in DOMAIN n.cache \ {id} :
          \/ b \in DOMAIN ix.cache /\ n.cache[b] = ix.cache[b]
          \/ b = 1 /\ \E l : n.cache[b] = [Fetch(ix, t, 1, FALSE) EXCEPT !.lh = l]
    BY <2>4, <2>5, Zenon
  <2>7. QED
    BY <2>1, <2>3, <2>6, Zenon DEF Putting
<1>11. CASE ~(new /\ id # 1)
  <2>1. n.server = ix.server /\ n.sched = ix.sched /\ n.clist = ix.clist /\ n.cache = c1
    BY <1>2, <1>6, <1>11 DEF SameParts
  <2>2. QED
    BY <1>3, <2>1 DEF Putting
<1>12. QED
  BY <1>10, <1>11

\* Which keeps the records good when the block is.
LEMMA PuttingGood ==
  ASSUME NEW ix, IsIndex(ix), NEW S, NEW W, GoodStores(S, W, ix), GoodCache(S, W, ix),
         NEW t, t = ix.clist, NEW id, NEW block, GoodRecord(S, W, <<t, id>>, block),
         NEW n, Putting(n, ix, t, id, block)
  PROVE  GoodStores(S, W, n) /\ GoodCache(S, W, n)
<1>1. /\ n.server = ix.server /\ n.sched = ix.sched /\ n.clist = ix.clist
      /\ id \in DOMAIN n.cache /\ n.cache[id] = block
      /\ \A b \in DOMAIN n.cache \ {id} :
           \/ b \in DOMAIN ix.cache /\ n.cache[b] = ix.cache[b]
           \/ b = 1 /\ \E lh : n.cache[b] = [Fetch(ix, t, 1, FALSE) EXCEPT !.lh = lh]
  BY Zenon DEF Putting
<1>2. GoodStores(S, W, n)
  BY <1>1 DEF GoodStores
<1>3. ASSUME NEW b \in DOMAIN n.cache PROVE GoodRecord(S, W, <<t, b>>, n.cache[b])
  <2>1. CASE b = id
    BY <1>1, <2>1
  <2>2. CASE b \in DOMAIN ix.cache /\ n.cache[b] = ix.cache[b]
    BY <2>2 DEF GoodCache
  <2>3. ASSUME b = 1, NEW lh, n.cache[b] = [Fetch(ix, t, 1, FALSE) EXCEPT !.lh = lh]
        PROVE  GoodRecord(S, W, <<t, b>>, n.cache[b])
    <3> DEFINE first == Fetch(ix, t, 1, FALSE)
    <3>1. GoodRecord(S, W, <<t, 1>>, first)
      BY FetchGood
    <3>2. first \in BlockRecords
      BY FetchType
    <3>3. n.cache[b] = [first EXCEPT !.lh = lh]
      BY <2>3
    <3> HIDE DEF first
    <3>4. n.cache[b].hdr = first.hdr /\ n.cache[b].body = first.body
      BY <3>2, <3>3 DEF BlockRecords
    <3>5. QED
      BY <2>3, <3>1, <3>4 DEF GoodRecord, FIDsOf
  <2>4. b \in DOMAIN n.cache \ {id} =>
          \/ b \in DOMAIN ix.cache /\ n.cache[b] = ix.cache[b]
          \/ b = 1 /\ \E lh : n.cache[b] = [Fetch(ix, t, 1, FALSE) EXCEPT !.lh = lh]
    BY <1>1, Zenon
  <2>5. QED
    BY <2>1, <2>2, <2>3, <2>4, Zenon
<1>4. GoodCache(S, W, n)
  BY <1>1, <1>3 DEF GoodCache
<1>5. QED
  BY <1>2, <1>4

-----------------------------------------------------------------------------
(* The sessions of a build under failures.                                 *)

\* What waits for the lists.  A session that failed is given up.
Pending == [t \in Terms |-> IF failed THEN {} ELSE Waiting(t)]

\* The block of a list a chunk would be appended to.
Current(t, b) == IF main.clist = t THEN Fetch(main, t, b, FALSE) ELSE ReadBlock(main, t, b)

\* What is scheduled is of lists that are done.
Sending ==
  /\ pc \notin {"flush", "batch"} => main.sched = <<>> /\ DOMAIN main.cache = {}
  /\ pc = "flush" /\ job = NoJob /\ DOMAIN main.cache = {} => main.sched = <<>>
  /\ pc \in {"flush", "batch"} =>
       /\ \A t \in todo : Free(main, t)
       /\ DOMAIN main.cache # {} => main.clist \notin todo
  /\ pc \in {"flush", "batch", "end"} => open

\* The list under way has its header from the block it goes on from.
JobGood ==
  job # NoJob =>
    /\ job.term \notin todo /\ Free(main, job.term) /\ Rising(job.rest)
    /\ job.hdr = NullHdr => job.lh = 0
    /\ job.hdr # NullHdr =>
         job.lh # 0 /\ job.hdr.ID = job.lh /\ Current(job.term, job.lh).hdr = job.hdr
    /\ main.clist = job.term => \A b \in DOMAIN main.cache : b <= job.lh
    /\ pc = "batch" => main.clist # job.term

\* What waits was indexed.
PendingKnown == \A t \in Terms : \A f \in Pending[t] : <<t, f>> \in accepted

\* A session that goes on.
Going == GoodCache(accepted, Pending, main) /\ Sending /\ JobGood /\ CacheRises /\ PendingKnown

\* The invariant: all records are good, and a session goes on or has failed.
BuildInv ==
  /\ GoodStores(accepted, Pending, main) /\ pc # "merge"
  /\ IF failed THEN open /\ pc = "idle" ELSE Going

\* What is indexed and what waits for it, from one state to the next.
Moves == Onward(accepted, Pending, accepted', Pending')

\* Less waits, or nothing does.
LEMMA PendingShrinks ==
  ASSUME accepted \subseteq accepted',
         (\A t \in Terms : Pending'[t] = {}) \/ \A t \in Terms : Pending'[t] \subseteq Pending[t]
  PROVE  Moves
BY DEF Moves, Onward

\* Nothing does after a failure, nor outside a session.
LEMMA NonePending == failed' \/ (pc' \notin {"flush", "batch"} /\ ~open') => \A t \in Terms : Pending'[t] = {}
BY DEF Pending, Waiting

\* A call fails.
LEMMA FailGood ==
  ASSUME BuildInv, ~failed, accepted' = accepted, open, open' = open, Fail,
         IsIndex(main'), GoodStores(accepted, Pending, main')
  PROVE  BuildInv'
<1>1. failed' /\ pc' = "idle"
  BY DEF Fail
<1>2. Moves
  BY <1>1, NonePending, PendingShrinks
<1>3. PICK S, W : S = accepted' /\ W = Pending'
  OBVIOUS
<1>4. GoodStores(S, W, main')
  BY <1>2, <1>3, GoodOnward DEF Moves
<1>5. QED
  BY <1>1, <1>3, <1>4 DEF BuildInv

\* A chunk of the list under way is not refused.
LEMMA BuildAllowed ==
  ASSUME TypeInv, BuildInv, pc = "flush", job # NoJob
  PROVE  ValidChunk
<1>1. Going /\ GoodStores(accepted, Pending, main) /\ ~failed
  BY DEF BuildInv
<1> DEFINE t == job.term
           r == Current(t, job.lh)
<1>2. IsIndex(main) /\ t \in Terms /\ job.hdr \in Headers
  BY DEF TypeInv, JobHasPostings, CallTypes, Jobs
<1>3. Last(Chunk) \in ToSet(job.rest) /\ Last(Chunk) \in 1..MaxFID
  BY ChunkPiece, ChunkType
<1>4. Pending[t] = ToSet(job.rest)
  BY <1>1, <1>2 DEF Pending, Waiting, Going, JobGood
<1>5. GoodRecord(accepted, Pending, <<t, job.lh>>, r)
  BY <1>1, <1>2, FetchGood DEF Going, Current
<1>6. CASE job.hdr = NullHdr
  BY <1>3, <1>6 DEF NullHdr, ValidChunk
<1>7. CASE job.hdr # NullHdr
  <2>1. r.hdr = job.hdr
    BY <1>1, <1>7 DEF Going, JobGood
  <2>2. r \in BlockRecords
    BY <1>2, ReadType, FetchType DEF Current
  <2> DEFINE d == Decode(r.body)
  <2>3. r.body \in Seq(Nat) /\ r.body # <<>> /\ job.hdr.FIDmax = Last(d)
    BY <1>5, <1>7, <2>1, <2>2 DEF GoodRecord, BlockRecords
  <2>4. Last(d) \in ToSet(d)
    <3> DEFINE b == r.body
    <3>1. b \in Seq(Nat) /\ b # <<>>
      BY <2>3
    <3> HIDE DEF b, r
    <3>2. Last(Decode(b)) \in ToSet(Decode(b))
      BY <3>1, LastFID
    <3>3. QED
      BY <3>2 DEF b
  <2>5. Last(d) < Last(Chunk)
    <3>1. Last(d) \in FIDsOf(r)
      BY <2>4 DEF FIDsOf
    <3> HIDE DEF d, r
    <3>2. QED
      BY <1>3, <1>4, <1>5, <3>1 DEF GoodRecord
  <2> HIDE DEF d, r
  <2>6. QED
    BY <1>2, <1>3, <2>3, <2>5 DEF ValidChunk, Headers
<1>8. QED
  BY <1>6, <1>7

\* A chunk makes a good record of a block, its postings being good.
ChunkFor(S, W, k, old, chunk, block) ==
  /\ old \in BlockRecords /\ chunk \in Seq(1..MaxFID) /\ chunk # <<>>
  /\ block.hdr.ID = k[2] /\ block.hdr.FIDmax = Last(chunk)
  /\ block.body = old.body \o Encode(chunk, IF old.body = <<>> THEN 0 ELSE Last(Decode(old.body)))
  /\ \A g \in FIDsOf(old) \cup ToSet(chunk) : <<k[1], g>> \in S /\ \A f \in W[k[1]] : g < f

\* The chunk is behind what the block has.
LEMMA ChunkGood ==
  ASSUME NEW S, NEW W, NEW k, NEW old, NEW chunk, NEW block, ChunkFor(S, W, k, old, chunk, block)
  PROVE  GoodRecord(S, W, k, block)
<1> DEFINE b == old.body
           d == Decode(b)
           base == IF b = <<>> THEN 0 ELSE Last(d)
           code == Encode(chunk, base)
<1>1. /\ chunk \in Seq(1..MaxFID) /\ chunk # <<>> /\ b \in Seq(Nat)
      /\ block.hdr.ID = k[2] /\ block.hdr.FIDmax = Last(chunk) /\ block.body = b \o code
      /\ \A g \in ToSet(d) \cup ToSet(chunk) : <<k[1], g>> \in S /\ \A f \in W[k[1]] : g < f
  BY DEF ChunkFor, BlockRecords, FIDsOf
<1> HIDE DEF b
<1>2. chunk \in Seq(FIDs32)
  BY <1>1, FIDsFit
<1>3. base = IF b = <<>> THEN 0 ELSE Last(Decode(b))
  OBVIOUS
<1> HIDE DEF base
<1>4. code \in Seq(Nat) /\ Len(code) = Len(chunk) /\ Decode(b \o code) = Decode(b) \o chunk
  BY <1>1, <1>2, <1>3, DecodeAppend
<1> HIDE DEF code
<1>5. d \in Seq(FIDs32) /\ Len(d) \in Nat
  BY <1>1, DecodeSums DEF SumsOf
<1> HIDE DEF d
<1>6. Len(chunk) \in Nat \ {0}
  BY <1>1, EmptySeq
<1>7. block.body # <<>>
  <2>1. Len(b \o code) # 0
    BY <1>1, <1>4, <1>6
  <2>2. QED
    BY <1>1, <2>1
<1>8. /\ Len(d \o chunk) = Len(d) + Len(chunk)
      /\ \A j \in 1..Len(chunk) : (d \o chunk)[Len(d) + j] = chunk[j]
      /\ ToSet(d \o chunk) = ToSet(d) \cup ToSet(chunk)
  BY <1>2, <1>5, ConcatElements
<1>9. Last(d \o chunk) = Last(chunk)
  <2>1. Len(chunk) \in 1..Len(chunk)
    BY <1>6
  <2>2. QED
    BY <1>8, <2>1 DEF Last
<1>10. Decode(block.body) = d \o chunk
  BY <1>1, <1>4 DEF d
<1>11. QED
  BY <1>1, <1>7, <1>8, <1>9, <1>10 DEF GoodRecord, FIDsOf

\* A step on the live index alone, or one the server did not answer.
Seen(ix) ==
  /\ IsIndex(ix) /\ ix.clist = main.clist /\ ix.cache = main.cache
  /\ GoodStores(accepted, Pending, ix) /\ GoodCache(accepted, Pending, ix)
  /\ \A t : Free(main, t) =>
       Free(ix, t) /\ \A b, new : Fetch(ix, t, b, new) = Fetch(main, t, b, new)

\* Such steps leave the index so.
LEMMA SeenIndex ==
  ASSUME TypeInv, BuildInv, ~failed, NEW fault, NEW ix \in {main} \cup Waits(main, fault)
  PROVE  Seen(ix)
<1>1. IsIndex(main) /\ GoodStores(accepted, Pending, main) /\ GoodCache(accepted, Pending, main)
  BY DEF TypeInv, BuildInv, Going
<1>2. CASE ix = main
  BY <1>1, <1>2 DEF Seen
<1>3. CASE ix \in Waits(main, fault)
  <2>1. PICK S, W : S = accepted /\ W = Pending
    OBVIOUS
  <2>2. Waited(S, W, ix, main)
    BY <1>1, <1>3, <2>1, WaitGood
  <2>3. /\ IsIndex(ix) /\ ix.sched = <<>> /\ ix.clist = main.clist /\ ix.cache = main.cache
        /\ GoodStores(S, W, ix) /\ GoodCache(S, W, ix)
        /\ \A t : Free(main, t) => \A b : ReadBlock(ix, t, b) = ReadBlock(main, t, b)
    BY <1>1, <2>1, <2>2 DEF Waited
  <2>4. \A t : Free(ix, t)
    BY <2>3 DEF Free
  <2>5. ASSUME NEW t, Free(main, t), NEW b, NEW new PROVE Fetch(ix, t, b, new) = Fetch(main, t, b, new)
    BY <2>3, <2>5 DEF Fetch, Cached
  <2>6. QED
    BY <2>1, <2>3, <2>4, <2>5 DEF Seen
<1>4. QED
  BY <1>2, <1>3

\* The block the next chunk makes.
LEMMA NextBlock ==
  ASSUME TypeInv, BuildInv, op = "BUILD", pc = "flush", job # NoJob, main.clist = job.term,
         NEW ix, Seen(ix),
         NEW t, NEW lh, NEW hdr, NEW code, NEW chunk, NEW new, ChunkGoes(t, lh, hdr, code, chunk, new),
         NEW rest, rest = SubSeq(job.rest, Len(Chunk) + 1, Len(job.rest)),
         NEW W, \A f \in W[t] : f \in ToSet(rest),
         NEW block, block.hdr = hdr /\ block.body = Fetch(ix, t, hdr.ID, new).body \o code
  PROVE  GoodRecord(accepted, W, <<t, lh>>, block)
<1>0. /\ t = job.term /\ lh = (IF Fits THEN job.lh ELSE job.lh + 1) /\ hdr = ChunkHeader
      /\ code = Encode(chunk, Base) /\ chunk = Chunk /\ new \in BOOLEAN /\ (new <=> ~Fits)
  BY DEF ChunkGoes
<1>1. Going /\ ~failed /\ job.term \in Terms /\ job.lh \in Nat /\ job.hdr \in Headers
  BY DEF BuildInv, TypeInv, CallTypes, Jobs, JobHasPostings
<1>2. /\ Free(main, t) /\ Rising(job.rest) /\ t \notin todo
      /\ job.hdr = NullHdr => job.lh = 0
      /\ job.hdr # NullHdr => /\ job.lh # 0 /\ job.hdr.ID = job.lh
                              /\ Fetch(main, t, job.lh, FALSE).hdr = job.hdr
      /\ \A b \in DOMAIN main.cache : b <= job.lh
  BY <1>0, <1>1 DEF Going, JobGood, Current
<1>3. /\ chunk \in Seq(1..MaxFID) /\ Len(chunk) \in 1..Len(job.rest)
      /\ chunk # <<>>
  <2>1. chunk \in Seq(1..MaxFID) /\ Len(chunk) \in 1..Len(job.rest)
    BY <1>0, ChunkType
  <2>2. QED
    BY <2>1
<1>4. ToSet(job.rest) = ToSet(chunk) \cup ToSet(rest) /\ Below(ToSet(chunk), ToSet(rest))
  BY <1>0, <1>2, ChunkRest
<1>5. Pending[t] = ToSet(job.rest)
  BY <1>0, <1>1, <1>2 DEF Pending, Waiting
<1>6. job.hdr.ID = job.lh
  <2>1. NullHdr.ID = 0
    BY DEF NullHdr
  <2>2. QED
    BY <1>2, <2>1, Zenon
<1>7. hdr.ID = lh /\ hdr.FIDmax = Last(chunk) /\ lh \in Nat
  BY <1>0, <1>1, <1>6 DEF ChunkHeader, Headers
<1> DEFINE old == Fetch(ix, t, lh, new)
<1>8. old = Fetch(main, t, lh, new) /\ old \in BlockRecords /\ GoodRecord(accepted, Pending, <<t, lh>>, old)
  <2>1. old = Fetch(main, t, lh, new)
    BY <1>2 DEF Seen
  <2>2. old \in BlockRecords
    BY <1>0, FetchType DEF Seen
  <2>3. PICK S, V : S = accepted /\ V = Pending
    OBVIOUS
  <2>4. IsIndex(ix) /\ GoodStores(S, V, ix) /\ GoodCache(S, V, ix) /\ ix.clist = t
    BY <1>0, <2>3 DEF Seen
  <2>5. GoodRecord(S, V, <<t, lh>>, old)
    BY <2>4, FetchGood
  <2>6. QED
    BY <2>1, <2>2, <2>3, <2>5
<1> HIDE DEF old
<1>9. Base = IF old.body = <<>> THEN 0 ELSE Last(Decode(old.body))
  <2>1. CASE new
    <3>1. lh \notin DOMAIN main.cache
      BY <1>0, <1>1, <1>2, <2>1
    <3>2. old = NoBlock
      BY <1>8, <2>1, <3>1 DEF Fetch, Cached
    <3>3. QED
      BY <1>0, <2>1, <3>2 DEF Base, NoBlock
  <2>2. CASE ~new
    <3>1. Fits /\ job.hdr # NullHdr /\ old.hdr = job.hdr
      BY <1>0, <1>2, <1>8, <2>2 DEF Fits
    <3>2. old.body # <<>> /\ job.hdr.FIDmax = Last(Decode(old.body))
      BY <1>8, <3>1 DEF GoodRecord
    <3>3. QED
      BY <3>1, <3>2 DEF Base
  <2>3. QED
    BY <1>0, <2>1, <2>2
<1>10. \A g \in FIDsOf(old) : <<t, g>> \in accepted /\ \A f \in ToSet(job.rest) : g < f
  BY <1>5, <1>8 DEF GoodRecord
<1>11. \A g \in ToSet(chunk) : <<t, g>> \in accepted /\ \A f \in ToSet(rest) : g < f
  BY <1>0, <1>1, <1>4, <1>5 DEF Going, PendingKnown, Below
<1>12. \A g \in FIDsOf(old) \cup ToSet(chunk) : <<t, g>> \in accepted /\ \A f \in W[t] : g < f
  BY <1>4, <1>10, <1>11
<1> DEFINE k == <<t, lh>>
<1>13. k[1] = t /\ k[2] = lh
  OBVIOUS
<1> HIDE DEF k
<1>14. block.hdr.ID = lh /\ block.hdr.FIDmax = Last(chunk)
  BY <1>7
<1>15. block.body = old.body \o Encode(chunk, IF old.body = <<>> THEN 0 ELSE Last(Decode(old.body)))
  BY <1>0, <1>7, <1>9 DEF old
<1>16. ChunkFor(accepted, W, k, old, chunk, block)
  BY <1>3, <1>8, <1>12, <1>13, <1>14, <1>15 DEF ChunkFor
<1>17. PICK S : S = accepted
  OBVIOUS
<1>18. ChunkFor(S, W, k, old, chunk, block)
  BY <1>16, <1>17
<1>19. GoodRecord(S, W, k, block)
  BY <1>18, ChunkGood
<1>20. QED
  BY <1>17, <1>19 DEF k

\* The calls of the store are on the live index.
LEMMA BuildTarget ==
  ASSUME op = "BUILD"
  PROVE  Target = main /\ ~DeltaFirst /\ \A S : SetTarget(S) => main' \in S
BY DEF Target, DeltaFirst, SetTarget

\* What the list under way leaves to do.
LEMMA JobPending ==
  ASSUME TypeInv, BuildInv, job # NoJob
  PROVE  /\ ~failed /\ open /\ pc \in {"flush", "batch"} /\ job.term \in Terms
         /\ Pending[job.term] = ToSet(job.rest)
         /\ \A u \in Terms \ {job.term} : Pending[u] = IF u \in todo THEN ToSet(cache[u]) ELSE {}
<1>1. pc \in {"flush", "batch"} /\ job.term \in Terms
  BY DEF TypeInv, JobInFlush, JobHasPostings
<1>2. ~failed /\ Going
  BY <1>1 DEF BuildInv
<1>3. open /\ job.term \notin todo
  BY <1>1, <1>2 DEF Going, Sending, JobGood
<1>4. QED
  BY <1>1, <1>2, <1>3 DEF Pending, Waiting

\* A list under way goes on from another block, with less to append.
GoesOn(j, lh, hdr, rest) == [j EXCEPT !.lh = lh, !.hdr = hdr, !.rest = rest]

LEMMA JobGoesOn ==
  ASSUME NEW j \in Jobs, NEW lh, NEW hdr, NEW rest
  PROVE  /\ GoesOn(j, lh, hdr, rest).term = j.term /\ GoesOn(j, lh, hdr, rest).lh = lh
         /\ GoesOn(j, lh, hdr, rest).hdr = hdr /\ GoesOn(j, lh, hdr, rest).rest = rest
BY DEF Jobs, GoesOn

\* A chunk is appended.
LEMMA EmittedGood ==
  ASSUME TypeInv, BuildInv, op = "BUILD", TypeInv', pc = "flush", job # NoJob,
         NEW t, t = job.term, main.clist = t, NEW ix, Seen(ix),
         NEW lh, NEW hdr, NEW code, NEW new, ChunkGoes(t, lh, hdr, code, Chunk, new),
         NEW rest, rest = SubSeq(job.rest, Len(Chunk) + 1, Len(job.rest)), Rising(rest),
         ToSet(job.rest) = ToSet(Chunk) \cup ToSet(rest),
         main' = AppendChunk(ix, t, lh, hdr, code, new),
         job' = IF rest = <<>> THEN NoJob ELSE [job EXCEPT !.lh = lh, !.hdr = hdr, !.rest = rest],
         UNCHANGED <<open, cache, accepted, pc, todo, failed>>
  PROVE  BuildInv'
<1>1. ~failed /\ open /\ t \in Terms /\ Going /\ Pending[t] = ToSet(job.rest)
  BY JobPending DEF BuildInv
<1>2. job \in Jobs /\ job.lh \in Nat
  BY DEF TypeInv, CallTypes, Jobs
<1>3. /\ t \notin todo
      /\ job.hdr = NullHdr => job.lh = 0
      /\ job.hdr # NullHdr => job.lh # 0 /\ job.hdr.ID = job.lh
      /\ \A b \in DOMAIN main.cache : b <= job.lh
  BY <1>1 DEF Going, JobGood
<1>4. hdr.ID = lh /\ lh \in Nat \ {0} /\ job.lh <= lh
  <2>1. /\ lh = (IF Fits THEN job.lh ELSE job.lh + 1) /\ hdr = ChunkHeader
    BY DEF ChunkGoes
  <2>2. job.hdr.ID = job.lh
    <3>1. NullHdr.ID = 0
      BY DEF NullHdr
    <3>2. QED
      BY <1>3, <3>1, Zenon
  <2>3. job.hdr \in Headers
    BY <1>2 DEF Jobs
  <2>4. Fits => job.lh # 0
    BY <1>3 DEF Fits
  <2>5. hdr.ID = lh
    BY <2>1, <2>2, <2>3 DEF ChunkHeader, Headers
  <2>6. QED
    BY <1>2, <2>1, <2>4, <2>5
<1>5. rest # <<>> => /\ job' # NoJob /\ job'.term = t /\ job'.lh = lh /\ job'.hdr = hdr /\ job'.rest = rest
  <2> SUFFICES ASSUME rest # <<>>
               PROVE  job' # NoJob /\ job'.term = t /\ job'.lh = lh /\ job'.hdr = hdr /\ job'.rest = rest
    OBVIOUS
  <2>1. job' = GoesOn(job, lh, hdr, rest)
    BY DEF GoesOn
  <2>2. job'.term = t /\ job'.lh = lh /\ job'.hdr = hdr /\ job'.rest = rest
    BY <1>2, <2>1, JobGoesOn
  <2>3. NoJob.term = NoTerm
    BY DEF NoJob
  <2>4. QED
    BY <1>1, <2>2, <2>3, CBIndexAssumption
<1>6. Pending'[t] = ToSet(rest) /\ \A u \in Terms \ {t} : Pending'[u] = Pending[u]
  <2>1. ToSet(<<>>) = {}
    BY DEF ToSet
  <2>2. \A u \in Terms : Pending[u] = IF u \in todo THEN ToSet(cache[u])
                                      ELSE IF u = t THEN ToSet(job.rest) ELSE {}
    BY <1>1, <1>3 DEF Pending, Waiting
  <2>3. \A u \in Terms : Pending'[u] = IF u \in todo THEN ToSet(cache[u])
                                       ELSE IF job' # NoJob /\ job'.term = u THEN ToSet(job'.rest) ELSE {}
    BY <1>1 DEF Pending, Waiting
  <2>4. CASE rest = <<>>
    <3>1. job' = NoJob
      BY <2>4
    <3>2. QED
      BY <1>1, <1>3, <2>1, <2>2, <2>3, <2>4, <3>1
  <2>5. CASE rest # <<>>
    <3>1. job' # NoJob /\ job'.term = t /\ job'.rest = rest
      BY <1>5, <2>5
    <3>2. QED
      BY <1>1, <1>3, <2>2, <2>3, <3>1
  <2>6. QED
    BY <2>4, <2>5
<1>7. PICK S, W : S = accepted' /\ W = Pending'
  OBVIOUS
<1>8. Moves
  <2>1. \A u \in Terms : Pending'[u] \subseteq Pending[u]
    BY <1>1, <1>6
  <2>2. QED
    BY <2>1, PendingShrinks
<1> DEFINE block == [lh |-> IF hdr.ID = 1 THEN lh ELSE 0, hdr |-> hdr,
                     body |-> Fetch(ix, t, hdr.ID, new).body \o code]
<1>9. Putting(main', ix, t, lh, block)
  <2>1. IsIndex(ix)
    BY DEF Seen
  <2>2. block = [lh |-> IF hdr.ID = 1 THEN lh ELSE 0, hdr |-> hdr,
                 body |-> Fetch(ix, t, hdr.ID, new).body \o code]
    OBVIOUS
  <2> HIDE DEF block
  <2>3. Putting(main', ix, t, hdr.ID, block)
    BY <2>1, <2>2, AppendPuts
  <2>4. QED
    BY <1>4, <2>3
<1>10. block.hdr = hdr /\ block.body = Fetch(ix, t, hdr.ID, new).body \o code
  OBVIOUS
<1> HIDE DEF block
<1>11. GoodRecord(S, W, <<t, lh>>, block)
  <2>1. \A f \in W[t] : f \in ToSet(rest)
    BY <1>6, <1>7
  <2>2. GoodRecord(accepted, W, <<t, lh>>, block)
    BY <1>10, <2>1, NextBlock
  <2>3. QED
    BY <1>7, <2>2
<1>12. IsIndex(ix) /\ ix.clist = t /\ ix.cache = main.cache /\ GoodStores(S, W, ix) /\ GoodCache(S, W, ix)
  <2>1. IsIndex(ix) /\ ix.clist = t /\ ix.cache = main.cache
    BY DEF Seen
  <2>2. Onward(accepted, Pending, S, W)
    BY <1>7, <1>8 DEF Moves
  <2>3. QED
    BY <2>1, <2>2, GoodOnward DEF Seen
<1>13. GoodStores(S, W, main') /\ GoodCache(S, W, main')
  <2>1. PICK n : n = main'
    OBVIOUS
  <2>2. Putting(n, ix, t, lh, block)
    BY <1>9, <2>1
  <2>3. GoodStores(S, W, n) /\ GoodCache(S, W, n)
    BY <1>11, <1>12, <2>2, PuttingGood
  <2>4. QED
    BY <2>1, <2>3
<1>14. /\ main'.sched = ix.sched /\ main'.clist = t /\ lh \in DOMAIN main'.cache
       /\ main'.cache[lh] = block
       /\ \A b \in DOMAIN main'.cache : b = lh \/ b = 1 \/ b \in DOMAIN main.cache
  BY <1>9, <1>12, Zenon DEF Putting
<1>15. \A u : Free(main, u) => Free(main', u)
  BY <1>14 DEF Seen, Free
<1>16. Sending'
  <2>1. \A u \in todo : Free(main', u)
    BY <1>1, <1>15 DEF Going, Sending
  <2>2. DOMAIN main'.cache # {}
    BY <1>14
  <2>3. QED
    BY <1>1, <1>3, <1>14, <2>1, <2>2 DEF Sending
<1>17. JobGood'
  <2> SUFFICES ASSUME job' # NoJob PROVE JobGood'
    BY DEF JobGood
  <2>1. /\ job'.term = t /\ job'.lh = lh /\ job'.hdr = hdr /\ job'.rest = rest
    BY <1>5
  <2>2. hdr # NullHdr
    BY <1>4 DEF NullHdr
  <2>3. Fetch(main', t, lh, FALSE).hdr = hdr
    <3>1. block # NoBlock
      BY <1>10, <2>2 DEF NoBlock
    <3>2. QED
      BY <1>10, <1>14, <3>1 DEF Fetch, Cached
  <2>4. Free(main', t)
    BY <1>1, <1>15 DEF Going, JobGood
  <2>5. \A b \in DOMAIN main'.cache : b <= lh
    <3>1. \A b \in DOMAIN main.cache : b \in Nat
      BY DEF TypeInv, IsIndex, AreRecords
    <3>2. ASSUME NEW b \in DOMAIN main'.cache PROVE b <= lh
      <4>1. b = lh \/ b = 1 \/ b \in DOMAIN main.cache
        BY <1>14
      <4>2. lh \in Nat /\ lh >= 1 /\ job.lh \in Nat /\ job.lh <= lh
        BY <1>2, <1>4
      <4>3. b \in DOMAIN main.cache => b \in Nat /\ b <= job.lh
        BY <1>3, <3>1
      <4>4. QED
        BY <4>1, <4>2, <4>3
    <3>3. QED
      BY <3>2
  <2>6. (Current(job.term, job.lh).hdr = job.hdr)'
    BY <1>14, <2>1, <2>3 DEF Current
  <2>7. job'.term \notin todo' /\ Free(main', job'.term) /\ Rising(job'.rest) /\ pc' # "batch"
    BY <1>3, <2>1, <2>4
  <2>8. job'.hdr # NullHdr /\ job'.lh # 0 /\ job'.hdr.ID = job'.lh
    BY <1>4, <2>1, <2>2
  <2>9. \A b \in DOMAIN main'.cache : b <= job'.lh
    BY <2>1, <2>5
  <2>10. QED
    BY <2>6, <2>7, <2>8, <2>9 DEF JobGood
<1>18. CacheRises' /\ PendingKnown'
  <2>1. CacheRises'
    BY <1>1 DEF Going, CacheRises
  <2>2. PendingKnown'
    BY <1>1, <1>6 DEF Going, PendingKnown
  <2>3. QED
    BY <2>1, <2>2
<1>19. QED
  BY <1>1, <1>7, <1>13, <1>16, <1>17, <1>18 DEF BuildInv, Going

\* A chunk is appended, or its block cannot be read.
LEMMA EmitGood ==
  ASSUME TypeInv, BuildInv, op = "BUILD", EmitChunk, TypeInv'
  PROVE  BuildInv'
<1>0. PICK t, new : t = job.term /\ new \in BOOLEAN /\ (new <=> ~Fits)
  OBVIOUS
<1> DEFINE lh   == IF Fits THEN job.lh ELSE job.lh + 1
           hdr  == ChunkHeader
           code == Encode(Chunk, Base)
           rest == SubSeq(job.rest, Len(Chunk) + 1, Len(job.rest))
           good(w) == AppendChunk(w, job.term, lh, hdr, code, ~Fits)
           bad(w) == AppendFails(w, job.term, lh, hdr, code, ~Fits)
           next == IF rest = <<>> THEN NoJob ELSE [job EXCEPT !.lh = lh, !.hdr = hdr, !.rest = rest]
           reads == Reads(Target, hdr, ~Fits)
<1>1. /\ pc = "flush" /\ job # NoJob /\ Target = main /\ main.clist = t
      /\ UNCHANGED <<open, cache, op, accepted>>
  BY <1>0, BuildTarget DEF EmitChunk, indexer, history
<1>2. ~failed /\ open /\ t \in Terms /\ Going
  BY <1>0, <1>1, JobPending DEF BuildInv
<1>3. PICK fault \in IF reads THEN Faults ELSE {"none"} :
        \E ix \in IF reads THEN Waits(Target, fault) ELSE {Target} :
          IF fault = "get" THEN SetTarget({bad(ix)}) /\ Fail
          ELSE /\ SetTarget({good(ix)}) /\ job' = next
               /\ UNCHANGED <<pc, ret, todo, mkeys, mbuf, failed>>
  BY Zenon DEF EmitChunk
<1>4. PICK ix \in IF reads THEN Waits(Target, fault) ELSE {Target} :
          IF fault = "get" THEN SetTarget({bad(ix)}) /\ Fail
          ELSE /\ SetTarget({good(ix)}) /\ job' = next
               /\ UNCHANGED <<pc, ret, todo, mkeys, mbuf, failed>>
  BY <1>3, Zenon
<1>5. Seen(ix)
  <2>1. ix \in {main} \cup Waits(main, fault)
    BY <1>1, <1>4
  <2>2. QED
    BY <1>2, <2>1, SeenIndex
<1>6. CASE fault = "get"
  <2>1. SetTarget({bad(ix)}) /\ Fail
    BY <1>4, <1>6, Zenon
  <2>2. main' = bad(ix)
    <3> HIDE DEF bad
    <3>1. QED
      BY <2>1, BuildTarget
  <2>3. bad(ix).server = ix.server /\ bad(ix).sched = ix.sched
    BY <1>5 DEF AppendFails, Seen, IsIndex
  <2> HIDE DEF bad
  <2>4. GoodStores(accepted, Pending, main')
    BY <1>5, <2>2, <2>3 DEF Seen, GoodStores
  <2>5. QED
    BY <1>1, <1>2, <2>1, <2>4, FailGood DEF TypeInv
<1>7. CASE fault # "get"
  <2>1. /\ SetTarget({good(ix)}) /\ job' = next
        /\ UNCHANGED <<pc, ret, todo, mkeys, mbuf, failed>>
    BY <1>4, <1>7, Zenon
  <2>2. (~Fits) = new
    BY <1>0
  <2>3. main' = AppendChunk(ix, t, lh, hdr, code, new)
    <3>1. good(ix) = AppendChunk(ix, t, lh, hdr, code, new)
      BY <1>0, <2>2
    <3> HIDE DEF good
    <3>2. QED
      BY <2>1, <3>1, BuildTarget
  <2>4. ChunkGoes(t, lh, hdr, code, Chunk, new)
    BY <1>0 DEF ChunkGoes
  <2>5. job' = IF rest = <<>> THEN NoJob ELSE [job EXCEPT !.lh = lh, !.hdr = hdr, !.rest = rest]
    BY <2>1
  <2>6. Rising(job.rest)
    BY <1>1, <1>2 DEF Going, JobGood
  <2>7. rest = SubSeq(job.rest, Len(Chunk) + 1, Len(job.rest))
    OBVIOUS
  <2> HIDE DEF lh, hdr, code, rest, good, bad, next, reads
  <2>8. Rising(rest) /\ ToSet(job.rest) = ToSet(Chunk) \cup ToSet(rest)
    BY <1>1, <2>6, <2>7, ChunkRest
  <2>9. QED
    BY <1>0, <1>1, <1>5, <2>1, <2>3, <2>4, <2>5, <2>7, <2>8, EmittedGood
<1>8. QED
  BY <1>6, <1>7

\* Of a list nothing is scheduled of, all reads are of the server.
LEMMA FreeRead ==
  ASSUME NEW ix, NEW w, IsIndex(ix), IsIndex(w), w.server = ix.server, NEW t, Free(ix, t), Free(w, t)
  PROVE  \A b : ReadBlock(w, t, b) = ReadBlock(ix, t, b)
<1> SUFFICES ASSUME NEW b PROVE ReadBlock(w, t, b) = ReadBlock(ix, t, b)
  OBVIOUS
<1>1. /\ <<t, b>> \in DOMAIN View(ix) <=> <<t, b>> \in DOMAIN ix.server
      /\ <<t, b>> \in DOMAIN ix.server => View(ix)[<<t, b>>] = ix.server[<<t, b>>]
  BY FreeStored DEF View
<1>2. /\ <<t, b>> \in DOMAIN View(w) <=> <<t, b>> \in DOMAIN w.server
      /\ <<t, b>> \in DOMAIN w.server => View(w)[<<t, b>>] = w.server[<<t, b>>]
  BY FreeStored DEF View
<1>3. QED
  BY <1>1, <1>2 DEF ReadBlock

\* Between two calls, and when a flush begins, nothing is under way.
LEMMA IdleGood ==
  ASSUME pc' \in {"idle", "flush", "end"}, job' = NoJob, ~failed',
         main'.sched = <<>>, DOMAIN main'.cache = {},
         GoodStores(accepted', Pending', main'), CacheRises', PendingKnown', pc' # "idle" => open'
  PROVE  BuildInv'
<1>1. \A t : Free(main', t)
  BY DEF Free
<1>2. Sending' /\ JobGood'
  BY <1>1 DEF Sending, JobGood
<1>3. GoodCache(accepted', Pending', main')
  BY DEF GoodCache
<1>4. QED
  BY <1>2, <1>3 DEF BuildInv, Going

\* The headers of a list are read.
LEMMA BeginGood ==
  ASSUME TypeInv, BuildInv, op = "BUILD", NEW t \in Terms, BeginList(t), TypeInv'
  PROVE  BuildInv'
<1> DEFINE lh == ListHeader(t)
           hdr == IF lh = 0 THEN NullHdr ELSE BlockHeader(t, lh)
           next == [term |-> t, lh |-> lh, hdr |-> hdr, rest |-> cache[t]]
<1>1. /\ pc = "flush" /\ job = NoJob /\ t \in todo
      /\ UNCHANGED <<open, cache, accepted, op>>
  BY DEF BeginList, indexer, history
<1>2. PICK fault \in Faults :
        /\ main' \in IF ReadsMain(t) THEN Waits(main, fault) ELSE {main}
        /\ IF fault = "get" \/ (lh # 0 /\ hdr = NullHdr) THEN Fail
           ELSE job' = next /\ todo' = todo \ {t} /\ UNCHANGED <<pc, ret, mkeys, mbuf, failed>>
  BY Zenon DEF BeginList
<1>3. Going /\ ~failed /\ open
  BY <1>1 DEF BuildInv, Going, Sending
<1>4. Seen(main')
  <2>1. PICK n : n = main'
    OBVIOUS
  <2>2. n \in {main} \cup Waits(main, fault)
    BY <1>2, <2>1
  <2>3. Seen(n)
    BY <1>3, <2>2, SeenIndex
  <2>4. QED
    BY <2>1, <2>3
<1>5. CASE fault = "get" \/ (lh # 0 /\ hdr = NullHdr)
  <2>1. Fail
    BY <1>2, <1>5, Zenon
  <2>2. QED
    BY <1>1, <1>3, <1>4, <2>1, FailGood DEF Seen
<1>6. CASE ~(fault = "get" \/ (lh # 0 /\ hdr = NullHdr))
  <2>1. job' = next /\ todo' = todo \ {t} /\ UNCHANGED <<pc, ret, mkeys, mbuf, failed>>
    BY <1>2, <1>6, Zenon
  <2>2. main' \in Waits(main, fault)
    BY <1>2, BuildTarget DEF ReadsMain
  <2>3. lh # 0 => hdr = ReadBlock(main, t, lh).hdr
    BY BuildTarget DEF BlockHeader, GetPListBlockHeader
  <2>4. lh # 0 => hdr # NullHdr
    BY <1>6
  <2>5. lh = 0 => hdr = NullHdr
    OBVIOUS
  <2>6. job'.term = t /\ job'.lh = lh /\ job'.hdr = hdr /\ job'.rest = cache[t]
    BY <2>1
  <2> HIDE DEF lh, hdr, next
  <2>7. job' # NoJob
    BY <2>6, CBIndexAssumption DEF NoJob
  <2>8. GoodRecord(accepted, Pending, <<t, lh>>, ReadBlock(main, t, lh))
    <3>1. PICK S, W : S = accepted /\ W = Pending
      OBVIOUS
    <3>2. IsIndex(main) /\ GoodStores(S, W, main)
      BY <3>1 DEF TypeInv, BuildInv
    <3>3. GoodRecord(S, W, <<t, lh>>, ReadBlock(main, t, lh))
      BY <3>2, FetchGood
    <3>4. QED
      BY <3>1, <3>3
  <2>9. lh # 0 => hdr.ID = lh
    BY <2>3, <2>4, <2>8 DEF GoodRecord
  <2>10. /\ Free(main, t) /\ Rising(cache[t])
         /\ DOMAIN main.cache # {} => main.clist # t
    BY <1>1, <1>3 DEF Going, Sending, CacheRises
  <2>11. main'.clist = main.clist /\ main'.cache = main.cache /\ \A u : Free(main, u) => Free(main', u)
    BY <1>4 DEF Seen
  <2>12. \A b : ReadBlock(main', t, b) = ReadBlock(main, t, b)
    <3>1. PICK S, W, n : S = accepted /\ W = Pending /\ n = main'
      OBVIOUS
    <3>2. IsIndex(main) /\ GoodStores(S, W, main) /\ n \in Waits(main, fault)
      BY <2>2, <3>1 DEF TypeInv, BuildInv
    <3>3. Waited(S, W, n, main)
      BY <3>2, WaitGood
    <3>4. QED
      BY <2>10, <3>1, <3>3 DEF Waited
  <2>13. (Current(job.term, job.lh) = ReadBlock(main, job.term, job.lh))'
    <3>1. main'.clist = t => DOMAIN main'.cache = {}
      BY <2>10, <2>11
    <3>2. QED
      BY <2>6, <3>1 DEF Current, Fetch, Cached
  <2>14. JobGood'
    <3>1. job'.term \notin todo' /\ Free(main', job'.term) /\ Rising(job'.rest) /\ pc' # "batch"
      BY <1>1, <2>1, <2>6, <2>10, <2>11
    <3>2. /\ job'.hdr = NullHdr => job'.lh = 0
          /\ job'.hdr # NullHdr => job'.lh # 0 /\ job'.hdr.ID = job'.lh
      BY <2>4, <2>5, <2>6, <2>9
    <3>3. (job.hdr # NullHdr => Current(job.term, job.lh).hdr = job.hdr)'
      BY <2>3, <2>5, <2>6, <2>12, <2>13
    <3>4. main'.clist = job'.term => \A b \in DOMAIN main'.cache : b <= job'.lh
      BY <2>6, <2>10, <2>11
    <3>5. QED
      BY <3>1, <3>2, <3>3, <3>4 DEF JobGood
  <2>15. Sending'
    <3>1. \A u \in todo' : Free(main', u)
      BY <1>1, <1>3, <2>1, <2>11 DEF Going, Sending
    <3>2. DOMAIN main'.cache # {} => main'.clist \notin todo'
      BY <1>1, <1>3, <2>1, <2>11 DEF Going, Sending
    <3>3. QED
      BY <1>1, <1>3, <2>1, <2>7, <3>1, <3>2 DEF Sending
  <2>16. Pending' = Pending
    <3>1. \A u \in Terms : Pending[u] = IF u \in todo THEN ToSet(cache[u]) ELSE {}
      BY <1>1, <1>3 DEF Pending, Waiting
    <3>2. \A u \in Terms : Pending'[u] = IF u \in todo' THEN ToSet(cache[u])
                                         ELSE IF job'.term = u THEN ToSet(job'.rest) ELSE {}
      BY <1>1, <1>3, <2>1, <2>7 DEF Pending, Waiting
    <3>3. \A u \in Terms : Pending'[u] = Pending[u]
      BY <1>1, <2>1, <2>6, <3>1, <3>2
    <3>4. Pending = [u \in Terms |-> Pending[u]] /\ Pending' = [u \in Terms |-> Pending'[u]]
      BY DEF Pending
    <3> HIDE DEF Pending
    <3>5. QED
      BY <3>3, <3>4
  <2>17. CacheRises' /\ PendingKnown'
    BY <1>1, <1>3, <2>16 DEF Going, CacheRises, PendingKnown
  <2>18. GoodStores(accepted', Pending', main') /\ GoodCache(accepted', Pending', main')
    BY <1>1, <1>4, <2>16 DEF Seen
  <2>19. QED
    BY <1>1, <1>3, <2>1, <2>14, <2>15, <2>17, <2>18 DEF BuildInv, Going
<1>7. QED
  BY <1>5, <1>6

\* The block cache moves to the list under way.
SwitchedTo(n, w, t) ==
  /\ IsIndex(n) /\ n.server = w.server /\ n.sched = w.sched /\ n.clist = t /\ n.cache = NoRecords

\* Then that list goes on from what the server has.
LEMMA SwitchedGood ==
  ASSUME TypeInv, BuildInv, TypeInv', job # NoJob, pc' = "flush",
         UNCHANGED <<open, cache, accepted, todo, job, failed>>,
         NEW w, SwitchedTo(main', w, job.term), GoodStores(accepted, Pending, w),
         \A t \in todo \cup {job.term} : Free(w, t),
         \A b : ReadBlock(main', job.term, b) = Current(job.term, b)
  PROVE  BuildInv'
<1>1. ~failed /\ open /\ pc \in {"flush", "batch"} /\ job.term \in Terms /\ Going
  BY JobPending DEF BuildInv
<1>2. /\ IsIndex(main') /\ main'.server = w.server /\ main'.sched = w.sched
      /\ main'.clist = job.term /\ DOMAIN main'.cache = {}
  BY DEF SwitchedTo, NoRecords
<1>3. Pending' = Pending
  BY <1>1 DEF Pending, Waiting
<1>4. GoodStores(accepted', Pending', main') /\ GoodCache(accepted', Pending', main')
  BY <1>2, <1>3 DEF GoodStores, GoodCache
<1>5. Sending'
  BY <1>1, <1>2 DEF Sending, Free
<1>6. JobGood'
  <2>1. (Current(job.term, job.lh) = ReadBlock(main, job.term, job.lh))'
    BY <1>2 DEF Current, Fetch, Cached
  <2>2. (job.hdr # NullHdr => Current(job.term, job.lh).hdr = job.hdr)'
    BY <1>1, <2>1 DEF Going, JobGood
  <2>3. Free(main', job.term)
    BY <1>2 DEF Free
  <2>4. QED
    BY <1>1, <1>2, <2>2, <2>3 DEF Going, JobGood
<1>7. CacheRises' /\ PendingKnown'
  BY <1>1, <1>3 DEF Going, CacheRises, PendingKnown
<1>8. QED
  BY <1>1, <1>4, <1>5, <1>6, <1>7 DEF BuildInv, Going

\* The cached blocks are scheduled and the cache moves on, or a batch is due.
LEMMA MoveGood ==
  ASSUME TypeInv, BuildInv, op = "BUILD", MoveCache, TypeInv'
  PROVE  BuildInv'
<1>1. /\ pc = "flush" /\ job # NoJob /\ main.clist # job.term
      /\ UNCHANGED <<open, cache, accepted, todo, job, failed>>
      /\ \/ main' = WriteCached(main) /\ pc' = "batch"
         \/ main' = SwitchList(WriteCached(main), job.term) /\ pc' = "flush"
  <2>1. /\ pc = "flush" /\ job # NoJob /\ Target.clist # job.term
        /\ UNCHANGED <<open, cache, accepted, todo, job, failed>>
        /\ IF BatchDue THEN SetTarget({WriteCached(Target)}) /\ pc' = "batch"
           ELSE SetTarget({SwitchList(WriteCached(Target), job.term)}) /\ UNCHANGED pc
    BY DEF MoveCache, indexer, history
  <2>2. QED
    BY <2>1, BuildTarget
<1>2. ~failed /\ open /\ job.term \in Terms /\ Going
  BY <1>1, JobPending DEF BuildInv
<1>3. PICK w : w = WriteCached(main)
  OBVIOUS
<1>4. Scheduled(accepted, Pending, w, main)
  <2>1. PICK S, W : S = accepted /\ W = Pending
    OBVIOUS
  <2>2. IsIndex(main) /\ GoodStores(S, W, main) /\ GoodCache(S, W, main)
    BY <1>2, <2>1 DEF TypeInv, BuildInv, Going
  <2>3. Scheduled(S, W, w, main)
    BY <1>3, <2>2, WriteCachedGood
  <2>4. QED
    BY <2>1, <2>3
<1>5. /\ IsIndex(w) /\ GoodStores(accepted, Pending, w) /\ GoodCache(accepted, Pending, w)
      /\ w.clist = main.clist /\ w.cache = main.cache
      /\ \A t : Free(main, t) /\ (DOMAIN main.cache = {} \/ main.clist # t) => Free(w, t)
  BY <1>4 DEF Scheduled
<1>6. w.server = main.server
  BY <1>3, WriteCachedType DEF TypeInv
<1>7. \A t \in todo \cup {job.term} : Free(main, t) /\ Free(w, t)
  BY <1>1, <1>2, <1>5 DEF Going, Sending, JobGood
<1>8. \A b : ReadBlock(w, job.term, b) = Current(job.term, b)
  BY <1>1, <1>5, <1>6, <1>7, FreeRead DEF Current, TypeInv
<1>9. CASE main' = w /\ pc' = "batch"
  <2>1. Pending' = Pending
    BY <1>1, <1>2, <1>9 DEF Pending, Waiting
  <2>2. Sending'
    BY <1>1, <1>2, <1>5, <1>7, <1>9 DEF Going, Sending
  <2>3. (job.hdr # NullHdr => Current(job.term, job.lh).hdr = job.hdr)'
    <3>1. (Current(job.term, job.lh) = ReadBlock(main, job.term, job.lh))'
      BY <1>1, <1>5, <1>9 DEF Current
    <3>2. QED
      BY <1>1, <1>2, <1>8, <1>9, <3>1 DEF Going, JobGood
  <2>4. JobGood'
    BY <1>1, <1>2, <1>5, <1>7, <1>9, <2>3 DEF Going, JobGood
  <2>5. CacheRises' /\ PendingKnown'
    BY <1>1, <1>2, <2>1 DEF Going, CacheRises, PendingKnown
  <2>6. QED
    BY <1>1, <1>2, <1>5, <1>9, <2>1, <2>2, <2>4, <2>5 DEF BuildInv, Going
<1>10. CASE main' = SwitchList(w, job.term) /\ pc' = "flush"
  <2>1. SwitchedTo(main', w, job.term)
    BY <1>2, <1>5, <1>10, SwitchType DEF SwitchedTo
  <2>2. \A b : ReadBlock(main', job.term, b) = ReadBlock(w, job.term, b)
    BY <2>1 DEF SwitchedTo, ReadBlock, View, Stored, StoresOn
  <2>3. QED
    BY <1>1, <1>5, <1>7, <1>8, <1>10, <2>1, <2>2, SwitchedGood
<1>11. QED
  BY <1>1, <1>3, <1>9, <1>10

\* The batch is executed.
LEMMA BatchGood ==
  ASSUME TypeInv, BuildInv, op = "BUILD", ExecuteBatch, TypeInv'
  PROVE  BuildInv'
<1>1. /\ pc = "batch" /\ job # NoJob
      /\ UNCHANGED <<open, cache, accepted, op>>
  BY DEF ExecuteBatch, indexer, history, TypeInv, JobInFlush
<1>2. ~failed /\ open /\ job.term \in Terms /\ Going /\ main.clist # job.term
  BY <1>1, JobPending DEF BuildInv, Going, JobGood
<1>3. PICK fault \in Faults : \E ix \in Waits(main, fault) :
        IF ix.status = "failed" THEN main' = ix /\ Fail
        ELSE /\ main' = SwitchList([ix EXCEPT !.accum = 0], job.term)
             /\ pc' = "flush" /\ UNCHANGED <<ret, todo, job, mkeys, mbuf, failed>>
  <2>1. PICK fault \in Faults : \E ix \in Waits(Target, fault) :
          IF ix.status = "failed" THEN SetTarget({ix}) /\ Fail
          ELSE /\ SetTarget({SwitchList([ix EXCEPT !.accum = 0], job.term)})
               /\ pc' = "flush" /\ UNCHANGED <<ret, todo, job, mkeys, mbuf, failed>>
    BY Zenon DEF ExecuteBatch
  <2>2. PICK ix \in Waits(Target, fault) :
          IF ix.status = "failed" THEN SetTarget({ix}) /\ Fail
          ELSE /\ SetTarget({SwitchList([ix EXCEPT !.accum = 0], job.term)})
               /\ pc' = "flush" /\ UNCHANGED <<ret, todo, job, mkeys, mbuf, failed>>
    BY <2>1
  <2>3. ix \in Waits(main, fault)
    BY <2>2, BuildTarget
  <2>4. PICK sw : sw = SwitchList([ix EXCEPT !.accum = 0], job.term)
    OBVIOUS
  <2>5. \A x : SetTarget({x}) => main' = x
    BY BuildTarget
  <2>6. IF ix.status = "failed" THEN main' = ix /\ Fail
        ELSE /\ main' = sw /\ pc' = "flush" /\ UNCHANGED <<ret, todo, job, mkeys, mbuf, failed>>
    BY <2>2, <2>4, <2>5, Zenon
  <2>7. QED
    BY <2>3, <2>4, <2>6, Zenon
<1>4. PICK ix \in Waits(main, fault) :
        IF ix.status = "failed" THEN main' = ix /\ Fail
        ELSE /\ main' = SwitchList([ix EXCEPT !.accum = 0], job.term)
             /\ pc' = "flush" /\ UNCHANGED <<ret, todo, job, mkeys, mbuf, failed>>
  BY <1>3, Zenon
<1>5. Seen(ix)
  BY <1>2, <1>4, SeenIndex
<1>6. CASE ix.status = "failed"
  BY <1>1, <1>2, <1>4, <1>5, <1>6, FailGood DEF Seen
<1>7. CASE ix.status # "failed"
  <2>1. /\ main' = SwitchList([ix EXCEPT !.accum = 0], job.term)
        /\ pc' = "flush" /\ UNCHANGED <<ret, todo, job, mkeys, mbuf, failed>>
    BY <1>4, <1>7, Zenon
  <2>2. SwitchedTo(main', ix, job.term)
    <3> DEFINE y == [ix EXCEPT !.accum = 0]
    <3>1. y.server = ix.server /\ y.sched = ix.sched /\ IsIndex(y)
      BY <1>5 DEF Seen, IsIndex
    <3>2. main' = SwitchList(y, job.term)
      BY <2>1
    <3> HIDE DEF y
    <3>3. QED
      BY <1>2, <3>1, <3>2, SwitchType DEF SwitchedTo
  <2>3. \A t \in todo \cup {job.term} : Free(main, t) /\ Free(ix, t)
    BY <1>1, <1>2, <1>5 DEF Going, Sending, JobGood, Seen
  <2>4. \A b : ReadBlock(main', job.term, b) = ReadBlock(ix, job.term, b)
    BY <2>2 DEF SwitchedTo, ReadBlock, View, Stored, StoresOn
  <2>5. \A b : ReadBlock(ix, job.term, b) = ReadBlock(main, job.term, b)
    <3>1. PICK S, W : S = accepted /\ W = Pending
      OBVIOUS
    <3>2. IsIndex(main) /\ GoodStores(S, W, main)
      BY <3>1 DEF TypeInv, BuildInv
    <3>3. Waited(S, W, ix, main)
      BY <1>4, <3>2, WaitGood
    <3>4. QED
      BY <2>3, <3>3 DEF Waited
  <2>6. \A b : ReadBlock(main', job.term, b) = Current(job.term, b)
    BY <1>2, <2>4, <2>5 DEF Current
  <2>7. QED
    BY <1>1, <1>5, <2>1, <2>2, <2>3, <2>6, SwitchedGood DEF Seen
<1>8. QED
  BY <1>6, <1>7

\* Nothing waits when no session is open.
LEMMA NoneWaits ==
  ASSUME ~open', pc' = "idle"
  PROVE  PendingKnown' /\ (accepted \subseteq accepted' => Moves)
<1>1. \A t \in Terms : Pending'[t] = {}
  BY NonePending
<1>2. QED
  BY <1>1, PendingShrinks DEF PendingKnown

\* The live index goes on from one that was good.
LEMMA StoresGo ==
  ASSUME NEW ix, IsIndex(ix), GoodStores(accepted, Pending, ix), Moves,
         main'.server = ix.server, main'.sched = ix.sched
  PROVE  GoodStores(accepted', Pending', main')
<1>1. PICK S, W : S = accepted' /\ W = Pending'
  OBVIOUS
<1>2. PICK A, V : A = accepted /\ V = Pending
  OBVIOUS
<1>3. Onward(A, V, S, W) /\ GoodStores(A, V, ix)
  BY <1>1, <1>2 DEF Moves
<1>4. GoodStores(S, W, ix)
  BY <1>3, GoodOnward
<1>5. QED
  BY <1>1, <1>4 DEF GoodStores

\* Between two calls of a session that goes on.
LEMMA IdleBuild ==
  ASSUME TypeInv, BuildInv, pc = "idle", ~failed
  PROVE  /\ job = NoJob /\ main.sched = <<>> /\ DOMAIN main.cache = {} /\ IsIndex(main)
         /\ GoodStores(accepted, Pending, main) /\ CacheRises /\ PendingKnown
         /\ \A t \in Terms : Pending[t] = IF open THEN ToSet(cache[t]) ELSE {}
BY DEF TypeInv, JobInFlush, BuildInv, Going, Sending, Pending, Waiting

\* Calls outside a session, and those that touch neither index nor cache.
LEMMA OuterGood ==
  ASSUME TypeInv, BuildInv, op = "BUILD", ~RetriesFlush, TypeInv',
         OpenStore \/ ReadList \/ CloseStore \/ ClearStore \/ Start \/ UNCHANGED vars
  PROVE  BuildInv'
<1>1. CASE OpenStore \/ UNCHANGED vars
  <2>1. UNCHANGED <<open, cache, accepted, main, pc, todo, job, failed>>
    BY <1>1 DEF OpenStore, vars, indexer, store, call, history
  <2>2. Pending' = Pending
    BY <2>1 DEF Pending, Waiting
  <2>3. GoodStores(accepted', Pending', main') /\ pc' # "merge"
    BY <2>1, <2>2 DEF BuildInv
  <2>4. CASE failed
    BY <2>1, <2>3, <2>4 DEF BuildInv
  <2>5. CASE ~failed
    <3>1. Going
      BY <2>5 DEF BuildInv
    <3>2. GoodCache(accepted', Pending', main') /\ CacheRises' /\ PendingKnown'
      BY <2>1, <2>2, <3>1 DEF Going, CacheRises, PendingKnown
    <3>3. Sending' /\ JobGood'
      BY <2>1, <3>1 DEF Going, Sending, JobGood, Current
    <3>4. QED
      BY <2>1, <2>3, <2>5, <3>2, <3>3 DEF BuildInv, Going
  <2>6. QED
    BY <2>4, <2>5
<1>2. CASE ReadList \/ CloseStore \/ ClearStore \/ Start
  <2>1. pc = "idle" /\ ~open
    BY <1>2 DEF ReadList, CloseStore, ClearStore, Start, Idle
  <2>2. ~failed
    BY <2>1 DEF BuildInv
  <2>3. UNCHANGED <<pc, todo, job, failed>>
    BY <1>2 DEF ReadList, CloseStore, ClearStore, Start, call
  <2>4. /\ job = NoJob /\ main.sched = <<>> /\ DOMAIN main.cache = {} /\ IsIndex(main)
        /\ GoodStores(accepted, Pending, main)
    BY <2>1, <2>2, IdleBuild
  <2>5. \A t \in Terms : Pending'[t] = {}
    <3>1. CASE ReadList \/ CloseStore \/ ClearStore
      <4>1. ~open'
        BY <2>1, <3>1 DEF ReadList, CloseStore, ClearStore, indexer
      <4>2. QED
        BY <2>1, <2>3, <4>1, NonePending
    <3>2. CASE Start
      <4>1. \A t \in Terms : cache'[t] = <<>>
        BY <3>2 DEF Start, EmptyCache
      <4>2. ToSet(<<>>) = {}
        BY DEF ToSet
      <4>3. QED
        BY <2>1, <2>3, <4>1, <4>2 DEF Pending, Waiting
    <3>3. QED
      BY <1>2, <3>1, <3>2
  <2>6. PendingKnown'
    BY <2>5 DEF PendingKnown
  <2>7. CacheRises'
    <3>1. CASE ReadList \/ CloseStore \/ ClearStore
      BY <2>1, <3>1 DEF ReadList, CloseStore, ClearStore, indexer, CacheRises
    <3>2. CASE Start
      <4>1. \A t \in Terms : cache'[t] = <<>>
        BY <3>2 DEF Start, EmptyCache
      <4>2. Rising(<<>>)
        BY DEF Rising
      <4>3. QED
        BY <4>1, <4>2 DEF CacheRises
    <3>3. QED
      BY <1>2, <3>1, <3>2
  <2>8. GoodStores(accepted', Pending', main') /\ main'.sched = <<>> /\ DOMAIN main'.cache = {}
    <3>1. accepted' = accepted => Moves
      BY <2>5, PendingShrinks
    <3>2. CASE ReadList
      <4>1. PICK fault \in Faults : main' \in Waits(main, fault)
        BY <3>2 DEF ReadList
      <4>2. PICK S, W, n : S = accepted /\ W = Pending /\ n = main'
        OBVIOUS
      <4>3. n \in Waits(main, fault) /\ GoodStores(S, W, main)
        BY <2>4, <4>1, <4>2
      <4>4. Waited(S, W, n, main)
        BY <2>4, <4>3, WaitGood
      <4>5. IsIndex(n) /\ n.sched = <<>> /\ n.cache = main.cache /\ GoodStores(accepted, Pending, n)
        BY <4>2, <4>4 DEF Waited
      <4>6. Moves
        BY <3>1, <3>2 DEF ReadList, history
      <4>7. QED
        BY <2>4, <4>2, <4>5, <4>6, StoresGo
    <3>3. CASE CloseStore
      <4>1. main' = Close(main) /\ Moves
        BY <3>1, <3>3 DEF CloseStore, history
      <4>2. main'.server = main.server /\ main'.sched = <<>> /\ main'.cache = main.cache
        BY <2>4, <4>1 DEF Close, IsIndex
      <4>3. QED
        BY <2>4, <4>1, <4>2, StoresGo
    <3>4. CASE ClearStore
      <4>1. main' = Drop(main)
        BY <3>4 DEF ClearStore
      <4>2. main'.server = NoRecords /\ main'.sched = <<>> /\ main'.cache = main.cache
        BY <2>4, <4>1 DEF Drop, IsIndex
      <4>3. DOMAIN NoRecords = {} /\ IsFiniteSet({})
        BY FS_EmptySet DEF NoRecords
      <4>4. QED
        BY <2>4, <4>2, <4>3 DEF GoodStores, GoodRecords
    <3>5. CASE Start
      <4>1. main' = ResetCaches(main) /\ Moves
        BY <3>1, <3>5 DEF Start
      <4>2. main'.server = main.server /\ main'.sched = <<>> /\ main'.cache = NoRecords
        BY <2>4, <4>1 DEF ResetCaches, IsIndex
      <4>3. DOMAIN NoRecords = {}
        BY DEF NoRecords
      <4>4. QED
        BY <2>4, <4>1, <4>2, <4>3, StoresGo
    <3>6. QED
      BY <1>2, <3>2, <3>3, <3>4, <3>5
  <2>9. QED
    BY <2>1, <2>2, <2>3, <2>4, <2>6, <2>7, <2>8, IdleGood
<1>3. QED
  BY <1>1, <1>2

\* The process is no more.
LEMMA GoneGood ==
  ASSUME TypeInv, BuildInv, op = "BUILD", Gone, TypeInv'
  PROVE  BuildInv'
<1>1. /\ ~open' /\ pc' = "idle" /\ job' = NoJob /\ ~failed' /\ accepted' = accepted
  BY DEF Gone
<1>2. PICK lost : main' = [NewIndex EXCEPT !.server = Stored(main, lost)]
  BY DEF Gone
<1>3. main'.server = Stored(main, lost) /\ main'.sched = <<>> /\ main'.cache = NoRecords
  BY <1>2 DEF NewIndex
<1>4. IsFiniteSet(DOMAIN Stored(main, lost)) /\ GoodRecords(accepted, Pending, Stored(main, lost))
  <2>1. PICK S, W : S = accepted /\ W = Pending
    OBVIOUS
  <2>2. IsIndex(main) /\ GoodStores(S, W, main)
    BY <2>1 DEF TypeInv, BuildInv
  <2>3. IsFiniteSet(DOMAIN Stored(main, lost)) /\ GoodRecords(S, W, Stored(main, lost))
    BY <2>2, StoredGood
  <2>4. QED
    BY <2>1, <2>3
<1>5. GoodStores(accepted, Pending, main') /\ IsIndex(main')
  BY <1>3, <1>4 DEF GoodStores, TypeInv
<1>6. Moves /\ PendingKnown'
  BY <1>1, NoneWaits
<1>7. GoodStores(accepted', Pending', main')
  BY <1>5, <1>6, StoresGo
<1>8. CacheRises' /\ DOMAIN main'.cache = {}
  BY <1>1, <1>3 DEF CacheRises, NoRecords
<1>9. QED
  BY <1>1, <1>3, <1>6, <1>7, <1>8, IdleGood

\* Flush, End and EndSession.
LEMMA PhaseGood ==
  ASSUME TypeInv, BuildInv, op = "BUILD", ~RetriesFlush, TypeInv',
         Flush \/ (\E flush \in BOOLEAN : End(flush)) \/ EndSession
  PROVE  BuildInv'
<1>1. CASE Flush \/ \E flush \in BOOLEAN : End(flush)
  <2>1. /\ pc = "idle" /\ ~failed /\ open
        /\ UNCHANGED <<open, cache, main, failed, job, accepted>>
        /\ \/ pc' = "flush" /\ todo' = {t \in Terms : cache[t] # <<>>}
           \/ pc' = "end"
    BY <1>1 DEF Flush, End, BeginFlush, Idle, indexer, history
  <2>2. /\ job = NoJob /\ main.sched = <<>> /\ DOMAIN main.cache = {}
        /\ GoodStores(accepted, Pending, main) /\ CacheRises /\ PendingKnown
        /\ \A t \in Terms : Pending[t] = IF open THEN ToSet(cache[t]) ELSE {}
    BY <2>1, IdleBuild
  <2>3. \A t \in Terms : Pending'[t] = Pending[t]
    <3>1. ToSet(<<>>) = {}
      BY DEF ToSet
    <3>2. QED
      BY <2>1, <2>2, <3>1 DEF Pending, Waiting
  <2>4. Pending' = Pending
    <3>1. Pending = [t \in Terms |-> Pending[t]] /\ Pending' = [t \in Terms |-> Pending'[t]]
      BY DEF Pending
    <3> HIDE DEF Pending
    <3>2. QED
      BY <2>3, <3>1
  <2>5. CacheRises' /\ PendingKnown' /\ GoodStores(accepted', Pending', main')
    BY <2>1, <2>2, <2>4 DEF CacheRises, PendingKnown
  <2>6. QED
    BY <2>1, <2>2, <2>5, IdleGood
<1>2. CASE EndSession
  <2>1. pc = "end" /\ ~open' /\ pc' = "idle" /\ UNCHANGED <<cache, main, accepted, failed, job>>
    BY <1>2 DEF EndSession, Acknowledge
  <2>2. Going /\ ~failed
    BY <2>1 DEF BuildInv
  <2>3. main.sched = <<>> /\ DOMAIN main.cache = {} /\ job = NoJob
    BY <2>1, <2>2 DEF Going, Sending, TypeInv, JobInFlush
  <2>4. Moves /\ PendingKnown'
    BY <2>1, NoneWaits
  <2>5. GoodStores(accepted', Pending', main')
    BY <2>1, <2>4, StoresGo DEF TypeInv, BuildInv
  <2>6. CacheRises'
    BY <2>1 DEF CacheRises
  <2>7. QED
    BY <2>1, <2>2, <2>3, <2>4, <2>5, <2>6, IdleGood
<1>3. QED
  BY <1>1, <1>2

\* A recording is indexed.
LEMMA IndexGood ==
  ASSUME TypeInv, BuildInv, op = "BUILD", ~RetriesFlush,
         NEW f \in 1..MaxFID, NEW ts \in Recordings, Index(f, ts), TypeInv'
  PROVE  BuildInv'
<1>1. /\ pc = "idle" /\ ~failed /\ open /\ f \in ClientFIDs
      /\ cache' = [t \in Terms |-> IF t \in ts THEN Append(cache[t], f) ELSE cache[t]]
      /\ accepted' = accepted \cup (ts \X {f})
      /\ UNCHANGED <<open, main>>
  BY DEF Index, Idle
<1>2. \/ Fail
      \/ /\ UNCHANGED <<job, failed>>
         /\ \/ pc' = "flush" /\ todo' = {t \in Terms : cache'[t] # <<>>}
            \/ pc' = pc /\ todo' = todo
  <2>1. PICK fault \in Faults \ {"get"} :
       IF fault = "store" THEN Fail /\ UNCHANGED run
       ELSE IF CacheSize(cache') >= CacheLimit THEN BeginFlush(cache', "idle")
       ELSE UNCHANGED <<run, call>>
    BY Zenon DEF Index
  <2>2. QED
    BY <2>1 DEF BeginFlush, call
<1>3. /\ job = NoJob /\ main.sched = <<>> /\ DOMAIN main.cache = {} /\ IsIndex(main)
      /\ GoodStores(accepted, Pending, main) /\ CacheRises /\ PendingKnown
      /\ \A t \in Terms : Pending[t] = ToSet(cache[t])
  BY <1>1, IdleBuild
<1>4. \A g, t : <<t, g>> \in accepted => g < f
  <2>1. \A p \in accepted : p[2] < f
    BY <1>1 DEF ClientFIDs
  <2>2. QED
    BY <2>1
<1>5. CASE Fail
  <2>1. failed' /\ pc' = "idle"
    BY <1>5 DEF Fail
  <2>2. Moves
    BY <1>1, <2>1, NonePending, PendingShrinks
  <2>3. GoodStores(accepted', Pending', main')
    BY <1>1, <1>3, <2>2, StoresGo
  <2>4. QED
    BY <1>1, <2>1, <2>3 DEF BuildInv
<1>6. CASE /\ UNCHANGED <<job, failed>>
           /\ \/ pc' = "flush" /\ todo' = {t \in Terms : cache'[t] # <<>>}
              \/ pc' = pc /\ todo' = todo
  <2> DEFINE X == 1..MaxFID
  <2>1. X \in SUBSET Int /\ f \in X /\ \A t \in Terms : cache[t] \in Seq(X)
    BY CBSessionAssumption DEF TypeInv, ScalarTypes
  <2> HIDE DEF X
  <2>2. ASSUME NEW t \in Terms
        PROVE  /\ ToSet(cache'[t]) = IF t \in ts THEN ToSet(cache[t]) \cup {f} ELSE ToSet(cache[t])
               /\ Rising(cache'[t])
    <3>1. Rising(cache[t]) /\ \A g \in ToSet(cache[t]) : g < f
      BY <1>1, <1>3, <1>4 DEF CacheRises, PendingKnown
    <3>2. cache'[t] = IF t \in ts THEN Append(cache[t], f) ELSE cache[t]
      BY <1>1
    <3> DEFINE s == cache[t]
    <3>3. s \in Seq(X) /\ Rising(s) /\ \A g \in ToSet(s) : g < f
      BY <2>1, <3>1
    <3> HIDE DEF s
    <3>4. ToSet(Append(s, f)) = ToSet(s) \cup {f} /\ Rising(Append(s, f))
      BY <2>1, <3>3, RisingAppend
    <3>5. QED
      BY <3>2, <3>3, <3>4 DEF s
  <2>3. \A t \in Terms : Pending'[t] = ToSet(cache'[t])
    <3>1. ToSet(<<>>) = {}
      BY DEF ToSet
    <3>2. QED
      BY <1>1, <1>3, <1>6, <3>1 DEF Pending, Waiting
  <2>4. Moves
    <3>1. ASSUME NEW t \in Terms, NEW g, <<t, g>> \in accepted, \A h \in Pending[t] : g < h,
                 NEW h \in Pending'[t]
          PROVE  g < h
      <4>1. h \in ToSet(cache[t]) \/ h = f
        BY <2>2, <2>3, <3>1
      <4>2. ToSet(cache[t]) = Pending[t] /\ g < f
        BY <1>3, <1>4, <3>1
      <4>3. QED
        BY <3>1, <4>1, <4>2
    <3>2. accepted \subseteq accepted'
      BY <1>1
    <3>3. QED
      BY <3>1, <3>2 DEF Moves, Onward
  <2>5. GoodStores(accepted', Pending', main')
    BY <1>1, <1>3, <2>4, StoresGo
  <2>6. PendingKnown'
    <3>1. ASSUME NEW t \in Terms, NEW g \in ToSet(cache'[t]) PROVE <<t, g>> \in accepted'
      <4>1. CASE g \in ToSet(cache[t])
        BY <1>1, <1>3, <4>1 DEF PendingKnown
      <4>2. CASE t \in ts /\ g = f
        BY <1>1, <4>2
      <4>3. QED
        BY <2>2, <3>1, <4>1, <4>2
    <3>2. QED
      BY <2>3, <3>1 DEF PendingKnown
  <2>7. CacheRises'
    BY <2>2 DEF CacheRises
  <2>8. QED
    BY <1>1, <1>3, <1>6, <2>5, <2>6, <2>7, IdleGood
<1>7. QED
  BY <1>2, <1>5, <1>6

\* A flush ends, or its last batch fails.
LEMMA EndFlushGood ==
  ASSUME TypeInv, BuildInv, op = "BUILD", EndFlush, TypeInv'
  PROVE  BuildInv'
<1>1. /\ pc = "flush" /\ job = NoJob /\ todo = {} /\ cache' = EmptyCache /\ Target = main
      /\ UNCHANGED <<open, todo, job, accepted>>
  BY BuildTarget DEF EndFlush, history
<1>2. Going /\ ~failed /\ open /\ ret \in {"idle", "end"} /\ IsIndex(main)
      /\ GoodStores(accepted, Pending, main)
  BY <1>1 DEF BuildInv, Going, Sending, TypeInv, ScalarTypes
<1>3. \A t \in Terms : cache'[t] = <<>>
  BY <1>1 DEF EmptyCache
<1>4. pc' \in {"idle", "end"} => \A t \in Terms : Pending'[t] = {}
  <2>1. ToSet(<<>>) = {}
    BY DEF ToSet
  <2>2. QED
    BY <1>3, <2>1 DEF Pending, Waiting
<1>5. CacheRises' /\ (pc' \in {"idle", "end"} => PendingKnown' /\ Moves)
  <2>1. Rising(<<>>)
    BY DEF Rising
  <2>2. QED
    BY <1>1, <1>3, <1>4, <2>1, PendingShrinks DEF CacheRises, PendingKnown
<1>6. CASE DOMAIN main.cache = {}
  <2>1. SetTarget({main}) /\ pc' = ret /\ failed' = failed
    BY <1>1, <1>6 DEF EndFlush
  <2>2. main' = main
    BY <2>1, BuildTarget
  <2>3. main.sched = <<>>
    BY <1>1, <1>2, <1>6 DEF Going, Sending
  <2>4. GoodStores(accepted', Pending', main')
    BY <1>2, <1>5, <2>1, <2>2, StoresGo
  <2>5. QED
    BY <1>1, <1>2, <1>5, <1>6, <2>1, <2>2, <2>3, <2>4, IdleGood
<1>7. CASE DOMAIN main.cache # {}
  <2>0. PICK w : w = WriteCached(main)
    OBVIOUS
  <2>1. PICK fault \in Faults \ {"get"} : \E ix \in Waits(w, fault) :
          IF ix.status = "failed" THEN SetTarget({ix}) /\ pc' = "idle" /\ failed' = TRUE
          ELSE SetTarget({FlushedCache(ix)}) /\ pc' = ret /\ UNCHANGED failed
    <3>1. PICK fault \in Faults \ {"get"} : \E ix \in Waits(WriteCached(Target), fault) :
            /\ Count(fault)
            /\ IF ix.status = "failed"
               THEN SetTarget({ix}) /\ pc' = "idle" /\ ret' = "idle" /\ failed' = TRUE
               ELSE SetTarget({FlushedCache(ix)}) /\ pc' = ret /\ ret' = "idle" /\ UNCHANGED failed
      BY <1>1, <1>7, Zenon DEF EndFlush
    <3>2. PICK ix \in Waits(WriteCached(Target), fault) :
            /\ Count(fault)
            /\ IF ix.status = "failed"
               THEN SetTarget({ix}) /\ pc' = "idle" /\ ret' = "idle" /\ failed' = TRUE
               ELSE SetTarget({FlushedCache(ix)}) /\ pc' = ret /\ ret' = "idle" /\ UNCHANGED failed
      BY <3>1, Zenon
    <3>3. ix \in Waits(w, fault)
      BY <1>1, <2>0, <3>2
    <3>4. QED
      BY <3>2, <3>3, Zenon
  <2>2. PICK ix \in Waits(w, fault) :
          IF ix.status = "failed" THEN SetTarget({ix}) /\ pc' = "idle" /\ failed' = TRUE
          ELSE SetTarget({FlushedCache(ix)}) /\ pc' = ret /\ UNCHANGED failed
    BY <2>1, Zenon
  <2>3. IsIndex(ix) /\ ix.sched = <<>> /\ GoodStores(accepted, Pending, ix)
    <3>1. PICK S, W : S = accepted /\ W = Pending
      OBVIOUS
    <3>2. IsIndex(main) /\ GoodStores(S, W, main) /\ GoodCache(S, W, main)
      BY <1>2, <3>1 DEF Going
    <3>3. Scheduled(S, W, w, main)
      BY <2>0, <3>2, WriteCachedGood
    <3>4. IsIndex(w) /\ GoodStores(S, W, w)
      BY <3>3 DEF Scheduled
    <3>5. Waited(S, W, ix, w)
      BY <3>4, WaitGood
    <3>6. QED
      BY <3>1, <3>5 DEF Waited
  <2>4. pc' \in {"idle", "end"} /\ Moves /\ PendingKnown'
    BY <1>2, <1>5, <2>2
  <2>5. CASE ix.status = "failed"
    <3>1. main' = ix /\ pc' = "idle" /\ failed'
      BY <2>2, <2>5, BuildTarget
    <3>2. GoodStores(accepted', Pending', main')
      BY <2>3, <2>4, <3>1, StoresGo
    <3>3. QED
      BY <1>1, <1>2, <3>1, <3>2 DEF BuildInv
  <2>6. CASE ix.status # "failed"
    <3>1. PICK n : n = FlushedCache(ix)
      OBVIOUS
    <3>2. main' = n /\ pc' = ret /\ failed' = failed
      BY <2>2, <2>6, <3>1, BuildTarget
    <3>3. n.server = ix.server /\ n.sched = <<>> /\ n.cache = NoRecords
      BY <2>3, <3>1 DEF FlushedCache, IsIndex
    <3>4. GoodStores(accepted', Pending', main') /\ DOMAIN main'.cache = {}
      <4>1. GoodStores(accepted', Pending', main')
        BY <2>3, <2>4, <3>2, <3>3, StoresGo
      <4>2. QED
        BY <3>2, <3>3, <4>1 DEF NoRecords
    <3>5. QED
      BY <1>1, <1>2, <1>5, <2>4, <3>2, <3>3, <3>4, IdleGood
  <2>7. QED
    BY <2>5, <2>6
<1>8. QED
  BY <1>6, <1>7

\* An empty store is good.
LEMMA InitBuild == Init => BuildInv
<1> SUFFICES ASSUME Init PROVE BuildInv
  OBVIOUS
<1>1. /\ open = FALSE /\ pc = "idle" /\ job = NoJob /\ failed = FALSE /\ main = NewIndex
  BY DEF Init
<1>2. main.server = NoRecords /\ main.sched = <<>> /\ main.cache = NoRecords
  BY <1>1 DEF NewIndex
<1>3. DOMAIN NoRecords = {} /\ DOMAIN <<>> = {} /\ IsFiniteSet({})
  BY FS_EmptySet DEF NoRecords
<1>4. GoodStores(accepted, Pending, main) /\ GoodCache(accepted, Pending, main)
  BY <1>2, <1>3 DEF GoodStores, GoodRecords, GoodCache
<1>5. Sending /\ JobGood /\ CacheRises
  BY <1>1, <1>2, <1>3 DEF Sending, JobGood, CacheRises
<1>6. PendingKnown
  BY <1>1 DEF PendingKnown, Pending, Waiting
<1>7. QED
  BY <1>1, <1>4, <1>5, <1>6 DEF BuildInv, Going

\* Every step of a build whose client gives a failed session up keeps the
\* records good.
LEMMA NextBuild ==
  ASSUME ~RetriesFlush, TypeInv, op = "BUILD" => BuildInv, [Next]_vars
  PROVE  (op = "BUILD" => BuildInv)'
<1>1. op' = op
  <2>1. CASE OpenStore \/ ReadList \/ CloseStore \/ ClearStore \/ Crash \/ Abandon \/ Start \/ Flush
             \/ \E flush \in BOOLEAN : End(flush)
    BY <2>1 DEF OpenStore, ReadList, CloseStore, ClearStore, Crash, Abandon, Gone, Start, Flush, End
  <2>2. CASE (\E f \in 1..MaxFID, ts \in Recordings : Index(f, ts)) \/ \E t \in Terms : BeginList(t)
    BY <2>2 DEF Index, BeginList
  <2>3. CASE RejectChunk \/ MoveCache \/ ExecuteBatch \/ EmitChunk \/ EndFlush
    BY <2>3 DEF RejectChunk, MoveCache, ExecuteBatch, EmitChunk, EndFlush, store
  <2>4. CASE EndSession \/ MergeRecord \/ EndMerge \/ UNCHANGED vars
    BY <2>4 DEF EndSession, MergeRecord, EndMerge, vars, store
  <2>5. QED
    BY <2>1, <2>2, <2>3, <2>4, Zenon DEF Next
<1> SUFFICES ASSUME op = "BUILD", BuildInv PROVE BuildInv'
  BY <1>1
<1>2. TypeInv'
  BY NextType
<1>3. CASE OpenStore \/ ReadList \/ CloseStore \/ ClearStore \/ Start \/ UNCHANGED vars
  BY <1>2, <1>3, OuterGood
<1>4. CASE Crash \/ Abandon
  BY <1>2, <1>4, GoneGood DEF Crash, Abandon
<1>5. CASE \E f \in 1..MaxFID, ts \in Recordings : Index(f, ts)
  BY <1>2, <1>5, IndexGood
<1>6. CASE Flush \/ (\E flush \in BOOLEAN : End(flush)) \/ EndSession
  BY <1>2, <1>6, PhaseGood
<1>7. CASE \E t \in Terms : BeginList(t)
  BY <1>2, <1>7, BeginGood
<1>8. CASE RejectChunk
  BY <1>8, BuildAllowed DEF RejectChunk
<1>9. CASE MoveCache
  BY <1>2, <1>9, MoveGood
<1>10. CASE ExecuteBatch
  BY <1>2, <1>10, BatchGood
<1>11. CASE EmitChunk
  BY <1>2, <1>11, EmitGood
<1>12. CASE EndFlush
  BY <1>2, <1>12, EndFlushGood
<1>13. CASE MergeRecord \/ EndMerge
  BY <1>13 DEF MergeRecord, EndMerge, BuildInv
<1>14. QED
  BY <1>3, <1>4, <1>5, <1>6, <1>7, <1>8, <1>9, <1>10, <1>11, <1>12, <1>13, Zenon DEF Next

-----------------------------------------------------------------------------
(* What follows for the lists.                                             *)

\* A reader of good records finds what was indexed.
LEMMA GoodRead ==
  ASSUME NEW r, AreRecords(r, BlockKeys), IsFiniteSet(DOMAIN r),
         NEW S, NEW W, GoodRecords(S, W, r), NEW t \in Terms
  PROVE  \A f \in ToSet(ListOf(BlocksOf(r, t))) : <<t, f>> \in S
<1> DEFINE blocks == BlocksOf(r, t)
<1>1. \A k \in DOMAIN r : k = <<k[1], k[2]>>
  BY DEF AreRecords, BlockKeys
<1>2. blocks = [id \in {k[2] : k \in {q \in DOMAIN r : q[1] = t}} |-> r[<<t, id>>]]
  BY DEF BlocksOf
<1> HIDE DEF blocks
<1>3. BlocksIn(r, t, blocks) /\ IsFiniteSet(DOMAIN blocks)
  BY <1>1, <1>2, BlocksGiven
<1>4. ASSUME NEW b \in DOMAIN blocks
      PROVE  blocks[b].body \in Seq(Nat) /\ \A f \in ToSet(Decode(blocks[b].body)) : <<t, f>> \in S
  <2> DEFINE k == <<t, b>>
  <2>1. k \in DOMAIN r /\ blocks[b] = r[k]
    BY <1>3 DEF BlocksIn, Has
  <2>2. k[1] = t
    OBVIOUS
  <2> HIDE DEF k
  <2>3. r[k].body \in Seq(Nat)
    BY <2>1 DEF AreRecords, BlockRecords
  <2>4. GoodRecord(S, W, k, r[k])
    BY <2>1 DEF GoodRecords
  <2>5. QED
    BY <2>1, <2>2, <2>3, <2>4 DEF GoodRecord, FIDsOf
<1>5. \A f \in ToSet(ListOf(blocks)) : \E b \in DOMAIN blocks : f \in ToSet(Decode(blocks[b].body))
  BY <1>3, <1>4, ListElements
<1>6. QED
  BY <1>4, <1>5 DEF blocks

\* No list of a build holds what was not indexed.
LEMMA BuildPhantoms ==
  ASSUME TypeInv, BuildInv
  PROVE  PostingSet(main) \subseteq accepted
<1> SUFFICES ASSUME NEW t \in Terms, NEW f \in ToSet(Postings(main, t)) PROVE <<t, f>> \in accepted
  BY DEF PostingSet
<1>1. IsIndex(main) /\ AreRecords(View(main), BlockKeys)
  BY WholeTypes DEF TypeInv
<1>2. PICK S, W : S = accepted /\ W = Pending
  OBVIOUS
<1>3. GoodStores(S, W, main)
  BY <1>2 DEF BuildInv
<1> DEFINE r == View(main)
<1>4. AreRecords(r, BlockKeys) /\ IsFiniteSet(DOMAIN r) /\ GoodRecords(S, W, r)
  BY <1>1, <1>3, StoredGood DEF View
<1>5. Postings(main, t) = ListOf(BlocksOf(r, t))
  BY DEF Postings
<1> HIDE DEF r
<1>6. \A g \in ToSet(ListOf(BlocksOf(r, t))) : <<t, g>> \in S
  BY <1>4, GoodRead
<1>7. QED
  BY <1>2, <1>5, <1>6

\* Nor does one before the first trouble.
LEMMA CleanPhantoms ==
  ASSUME TypeInv, Clean
  PROVE  PostingSet(main) \subseteq accepted
<1> SUFFICES ASSUME NEW t \in Terms, NEW f \in ToSet(Postings(main, t)) PROVE <<t, f>> \in accepted
  BY DEF PostingSet
<1>1. ReadIn(View(main), t, f)
  BY ReaderFinds
<1>2. PICK b \in Nat \ {0} : Holds(View(main), t, b, f)
  BY <1>1 DEF ReadIn
<1>3. Has(View(main), t, b) /\ f \in FIDsOf(View(main)[<<t, b>>])
  <2>1. b \in 1..b
    OBVIOUS
  <2>2. QED
    BY <1>2, <2>1 DEF Holds
<1>4. KnownIn(View(main), accepted)
  BY DEF Clean, ListsTrue
<1>5. QED
  BY <1>3, <1>4 DEF KnownIn

\* A build whose client gives a session up that failed, whatever the server
\* fails and whenever the process dies: no list holds what was not indexed,
\* and no chunk of recordings numbered upwards is refused, for the stores a
\* session lost leave no header behind that is above what it indexed.
THEOREM BuildSurvives ==
  ASSUME ~RetriesFlush
  PROVE  Spec => [](op = "BUILD" => /\ PostingSet(main) \subseteq accepted
                                    /\ ~(pc = "flush" /\ job # NoJob /\ ~ValidChunk))
<1> DEFINE I == TypeInv /\ (op = "BUILD" => BuildInv)
<1>1. Init => I
  BY InitType, InitBuild
<1>2. I /\ [Next]_vars => I'
  BY NextType, NextBuild
<1>3. I => (op = "BUILD" => /\ PostingSet(main) \subseteq accepted
                            /\ ~(pc = "flush" /\ job # NoJob /\ ~ValidChunk))
  BY BuildPhantoms, BuildAllowed
<1>4. QED
  BY <1>1, <1>2, <1>3, PTL DEF Spec

\* Before the first trouble neither happens in either mode.
LEMMA CleanAllowed ==
  ASSUME TypeInv, CleanInv, Untroubled
  PROVE  /\ PostingSet(main) \subseteq accepted
         /\ ~(pc = "flush" /\ job # NoJob /\ ~ValidChunk)
BY CleanPhantoms, JobAllowed DEF Untroubled, CleanInv

\* A list holds nothing that was not indexed: in a build whatever fails, in a
\* build-and-merge until the first trouble.
THEOREM BucketNoPhantoms ==
  ASSUME ReadsLast, ~RetriesFlush
  PROVE  Spec => []NoPhantomPosting
<1>1. SessionInv => (Untroubled => PostingSet(main) \subseteq accepted)
  BY CleanAllowed DEF SessionInv
<1>2. (Untroubled => PostingSet(main) \subseteq accepted)
        /\ (op = "BUILD" => /\ PostingSet(main) \subseteq accepted
                            /\ ~(pc = "flush" /\ job # NoJob /\ ~ValidChunk))
        => NoPhantomPosting
  BY DEF NoPhantomPosting
<1>3. QED
  BY <1>1, <1>2, SessionKept, BuildSurvives, PTL

\* A client that numbers its recordings upwards is never refused a chunk, in
\* a build whatever fails, in a build-and-merge until the first trouble.
THEOREM BucketAllowed ==
  ASSUME ReadsLast, ~RetriesFlush
  PROVE  Spec => []NeverRefused
<1>1. SessionInv => (Untroubled => ~(pc = "flush" /\ job # NoJob /\ ~ValidChunk))
  BY CleanAllowed DEF SessionInv
<1>2. (Untroubled => ~(pc = "flush" /\ job # NoJob /\ ~ValidChunk))
        /\ (op = "BUILD" => /\ PostingSet(main) \subseteq accepted
                            /\ ~(pc = "flush" /\ job # NoJob /\ ~ValidChunk))
        => NeverRefused
  BY DEF NeverRefused
<1>3. QED
  BY <1>1, <1>2, SessionKept, BuildSurvives, PTL
=============================================================================
