----------------------- MODULE IndexingSessionProofs ------------------------
(***************************************************************************)
(* Proofs about IndexingSession, for any number of lists, FIDs, sessions   *)
(* and crashes, and any limits of chunks, blocks, cache and merge buffer.  *)
(***************************************************************************)
EXTENDS IndexingSession, PostingsListProofs

-----------------------------------------------------------------------------
(* The records of an index.                                                *)

\* The pending writes on top of the stored records are records.
LEMMA OverlayType ==
  ASSUME NEW disk, AreRecords(disk, Keys), NEW pool \in Seq(Keys \X BlockRecords)
  PROVE  AreRecords(Overlay(disk, pool), Keys)
<1>1. /\ Len(pool) \in Nat /\ DOMAIN pool = 1..Len(pool)
      /\ \A i \in DOMAIN pool : pool[i][1] \in Keys /\ pool[i][2] \in BlockRecords
  <2>1. Len(pool) \in Nat /\ DOMAIN pool = 1..Len(pool)
    BY LenProperties
  <2>2. \A i \in DOMAIN pool : pool[i] \in Keys \X BlockRecords
    BY <2>1, ElementOfSeq
  <2>3. QED
    BY <2>1, <2>2
<1> DEFINE D == DOMAIN disk \cup {pool[i][1] : i \in DOMAIN pool}
<1>2. D \subseteq Keys
  BY <1>1 DEF AreRecords
<1>3. ASSUME NEW k \in D
      PROVE  (IF PendingOn(pool, k) = {} THEN disk[k] ELSE pool[Max(PendingOn(pool, k))][2])
               \in BlockRecords
  <2>1. CASE PendingOn(pool, k) = {}
    <3>1. k \in DOMAIN disk
      BY <2>1, <1>3 DEF PendingOn
    <3>2. QED
      BY <2>1, <3>1 DEF AreRecords
  <2>2. CASE PendingOn(pool, k) # {}
    <3>1. PendingOn(pool, k) \in SUBSET (1..Len(pool))
      BY <1>1 DEF PendingOn
    <3>2. Max(PendingOn(pool, k)) \in DOMAIN pool
      BY <1>1, <2>2, <3>1, MaxInSet
    <3>3. QED
      BY <1>1, <2>2, <3>2
  <2>3. QED
    BY <2>1, <2>2
<1>4. QED
  BY <1>2, <1>3, Zenon DEF Overlay, AreRecords

\* What a record of an index is.
LEMMA ReadType ==
  ASSUME NEW ix, IsIndex(ix), NEW t, NEW id
  PROVE  /\ ReadBlock(ix, t, id) \in BlockRecords
         /\ GetPListHeader(ix, t) \in Nat
         /\ GetPListBlockHeader(ix, t, id) \in [ID : Nat, BodySize : Nat, FIDmax : Nat]
<1>1. NoBlock \in BlockRecords
  BY DEF NoBlock, NullHdr, BlockRecords
<1>2. AreRecords(View(ix), Keys)
  BY OverlayType DEF IsIndex, View
<1>3. \A i : ReadBlock(ix, t, i) \in BlockRecords
  BY <1>1, <1>2 DEF ReadBlock, AreRecords
<1>4. QED
  BY <1>3 DEF GetPListHeader, GetPListBlockHeader, BlockRecords

-----------------------------------------------------------------------------
(* The operations of an index keep its type.                               *)

\* The index of a fresh or removed database.
LEMMA EmptyType == IsIndex(EmptyIndex)
<1>1. AreRecords(NoRecords, Keys) /\ AreRecords(NoRecords, Nat) /\ DOMAIN NoRecords = {}
  BY DEF NoRecords, AreRecords
<1>2. <<>> \in Seq(Keys \X BlockRecords) /\ IsFiniteSet({})
  BY FS_EmptySet
<1>3. QED
  BY <1>1, <1>2, Zenon DEF EmptyIndex, IsIndex

\* Writing the pool through.
LEMMA SyncType ==
  ASSUME NEW ix, IsIndex(ix)
  PROVE  IsIndex(Sync(ix))
<1>1. AreRecords(View(ix), Keys)
  BY OverlayType DEF IsIndex, View
<1>2. <<>> \in Seq(Keys \X BlockRecords)
  OBVIOUS
<1>3. QED
  BY <1>1, <1>2 DEF IsIndex, Sync

\* A crash.
LEMMA SurvivorType ==
  ASSUME NEW ix, IsIndex(ix), NEW n \in 0..Len(ix.pool)
  PROVE  IsIndex(Survivor(ix, n))
<1>1. SubSeq(ix.pool, 1, n) \in Seq(Keys \X BlockRecords)
  <2>1. ix.pool \in Seq(Keys \X BlockRecords)
    BY DEF IsIndex
  <2>2. \A i \in 1..n : ix.pool[i] \in Keys \X BlockRecords
    BY <2>1, ElementOfSeq, LenProperties
  <2>3. QED
    BY <2>2, SubSeqProperties
<1>2. AreRecords(Overlay(ix.disk, SubSeq(ix.pool, 1, n)), Keys)
  BY <1>1, OverlayType DEF IsIndex
<1>3. QED
  BY <1>2, EmptyType DEF IsIndex, Survivor, EmptyIndex

\* One asynchronous write.
LEMMA WriteType ==
  ASSUME NEW ix, IsIndex(ix), NEW t \in Terms, NEW id \in Nat, NEW b \in BlockRecords
  PROVE  IsIndex(WriteBlock(ix, t, id, b))
<1>1. <<<<t, id>>, b>> \in Keys \X BlockRecords
  BY DEF Keys
<1>2. Append(ix.pool, <<<<t, id>>, b>>) \in Seq(Keys \X BlockRecords)
  BY <1>1 DEF IsIndex
<1>3. QED
  BY <1>2 DEF IsIndex, WriteBlock

\* The block cache is dropped.
LEMMA ClearType ==
  ASSUME NEW ix, IsIndex(ix)
  PROVE  IsIndex(ClearCache(ix))
BY EmptyType DEF IsIndex, EmptyIndex, ClearCache

\* The block cache is written out, in any order.
LEMMA WriteCachedType ==
  ASSUME NEW ix, IsIndex(ix), NEW order \in WriteOrders(ix)
  PROVE  IsIndex(WriteCached(ix, order))
<1> DEFINE n == Cardinality(DOMAIN ix.cache)
           writes == [i \in 1..Len(order) |-> <<<<ix.clist, order[i]>>, ix.cache[order[i]]>>]
<1>1. n \in Nat /\ order \in [1..n -> DOMAIN ix.cache]
  BY FS_CardinalityType DEF IsIndex, WriteOrders, SetToSeqs
<1>2. Len(order) = n
  BY <1>1
<1>3. ASSUME NEW i \in 1..n
      PROVE  <<<<ix.clist, order[i]>>, ix.cache[order[i]]>> \in Keys \X BlockRecords
  <2>1. order[i] \in DOMAIN ix.cache
    BY <1>1
  <2>2. ix.clist \in Terms /\ order[i] \in Nat /\ ix.cache[order[i]] \in BlockRecords
    BY <2>1 DEF IsIndex, AreRecords
  <2>3. QED
    BY <2>2 DEF Keys
<1>4. writes \in Seq(Keys \X BlockRecords)
  <2>1. writes \in [1..n -> Keys \X BlockRecords]
    BY <1>2, <1>3
  <2>2. QED
    BY <1>1, <2>1
<1>5. ix.pool \o writes \in Seq(Keys \X BlockRecords)
  <2> HIDE DEF writes
  <2>1. QED
    BY <1>4, ConcatProperties DEF IsIndex
<1>6. QED
  BY <1>5 DEF IsIndex, WriteCached

\* The block cache is written out and dropped.
LEMMA FlushType ==
  ASSUME NEW ix, IsIndex(ix), NEW order \in WriteOrders(ix)
  PROVE  IsIndex(FlushBlockCache(ix, order))
BY WriteCachedType, ClearType DEF FlushBlockCache

\* The block cache moves to another list.
LEMMA SwitchType ==
  ASSUME NEW ix, IsIndex(ix), NEW order \in WriteOrders(ix), NEW t \in Terms
  PROVE  IsIndex(SwitchList(ix, t, order))
<1>1. IsIndex(WriteCached(ix, order))
  BY WriteCachedType
<1> HIDE DEF WriteCached
<1>2. QED
  BY <1>1, EmptyType, TermAssumption DEF IsIndex, EmptyIndex, SwitchList

\* A block put in the cache of a list.
LEMMA CacheType ==
  ASSUME NEW ix, IsIndex(ix), ix.clist # NoTerm, NEW id \in Nat, NEW b \in BlockRecords
  PROVE  /\ IsIndex([ix EXCEPT !.cache = Put(@, id, b)])
         /\ [ix EXCEPT !.cache = Put(@, id, b)].clist = ix.clist
<1> DEFINE c == Put(ix.cache, id, b)
<1>1. DOMAIN c = DOMAIN ix.cache \cup {id}
  BY DEF Put
<1>2. \A k \in DOMAIN c : c[k] = IF k = id THEN b ELSE ix.cache[k]
  BY DEF Put
<1>3. AreRecords(c, Nat)
  <2>1. DOMAIN c \subseteq Nat
    BY <1>1 DEF IsIndex, AreRecords
  <2>2. \A k \in DOMAIN c : c[k] \in BlockRecords
    BY <1>1, <1>2 DEF IsIndex, AreRecords
  <2>3. c = [k \in DOMAIN c |-> c[k]]
    BY DEF Put
  <2> HIDE DEF c
  <2>4. QED
    BY <2>1, <2>2, <2>3 DEF AreRecords
<1>4. IsFiniteSet(DOMAIN c)
  <2>1. IsFiniteSet(DOMAIN ix.cache)
    BY DEF IsIndex
  <2> HIDE DEF c
  <2>2. QED
    BY <1>1, <2>1, FS_AddElement, Zenon
<1> HIDE DEF c
<1>5. QED
  <2>1. [ix EXCEPT !.cache = c] =
          [disk |-> ix.disk, pool |-> ix.pool, clist |-> ix.clist, cache |-> c]
    BY DEF IsIndex
  <2>2. IsIndex([ix EXCEPT !.cache = c])
    BY <1>3, <1>4, <2>1 DEF IsIndex
  <2>3. QED
    BY <2>1, <2>2 DEF c

\* The block a chunk is appended to.
LEMMA FetchType ==
  ASSUME NEW ix, IsIndex(ix), NEW t, NEW id, NEW new \in BOOLEAN
  PROVE  Fetch(ix, t, id, new) \in BlockRecords
<1>1. NoBlock \in BlockRecords
  BY DEF NoBlock, NullHdr, BlockRecords
<1>2. ReadBlock(ix, t, id) \in BlockRecords
  BY ReadType
<1>3. id \in DOMAIN ix.cache => ix.cache[id] \in BlockRecords
  BY DEF IsIndex, AreRecords
<1>4. QED
  BY <1>1, <1>2, <1>3 DEF Fetch, Cached

\* A chunk appended to a block of the cached list.
LEMMA AppendType ==
  ASSUME NEW ix, IsIndex(ix), ix.clist # NoTerm, NEW t, NEW lh \in Nat,
         NEW hdr \in [ID : Nat, BodySize : Nat, FIDmax : Nat],
         NEW chunk \in Seq(Nat), NEW new \in BOOLEAN
  PROVE  IsIndex(AppendChunk(ix, t, lh, hdr, chunk, new))
<1> DEFINE old   == Fetch(ix, t, hdr.ID, new)
           block == [lh |-> IF hdr.ID = 1 THEN lh ELSE 0, hdr |-> hdr, body |-> old.body \o chunk]
           i1    == [ix EXCEPT !.cache = Put(@, hdr.ID, block)]
           list  == [Fetch(i1, t, 1, FALSE) EXCEPT !.lh = lh]
           i2    == IF new /\ hdr.ID # 1
                    THEN [i1 EXCEPT !.cache = UpdateListHeader(i1, t, lh)] ELSE i1
<1>1. block \in BlockRecords
  <2>1. old \in BlockRecords
    BY FetchType
  <2> HIDE DEF old
  <2>2. old.body \o chunk \in Seq(Nat)
    BY <2>1, ConcatProperties DEF BlockRecords
  <2>3. QED
    BY <2>2 DEF BlockRecords
<1>2. IsIndex(i1) /\ i1.clist # NoTerm
  <2> HIDE DEF block
  <2>1. hdr.ID \in Nat
    OBVIOUS
  <2>2. QED
    BY <1>1, <2>1, CacheType
<1> HIDE DEF i1
<1>3. list \in BlockRecords
  <2>1. Fetch(i1, t, 1, FALSE) \in BlockRecords
    BY <1>2, FetchType
  <2>2. QED
    BY <2>1 DEF BlockRecords
<1>4. IsIndex(i2)
  <2>1. [i1 EXCEPT !.cache = UpdateListHeader(i1, t, lh)] = [i1 EXCEPT !.cache = Put(@, 1, list)]
    BY DEF UpdateListHeader
  <2> HIDE DEF list
  <2>2. IsIndex([i1 EXCEPT !.cache = Put(@, 1, list)])
    BY <1>2, <1>3, CacheType
  <2>3. QED
    BY <1>2, <2>1, <2>2
<1>5. IsIndex(Sync(i2))
  <2> HIDE DEF i2
  <2>1. QED
    BY <1>4, SyncType
<1>6. AppendChunk(ix, t, lh, hdr, chunk, new) \in {i2, Sync(i2)}
  BY DEF AppendChunk, i1
<1>7. QED
  BY <1>4, <1>5, <1>6

\* A live record and a delta record merge into a record.
LEMMA MergedType ==
  ASSUME NEW l \in BlockRecords, NEW d \in BlockRecords, NEW id, NEW stale \in BOOLEAN
  PROVE  MergedBlock(l, d, id, stale) \in BlockRecords
<1>1. l.body \o d.body \in Seq(Nat)
  BY ConcatProperties DEF BlockRecords
<1>2. QED
  BY <1>1 DEF MergedBlock, BlockRecords

-----------------------------------------------------------------------------
(* Types.  A chunk has a last posting because a list under way has some    *)
(* left and a list to do has some cached: TypeOK is not inductive alone.   *)

JobHasPostings == job # NoJob => job.term \in Terms /\ job.rest # <<>>

TodoIsCached == pc = "flush" => \A t \in todo : cache[t] # <<>>

TypeInv == TypeOK /\ JobHasPostings /\ TodoIsCached


\* The FIDs of a piece of a list.
LEMMA FIDsType ==
  ASSUME NEW s \in Seq(1..MaxFID)
  PROVE  Len(s) \in Nat /\ \A i \in 1..Len(s) : s[i] \in 1..MaxFID /\ s[i] \in Nat
<1> DEFINE S == 1..MaxFID
<1>1. \A x \in S : x \in Nat
  BY SessionAssumption
<1> HIDE DEF S
<1>2. s \in Seq(S)
  BY DEF S
<1>3. Len(s) \in Nat /\ \A i \in 1..Len(s) : s[i] \in S
  BY <1>2, ElementOfSeq
<1>4. QED
  BY <1>1, <1>3 DEF S

\* The codes of a chunk are numbers.
LEMMA EncodeType ==
  ASSUME NEW fids \in Seq(1..MaxFID), NEW base \in Nat
  PROVE  Encode(fids, base) \in Seq(Nat)
<1>1. Len(fids) \in Nat
  OBVIOUS
<1>2. ASSUME NEW i \in 1..Len(fids)
      PROVE  (fids[i] - (IF i = 1 THEN base ELSE fids[i - 1])) % FidMod \in Nat
  <2>1. fids[i] \in Int
    BY <1>1, <1>2, FIDsType
  <2>2. i # 1 => i - 1 \in 1..Len(fids)
    BY <1>1, <1>2
  <2>3. i # 1 => fids[i - 1] \in Int
    BY <2>2, FIDsType
  <2>4. fids[i] - (IF i = 1 THEN base ELSE fids[i - 1]) \in Int
    BY <2>1, <2>3
  <2>5. QED
    BY <2>4, FidModAssumption
<1>3. QED
  BY <1>1, <1>2 DEF Encode

\* A header updated for a chunk.
LEMMA HeaderType ==
  ASSUME NEW h \in [ID : Nat, BodySize : Nat, FIDmax : Nat], NEW size \in Nat, NEW fid \in Nat
  PROVE  [h EXCEPT !.BodySize = size, !.FIDmax = fid] \in [ID : Nat, BodySize : Nat, FIDmax : Nat]
OBVIOUS

\* A chunk is a nonempty piece of the list under way.
LEMMA ChunkType ==
  ASSUME TypeInv, job # NoJob
  PROVE  /\ Chunk \in Seq(1..MaxFID) /\ Len(Chunk) \in 1..Len(job.rest)
         /\ Last(Chunk) \in 1..MaxFID
         /\ Base \in Nat /\ ChunkHeader \in [ID : Nat, BodySize : Nat, FIDmax : Nat]
         /\ SubSeq(job.rest, Len(Chunk) + 1, Len(job.rest)) \in Seq(1..MaxFID)
<1> DEFINE r == job.rest
           n == IF Len(r) < ChunkLimit THEN Len(r) ELSE ChunkLimit
<1>1. r \in Seq(1..MaxFID) /\ r # <<>> /\ job.hdr \in [ID : Nat, BodySize : Nat, FIDmax : Nat]
  BY DEF TypeInv, TypeOK, JobHasPostings
<1> HIDE DEF r
<1>2. Len(r) \in Nat \ {0} /\ ChunkLimit \in Nat \ {0}
  BY <1>1, EmptySeq, SessionAssumption
<1>3. n \in 1..Len(r)
  BY <1>2
<1>4. Chunk = SubSeq(r, 1, n)
  BY DEF Chunk, r
<1> HIDE DEF n
<1>5. Chunk \in Seq(1..MaxFID) /\ Len(Chunk) = n
  <2>1. \A i \in 1..n : r[i] \in 1..MaxFID
    BY <1>1, <1>2, <1>3, FIDsType
  <2>2. QED
    BY <1>3, <1>4, <2>1, SubSeqProperties
<1>6. Last(Chunk) \in 1..MaxFID
  BY <1>3, <1>5, FIDsType DEF Last
<1>7. Base \in Nat /\ ChunkHeader \in [ID : Nat, BodySize : Nat, FIDmax : Nat]
  <2>1. Len(Chunk) \in Nat /\ Last(Chunk) \in Nat
    BY <1>2, <1>3, <1>5, <1>6, SessionAssumption
  <2>2. /\ job.hdr.FIDmax \in Nat /\ job.hdr.ID + 1 \in Nat
        /\ job.hdr.BodySize + Len(Chunk) \in Nat
    BY <1>1, <2>1
  <2>3. [job.hdr EXCEPT !.BodySize = job.hdr.BodySize + Len(Chunk), !.FIDmax = Last(Chunk)]
          \in [ID : Nat, BodySize : Nat, FIDmax : Nat]
    BY <1>1, <2>1, <2>2, HeaderType
  <2>4. QED
    BY <1>1, <2>1, <2>2, <2>3 DEF Base, ChunkHeader
<1>8. SubSeq(r, n + 1, Len(r)) \in Seq(1..MaxFID)
  <2>1. \A i \in n + 1..Len(r) : r[i] \in 1..MaxFID
    BY <1>1, <1>2, <1>3, FIDsType
  <2>2. QED
    BY <1>2, <1>3, <2>1, SubSeqProperties
<1>9. QED
  BY <1>3, <1>5, <1>6, <1>7, <1>8 DEF r

\* The index a flush writes to.
LEMMA TargetType ==
  ASSUME TypeOK
  PROVE  IsIndex(Target) /\ \A ix : IsIndex(ix) /\ SetTarget(ix) => IsIndex(main') /\ IsIndex(delta')
BY DEF TypeOK, Target, SetTarget

\* The initial state has the types.
LEMMA InitType == Init => TypeInv
<1> SUFFICES ASSUME Init PROVE TypeInv
  OBVIOUS
<1>1. IsIndex(main) /\ IsIndex(delta)
  BY EmptyType DEF Init
<1>2. cache \in [Terms -> Seq(1..MaxFID)]
  BY DEF Init, EmptyCache
<1>3. job \in [term : Terms \cup {NoTerm}, lh : Nat,
               hdr : [ID : Nat, BodySize : Nat, FIDmax : Nat], rest : Seq(1..MaxFID)]
  BY DEF Init, NoJob, NullHdr
<1>4. MergeBuffer \in Nat /\ 0 \in 0..MaxFID /\ 0 \in 0..2
  BY SessionAssumption
<1>5. QED
  BY <1>1, <1>2, <1>3, <1>4 DEF Init, TypeInv, TypeOK, JobHasPostings, TodoIsCached

\* A flush begins over the cache that is flushed.
LEMMA BeginFlushType ==
  ASSUME TypeInv, NEW after \in {"idle", "end"},
         BeginFlush(cache', after), cache' \in [Terms -> Seq(1..MaxFID)]
  PROVE  /\ run' \in 0..2 /\ IsIndex(main') /\ IsIndex(delta')
         /\ pc' = "flush" /\ ret' \in {"idle", "end"} /\ todo' \subseteq Terms
         /\ job' = job /\ mtodo' = mtodo /\ mbuf' = mbuf /\ TodoIsCached'
<1>1. IsIndex(ClearCache(main)) /\ IsIndex(ClearCache(delta))
  BY ClearType DEF TypeInv, TypeOK
<1>2. QED
  BY <1>1 DEF BeginFlush, TodoIsCached

\* Every step keeps the types.
LEMMA NextType == TypeInv /\ [Next]_vars => TypeInv'
<1> SUFFICES ASSUME TypeInv, [Next]_vars PROVE TypeInv'
  OBVIOUS
<1> USE DEF TypeInv, JobHasPostings, TodoIsCached
<1>1. ASSUME NEW mode \in Ops, OpenStore(mode) PROVE TypeInv'
  BY <1>1 DEF TypeOK, OpenStore, indexer, call, bounds, history
<1>2. CASE CloseStore
  <2>1. IsIndex(Sync(main)) /\ IsIndex(Sync(delta))
    BY SyncType DEF TypeOK
  <2>2. QED
    BY <1>2, <2>1 DEF TypeOK, CloseStore, indexer, call, bounds
<1>3. CASE Crash
  <2>1. IsIndex(main') /\ IsIndex(delta')
    BY <1>3, SurvivorType DEF TypeOK, Crash
  <2>2. job' = NoJob /\ NoJob \in [term : Terms \cup {NoTerm}, lh : Nat,
               hdr : [ID : Nat, BodySize : Nat, FIDmax : Nat], rest : Seq(1..MaxFID)]
    BY <1>3 DEF Crash, NoJob, NullHdr
  <2>3. EmptyCache \in [Terms -> Seq(1..MaxFID)] /\ MergeBuffer \in Nat /\ 0 \in 0..MaxFID
    BY SessionAssumption DEF EmptyCache
  <2>4. /\ open' = FALSE /\ currFID' = 0 /\ cache' = EmptyCache /\ dbOpen' = FALSE /\ run' = 0
        /\ pc' = "idle" /\ ret' = "idle" /\ todo' = {} /\ mtodo' = {} /\ mbuf' = MergeBuffer
        /\ session' = {} /\ acked' = durable /\ UNCHANGED <<op, fps, accepted, durable>>
    BY <1>3, Zenon DEF Crash
  <2>5. {accepted, session, acked, durable}' \subseteq SUBSET (Terms \X (1..MaxFID))
    <3>1. /\ accepted' \subseteq Terms \X (1..MaxFID) /\ session' \subseteq Terms \X (1..MaxFID)
          /\ acked' \subseteq Terms \X (1..MaxFID) /\ durable' \subseteq Terms \X (1..MaxFID)
      BY <2>4 DEF TypeOK
    <3>2. QED
      BY <3>1
  <2>6. op' \in {"GET"} \cup Ops /\ fps' \subseteq 1..MaxFID
    BY <2>4 DEF TypeOK
  <2>7. /\ open' \in BOOLEAN /\ currFID' \in 0..MaxFID /\ cache' \in [Terms -> Seq(1..MaxFID)]
        /\ dbOpen' \in BOOLEAN /\ run' \in 0..2
    <3>1. open' \in BOOLEAN /\ dbOpen' \in BOOLEAN
      BY <2>4, Zenon
    <3>2. cache' \in [Terms -> Seq(1..MaxFID)] /\ currFID' \in 0..MaxFID
      BY <2>3, <2>4, Zenon
    <3>3. run' \in 0..2
      BY <2>4
    <3>4. QED
      BY <3>1, <3>2, <3>3
  <2>8. /\ pc' \in {"idle", "flush", "end", "merge"} /\ ret' \in {"idle", "end"}
        /\ todo' \subseteq Terms /\ mtodo' \subseteq Terms \X Nat /\ mbuf' \in Nat
    BY <2>3, <2>4
  <2>9. JobHasPostings' /\ TodoIsCached'
    BY <2>2, <2>4
  <2>10. QED
    BY <2>1, <2>2, <2>5, <2>6, <2>7, <2>8, <2>9, Zenon DEF TypeOK
<1>4. CASE Start
  <2>1. EmptyCache \in [Terms -> Seq(1..MaxFID)] /\ 0 \in 0..MaxFID
    BY SessionAssumption DEF EmptyCache
  <2>2. QED
    BY <1>4, <2>1, SMTT(30) DEF TypeOK, Start, call
<1>5. ASSUME NEW f \in 1..MaxFID, NEW ts \in Recordings, NEW emit \in BOOLEAN, Index(f, ts, emit)
      PROVE  TypeInv'
  <2>1. cache' \in [Terms -> Seq(1..MaxFID)]
    <3>1. \A t \in Terms : cache[t] \in Seq(1..MaxFID) /\ Append(cache[t], f) \in Seq(1..MaxFID)
      BY DEF TypeOK
    <3>2. QED
      BY <1>5, <3>1 DEF Index
  <2>2. fps' \subseteq 1..MaxFID /\ f \in 0..MaxFID /\ ts \X {f} \subseteq Terms \X (1..MaxFID)
    BY <1>5 DEF TypeOK, Index, Fingerprints, Recordings
  <2>3. /\ open' \in BOOLEAN /\ currFID' \in 0..MaxFID /\ dbOpen' \in BOOLEAN
        /\ op' \in {"GET"} \cup Ops
        /\ {accepted, session, acked, durable}' \subseteq SUBSET (Terms \X (1..MaxFID))
    BY <1>5, <2>2 DEF TypeOK, Index
  <2>4. CASE BeginFlush(cache', "idle")
    <3>1. /\ run' \in 0..2 /\ IsIndex(main') /\ IsIndex(delta')
          /\ pc' = "flush" /\ ret' \in {"idle", "end"} /\ todo' \subseteq Terms
          /\ job' = job /\ mtodo' = mtodo /\ mbuf' = mbuf /\ TodoIsCached'
      BY <2>1, <2>4, BeginFlushType
    <3>2. QED
      BY <2>1, <2>2, <2>3, <3>1 DEF TypeOK
  <2>5. CASE pc = "idle" /\ UNCHANGED <<run, main, delta, call>>
    BY <2>1, <2>2, <2>3, <2>5 DEF TypeOK, call
  <2>6. QED
    BY <1>5, <2>4, <2>5 DEF Index
<1>6. CASE IndexAudioError
  <2>1. EmptyCache \in [Terms -> Seq(1..MaxFID)]
    BY DEF EmptyCache
  <2>2. QED
    BY <1>6, <2>1 DEF TypeOK, IndexAudioError, store, call, bounds
<1>7. CASE Flush
  <2>1. cache' = cache /\ cache' \in [Terms -> Seq(1..MaxFID)]
    BY <1>7 DEF TypeOK, Flush, indexer
  <2>2. /\ run' \in 0..2 /\ IsIndex(main') /\ IsIndex(delta')
        /\ pc' = "flush" /\ ret' \in {"idle", "end"} /\ todo' \subseteq Terms
        /\ job' = job /\ mtodo' = mtodo /\ mbuf' = mbuf /\ TodoIsCached'
    BY <1>7, <2>1, BeginFlushType DEF Flush
  <2>3. QED
    BY <1>7, <2>1, <2>2 DEF TypeOK, Flush, indexer, bounds, history
<1>8. ASSUME NEW flush \in BOOLEAN, End(flush) PROVE TypeInv'
  <2>1. cache' = cache /\ cache' \in [Terms -> Seq(1..MaxFID)]
    BY <1>8 DEF TypeOK, End, indexer
  <2>2. /\ open' \in BOOLEAN /\ currFID' \in 0..MaxFID /\ dbOpen' \in BOOLEAN
        /\ op' \in {"GET"} \cup Ops /\ fps' \subseteq 1..MaxFID
        /\ {accepted, session, acked, durable}' \subseteq SUBSET (Terms \X (1..MaxFID))
    BY <1>8 DEF TypeOK, End, indexer, bounds, history
  <2>3. CASE BeginFlush(cache', "end")
    <3>1. /\ run' \in 0..2 /\ IsIndex(main') /\ IsIndex(delta')
          /\ pc' = "flush" /\ ret' \in {"idle", "end"} /\ todo' \subseteq Terms
          /\ job' = job /\ mtodo' = mtodo /\ mbuf' = mbuf /\ TodoIsCached'
      BY <2>1, <2>3, BeginFlushType
    <3>2. QED
      BY <2>1, <2>2, <3>1 DEF TypeOK
  <2>4. CASE pc' = "end" /\ UNCHANGED <<run, main, delta, ret, todo, job, mtodo, mbuf>>
    BY <2>1, <2>2, <2>4 DEF TypeOK
  <2>5. QED
    BY <1>8, <2>1, <2>3, <2>4 DEF End
<1>9. ASSUME NEW t \in Terms, BeginList(t) PROVE TypeInv'
  <2>1. IsIndex(Sync(main)) /\ IsIndex(Sync(delta))
    BY SyncType DEF TypeOK
  <2>2. IsIndex(main') /\ IsIndex(delta')
    BY <1>9, <2>1 DEF TypeOK, BeginList
  <2>3. UNCHANGED <<open, currFID, cache, dbOpen, op, run, fps, history, mtodo, mbuf>>
    BY <1>9 DEF BeginList, Fail, indexer
  <2>4. CASE Fail
    <3>1. job' = NoJob /\ NoJob \in [term : Terms \cup {NoTerm}, lh : Nat,
               hdr : [ID : Nat, BodySize : Nat, FIDmax : Nat], rest : Seq(1..MaxFID)]
      BY <2>4 DEF Fail, NoJob, NullHdr
    <3>2. QED
      BY <2>2, <2>3, <2>4, <3>1 DEF TypeOK, Fail, history
  <2>5. CASE ~Fail
    <3>1. \A i : /\ GetPListHeader(main, t) \in Nat /\ GetPListHeader(delta, t) \in Nat
                 /\ GetPListBlockHeader(main, t, i) \in [ID : Nat, BodySize : Nat, FIDmax : Nat]
                 /\ GetPListBlockHeader(delta, t, i) \in [ID : Nat, BodySize : Nat, FIDmax : Nat]
      BY ReadType DEF TypeOK
    <3> DEFINE lh  == ListHeader(t)
               hdr == IF lh = 0 THEN NullHdr ELSE BlockHeader(t, lh)
    <3>2. lh \in Nat
      BY <3>1 DEF ListHeader
    <3>3. hdr \in [ID : Nat, BodySize : Nat, FIDmax : Nat]
      BY <3>1 DEF BlockHeader, NullHdr
    <3>4. /\ job' = [term |-> t, lh |-> lh, hdr |-> hdr, rest |-> cache[t]]
          /\ todo' = todo \ {t} /\ UNCHANGED <<pc, ret>> /\ pc = "flush" /\ t \in todo
      BY <1>9, <2>5, Zenon DEF BeginList
    <3> HIDE DEF lh, hdr
    <3>5. cache[t] \in Seq(1..MaxFID) /\ cache[t] # <<>>
      BY <3>4 DEF TypeOK
    <3>6. job'.term \in Terms /\ job'.rest # <<>>
      BY <3>4, <3>5
    <3>7. job' \in [term : Terms \cup {NoTerm}, lh : Nat,
               hdr : [ID : Nat, BodySize : Nat, FIDmax : Nat], rest : Seq(1..MaxFID)]
      BY <3>2, <3>3, <3>4, <3>5
    <3>8. QED
      BY <2>2, <2>3, <3>4, <3>6, <3>7 DEF TypeOK, history
  <2>6. QED
    BY <2>4, <2>5
<1>10. CASE RejectChunk
  <2>1. job' = NoJob /\ NoJob \in [term : Terms \cup {NoTerm}, lh : Nat,
             hdr : [ID : Nat, BodySize : Nat, FIDmax : Nat], rest : Seq(1..MaxFID)]
    BY <1>10 DEF RejectChunk, Fail, NoJob, NullHdr
  <2>2. QED
    BY <1>10, <2>1 DEF TypeOK, RejectChunk, Fail, indexer, store, history
<1>11. CASE MoveCache
  <2>1. IsIndex(main') /\ IsIndex(delta')
    <3>1. PICK order \in WriteOrders(Target) : SetTarget(SwitchList(Target, job.term, order))
      BY <1>11 DEF MoveCache
    <3>2. job.term \in Terms
      BY <1>11 DEF MoveCache
    <3>3. IsIndex(SwitchList(Target, job.term, order))
      BY <3>2, TargetType, SwitchType
    <3>4. QED
      BY <3>1, <3>3, TargetType
  <2>2. UNCHANGED <<open, currFID, cache, dbOpen, op, run, fps, call, history>>
    BY <1>11 DEF MoveCache, indexer
  <2>3. QED
    BY <2>1, <2>2 DEF TypeOK, call, history
<1>12. CASE EmitChunk
  <2>1. /\ Chunk \in Seq(1..MaxFID) /\ Len(Chunk) \in 1..Len(job.rest) /\ Base \in Nat
        /\ ChunkHeader \in [ID : Nat, BodySize : Nat, FIDmax : Nat]
        /\ SubSeq(job.rest, Len(Chunk) + 1, Len(job.rest)) \in Seq(1..MaxFID)
    BY <1>12, ChunkType DEF EmitChunk
  <2> DEFINE lh   == IF Fits THEN job.lh ELSE job.lh + 1
             rest == SubSeq(job.rest, Len(Chunk) + 1, Len(job.rest))
  <2>2. /\ job \in [term : Terms \cup {NoTerm}, lh : Nat,
                    hdr : [ID : Nat, BodySize : Nat, FIDmax : Nat], rest : Seq(1..MaxFID)]
        /\ job.term \in Terms
    BY <1>12 DEF EmitChunk, TypeOK
  <2>3. lh \in Nat
    BY <2>2
  <2>4. /\ SetTarget(AppendChunk(Target, job.term, lh, ChunkHeader, Encode(Chunk, Base), ~Fits))
        /\ job' = IF rest = <<>> THEN NoJob
                  ELSE [job EXCEPT !.lh = lh, !.hdr = ChunkHeader, !.rest = rest]
        /\ UNCHANGED <<open, currFID, cache, dbOpen, op, run, fps, pc, ret, todo, mtodo, mbuf, history>>
        /\ Target.clist = job.term
    BY <1>12 DEF EmitChunk, indexer
  <2>5. rest \in Seq(1..MaxFID)
    BY <2>1
  <2> HIDE DEF lh, rest
  <2>6. IsIndex(main') /\ IsIndex(delta')
    <3>1. Target.clist # NoTerm
      BY <2>2, <2>4, TermAssumption
    <3>2. Encode(Chunk, Base) \in Seq(Nat) /\ (~Fits) \in BOOLEAN
      BY <2>1, EncodeType
    <3>3. IsIndex(Target)
      BY TargetType
    <3>4. IsIndex(AppendChunk(Target, job.term, lh, ChunkHeader, Encode(Chunk, Base), ~Fits))
      BY <2>1, <2>3, <3>1, <3>2, <3>3, AppendType
    <3>5. QED
      BY <2>4, <3>4, TargetType
  <2>7. /\ job' \in [term : Terms \cup {NoTerm}, lh : Nat,
               hdr : [ID : Nat, BodySize : Nat, FIDmax : Nat], rest : Seq(1..MaxFID)]
        /\ job' # NoJob => job'.term \in Terms /\ job'.rest # <<>>
    <3>1. CASE rest = <<>>
      BY <2>4, <3>1 DEF NoJob, NullHdr
    <3>2. CASE rest # <<>>
      <4>1. job' = [job EXCEPT !.lh = lh, !.hdr = ChunkHeader, !.rest = rest]
        BY <2>4, <3>2
      <4>2. QED
        BY <2>1, <2>2, <2>3, <2>5, <3>2, <4>1
    <3>3. QED
      BY <3>1, <3>2
  <2>8. QED
    BY <2>4, <2>6, <2>7 DEF TypeOK, history
<1>13. CASE EndFlush
  <2>1. IsIndex(main') /\ IsIndex(delta')
    <3>1. PICK order \in WriteOrders(Target) : SetTarget(FlushBlockCache(Target, order))
      BY <1>13 DEF EndFlush
    <3>2. IsIndex(FlushBlockCache(Target, order))
      BY TargetType, FlushType
    <3>3. QED
      BY <3>1, <3>2, TargetType
  <2>2. EmptyCache \in [Terms -> Seq(1..MaxFID)]
    BY DEF EmptyCache
  <2>3. /\ UNCHANGED <<open, currFID, dbOpen, op, run, fps, todo, job, mtodo, mbuf, history>>
        /\ todo = {} /\ cache' = EmptyCache /\ pc' = ret /\ ret' = "idle"
    BY <1>13 DEF EndFlush
  <2>4. QED
    BY <2>1, <2>2, <2>3 DEF TypeOK, history
<1>14. CASE EndSession
  <2>1. IsIndex(Sync(delta))
    BY SyncType DEF TypeOK
  <2>2. DOMAIN View(delta) \subseteq Terms \X Nat
    BY OverlayType DEF TypeOK, IsIndex, View, AreRecords, Keys
  <2>3. {accepted, session, acked, durable}' \subseteq SUBSET (Terms \X (1..MaxFID))
    BY <1>14 DEF TypeOK, EndSession, Acknowledge
  <2>4. /\ open' \in BOOLEAN /\ main' = main /\ IsIndex(delta')
        /\ pc' \in {"idle", "merge"} /\ mtodo' \subseteq Terms \X Nat
        /\ UNCHANGED <<currFID, cache, dbOpen, op, run, fps, ret, todo, job, mbuf>>
    BY <1>14, <2>1, <2>2 DEF TypeOK, EndSession
  <2>5. QED
    BY <2>3, <2>4 DEF TypeOK
<1>15. ASSUME NEW k \in mtodo, MergeRecord(k) PROVE TypeInv'
  <2> DEFINE live == ReadBlock(main, k[1], k[2])
             d    == ReadBlock(delta, k[1], k[2])
             read == Larger(mbuf, Len(live.body))
             size == Larger(read, Len(live.body) + Len(d.body))
  <2>1. k[1] \in Terms /\ k[2] \in Nat
    BY DEF TypeOK
  <2>2. live \in BlockRecords /\ d \in BlockRecords /\ IsIndex(Sync(main))
    BY ReadType, SyncType DEF TypeOK
  <2>3. Len(live.body) \in Nat /\ Len(d.body) \in Nat /\ mbuf \in Nat
    <3> HIDE DEF live, d
    <3>1. live.body \in Seq(Nat) /\ d.body \in Seq(Nat)
      BY <2>2 DEF BlockRecords
    <3>2. QED
      BY <3>1, LenProperties DEF TypeOK
  <2>4. /\ \E stale \in IF size > read THEN BOOLEAN ELSE {FALSE} :
              main' = WriteBlock(Sync(main), k[1], k[2], MergedBlock(live, d, k[2], stale))
        /\ mbuf' = size /\ mtodo' = mtodo \ {k} /\ pc = "merge"
        /\ UNCHANGED <<open, currFID, cache, dbOpen, op, run, delta, fps, pc, ret, todo, job, history>>
    BY <1>15, Zenon DEF MergeRecord, indexer
  <2>5. size \in Nat
    <3>1. \A m \in Nat, n \in Nat : Larger(m, n) \in Nat
      BY DEF Larger
    <3>2. Len(live.body) + Len(d.body) \in Nat
      <4> DEFINE m == Len(live.body)
                 n == Len(d.body)
      <4>1. m \in Nat /\ n \in Nat
        BY <2>3
      <4> HIDE DEF m, n
      <4>2. m + n \in Nat
        BY <4>1
      <4>3. QED
        BY <4>2 DEF m, n
    <3> HIDE DEF live, d
    <3>3. read \in Nat
      BY <2>3, <3>1
    <3> HIDE DEF read
    <3>4. QED
      BY <3>1, <3>2, <3>3
  <2> HIDE DEF live, d, size, read
  <2>6. PICK stale \in BOOLEAN :
          main' = WriteBlock(Sync(main), k[1], k[2], MergedBlock(live, d, k[2], stale))
    BY <2>4
  <2>7. IsIndex(main')
    <3>1. MergedBlock(live, d, k[2], stale) \in BlockRecords
      BY <2>2, MergedType
    <3>2. QED
      BY <2>1, <2>2, <2>6, <3>1, WriteType
  <2>8. QED
    BY <2>4, <2>5, <2>7 DEF TypeOK, history
<1>16. CASE EndMerge
  <2>1. IsIndex(MergedDelta)
    BY EmptyType, SyncType DEF TypeOK, MergedDelta
  <2>2. QED
    BY <1>16, <2>1 DEF TypeOK, EndMerge, Acknowledge, indexer, bounds
<1>17. CASE UNCHANGED vars
  BY <1>17 DEF TypeOK, vars, indexer, store, call, bounds, history
<1>18. QED
  BY <1>1, <1>2, <1>3, <1>4, <1>5, <1>6, <1>7, <1>8, <1>9, <1>10, <1>11, <1>12, <1>13, <1>14,
     <1>15, <1>16, <1>17 DEF Next

\* Every variable keeps its type, whatever the client does and whenever the
\* process dies: no chunk has a last FID that does not exist, no record of a
\* file or of a cache is anything but a block of a list.
THEOREM TypeCorrect == Spec => []TypeOK
<1>1. TypeInv => TypeOK
  BY DEF TypeInv
<1>2. QED
  BY <1>1, InitType, NextType, PTL DEF Spec

-----------------------------------------------------------------------------
(* What a process reads.                                                   *)

\* Writing the pool through changes no record that is read.
LEMMA SyncView ==
  ASSUME NEW ix, IsIndex(ix)
  PROVE  View(Sync(ix)) = View(ix)
<1>1. Sync(ix).disk = View(ix) /\ Sync(ix).pool = <<>>
  BY DEF IsIndex, Sync
<1>2. View(Sync(ix)) = Overlay(View(ix), <<>>)
  BY <1>1 DEF View
<1>3. \A k : PendingOn(<<>>, k) = {}
  BY DEF PendingOn
<1>4. {<<>>[i][1] : i \in DOMAIN <<>>} = {}
  OBVIOUS
<1>5. Overlay(View(ix), <<>>) = [k \in DOMAIN View(ix) |-> View(ix)[k]]
  BY <1>3, <1>4 DEF Overlay
<1>6. View(ix) = [k \in DOMAIN View(ix) |-> View(ix)[k]]
  BY Zenon DEF View, Overlay
<1>7. QED
  BY <1>2, <1>5, <1>6

\* Neither does dropping the block cache.
LEMMA ClearView ==
  ASSUME NEW ix, IsIndex(ix)
  PROVE  View(ClearCache(ix)) = View(ix)
<1>1. ClearCache(ix).disk = ix.disk /\ ClearCache(ix).pool = ix.pool
  BY DEF IsIndex, ClearCache
<1>2. QED
  BY <1>1 DEF View

\* A build-and-merge session changes no record of the live index before it
\* merges, in any number of runs and for any client: the merge can start
\* from the lists the matcher has been reading.
THEOREM LiveUntouched == Spec => LiveUntouchedBeforeMerge
<1> DEFINE Untouched == op = "BUILD_MERGE" /\ pc # "merge" /\ dbOpen' => View(main') = View(main)
<1>1. TypeInv /\ [Next]_vars => [Untouched]_vars
  <2> SUFFICES ASSUME TypeInv, Next, op = "BUILD_MERGE", pc # "merge", dbOpen'
               PROVE  View(main') = View(main)
    OBVIOUS
  <2>1. View(Sync(main)) = View(main) /\ View(ClearCache(main)) = View(main)
    BY SyncView, ClearView DEF TypeInv, TypeOK
  <2>2. \A ix : SetTarget(ix) => main' = main
    BY DEF SetTarget
  <2>3. main' \in {main, Sync(main), ClearCache(main)}
    <3>1. ASSUME NEW mode \in Ops, OpenStore(mode) PROVE main' = main
      BY <3>1 DEF OpenStore
    <3>2. ~CloseStore /\ ~Crash
      BY DEF CloseStore, Crash
    <3>3. CASE Start
      BY <3>3 DEF Start
    <3>4. ASSUME NEW f \in 1..MaxFID, NEW ts \in Recordings, NEW emit \in BOOLEAN, Index(f, ts, emit)
          PROVE  main' \in {main, ClearCache(main)}
      BY <3>4, Zenon DEF Index, BeginFlush
    <3>5. CASE IndexAudioError
      BY <3>5 DEF IndexAudioError, store
    <3>6. CASE Flush
      BY <3>6 DEF Flush, BeginFlush
    <3>7. ASSUME NEW flush \in BOOLEAN, End(flush) PROVE main' \in {main, ClearCache(main)}
      BY <3>7 DEF End, BeginFlush
    <3>8. ASSUME NEW t \in Terms, BeginList(t) PROVE main' \in {main, Sync(main)}
      <4>1. main' = IF op # "GET" /\ ReadsMain(t) THEN Sync(main) ELSE main
        BY <3>8, Zenon DEF BeginList
      <4>2. QED
        BY <4>1
    <3>9. CASE RejectChunk
      BY <3>9 DEF RejectChunk, store
    <3>10. CASE MoveCache
      BY <3>10, <2>2, Zenon DEF MoveCache
    <3>11. CASE EmitChunk
      BY <3>11, <2>2, Zenon DEF EmitChunk
    <3>12. CASE EndFlush
      BY <3>12, <2>2, Zenon DEF EndFlush
    <3>13. CASE EndSession
      BY <3>13 DEF EndSession
    <3>14. \A k \in mtodo : ~MergeRecord(k)
      BY DEF MergeRecord
    <3>15. ~EndMerge
      BY DEF EndMerge
    <3>16. QED
      BY <3>1, <3>2, <3>3, <3>4, <3>5, <3>6, <3>7, <3>8, <3>9, <3>10, <3>11, <3>12, <3>13,
         <3>14, <3>15 DEF Next
  <2>4. QED
    BY <2>1, <2>3
<1>2. QED
  BY <1>1, InitType, NextType, PTL DEF Spec, LiveUntouchedBeforeMerge

-----------------------------------------------------------------------------
(* Records that name only postings of a set G, through the operations of   *)
(* an index.                                                               *)

\* A record of the key k = <<list, block>>: it is empty and has no header,
\* or its header tells its block and the last FID of its body; its postings
\* are in G.
GoodRecord(G, k, r) ==
  /\ r.body = <<>> => r.hdr = NullHdr
  /\ r.body # <<>> => r.hdr.ID = k[2] /\ r.hdr.FIDmax = Last(Decode(r.body))
  /\ \A f \in ToSet(Decode(r.body)) : <<k[1], f>> \in G

GoodRecords(G, recs) == \A k \in DOMAIN recs : GoodRecord(G, k, recs[k])

GoodPool(G, pool) == \A i \in 1..Len(pool) : GoodRecord(G, pool[i][1], pool[i][2])

\* What is stored, what is pending and what is cached, each for itself: a
\* crash may keep any of the pending writes.
GoodIndex(G, ix) ==
  /\ IsFiniteSet(DOMAIN ix.disk) /\ GoodRecords(G, ix.disk)
  /\ GoodPool(G, ix.pool)
  /\ \A b \in DOMAIN ix.cache : GoodRecord(G, <<ix.clist, b>>, ix.cache[b])

\* The empty record is good.
LEMMA NoBlockGood == ASSUME NEW G, NEW k PROVE GoodRecord(G, k, NoBlock) /\ Decode(<<>>) = <<>>
<1>1. ToSet(<<>>) = {}
  BY DEF ToSet
<1>2. QED
  BY <1>1, DecodeEmpty DEF GoodRecord, NoBlock

\* A larger set keeps records good.
LEMMA GoodGrows ==
  ASSUME NEW G, NEW H, G \subseteq H, NEW ix, GoodIndex(G, ix)
  PROVE  GoodIndex(H, ix)
<1>1. \A k, r : GoodRecord(G, k, r) => GoodRecord(H, k, r)
  BY DEF GoodRecord
<1>2. QED
  BY <1>1 DEF GoodIndex, GoodRecords, GoodPool

\* Pending writes on top of stored records.
LEMMA OverlayGood ==
  ASSUME NEW G, NEW disk, IsFiniteSet(DOMAIN disk), GoodRecords(G, disk),
         NEW pool \in Seq(Keys \X BlockRecords), GoodPool(G, pool)
  PROVE  IsFiniteSet(DOMAIN Overlay(disk, pool)) /\ GoodRecords(G, Overlay(disk, pool))
<1> DEFINE keys == {pool[i][1] : i \in DOMAIN pool}
           D == DOMAIN disk \cup keys
<1>1. Len(pool) \in Nat /\ DOMAIN pool = 1..Len(pool)
  BY LenProperties
<1>2. DOMAIN Overlay(disk, pool) = D
  BY Zenon DEF Overlay
<1>3. IsFiniteSet(D)
  <2> DEFINE f == [i \in 1..Len(pool) |-> pool[i][1]]
  <2>1. f \in Surjection(1..Len(pool), keys)
    BY <1>1 DEF Surjection
  <2>2. IsFiniteSet(1..Len(pool))
    BY <1>1, FS_Interval
  <2>3. IsFiniteSet(keys)
    <3> HIDE DEF f, keys
    <3>1. QED
      BY <2>1, <2>2, FS_Surjection
  <2>4. QED
    BY <2>3, FS_Union
<1>4. ASSUME NEW k \in D PROVE GoodRecord(G, k, Overlay(disk, pool)[k])
  <2>1. Overlay(disk, pool)[k] = IF PendingOn(pool, k) = {} THEN disk[k]
                                 ELSE pool[Max(PendingOn(pool, k))][2]
    BY <1>4, Zenon DEF Overlay
  <2>2. CASE PendingOn(pool, k) = {}
    <3>1. k \in DOMAIN disk
      BY <1>4, <2>2 DEF PendingOn
    <3>2. QED
      BY <2>1, <2>2, <3>1 DEF GoodRecords
  <2>3. CASE PendingOn(pool, k) # {}
    <3>1. PendingOn(pool, k) \in SUBSET (1..Len(pool))
      BY <1>1 DEF PendingOn
    <3>2. Max(PendingOn(pool, k)) \in PendingOn(pool, k)
      BY <1>1, <2>3, <3>1, MaxInSet
    <3>3. Max(PendingOn(pool, k)) \in 1..Len(pool) /\ pool[Max(PendingOn(pool, k))][1] = k
      BY <1>1, <3>2 DEF PendingOn
    <3>4. QED
      BY <2>1, <2>3, <3>3 DEF GoodPool
  <2>4. QED
    BY <2>2, <2>3
<1>5. QED
  BY <1>2, <1>3, <1>4 DEF GoodRecords

\* What a process reads from a good index.
LEMMA ReadGood ==
  ASSUME NEW G, NEW ix, IsIndex(ix), GoodIndex(G, ix), NEW t, NEW b
  PROVE  /\ IsFiniteSet(DOMAIN View(ix)) /\ GoodRecords(G, View(ix))
         /\ GoodRecord(G, <<t, b>>, ReadBlock(ix, t, b))
<1>1. IsFiniteSet(DOMAIN View(ix)) /\ GoodRecords(G, View(ix))
  BY OverlayGood DEF IsIndex, GoodIndex, View
<1>2. QED
  BY <1>1, NoBlockGood DEF ReadBlock, GoodRecords

\* Writing the pool through.
LEMMA SyncGood ==
  ASSUME NEW G, NEW ix, IsIndex(ix), GoodIndex(G, ix)
  PROVE  GoodIndex(G, Sync(ix))
<1>1. /\ Sync(ix).disk = View(ix) /\ Sync(ix).pool = <<>>
      /\ Sync(ix).clist = ix.clist /\ Sync(ix).cache = ix.cache
  BY DEF IsIndex, Sync
<1>2. GoodPool(G, <<>>)
  BY DEF GoodPool
<1>3. QED
  BY <1>1, <1>2, ReadGood DEF GoodIndex

\* The index of a fresh database.
LEMMA EmptyGood == ASSUME NEW G PROVE GoodIndex(G, EmptyIndex)
<1>1. IsFiniteSet({})
  BY FS_EmptySet
<1>2. QED
  BY <1>1 DEF GoodIndex, EmptyIndex, NoRecords, GoodRecords, GoodPool

\* A crash.
LEMMA SurvivorGood ==
  ASSUME NEW G, NEW ix, IsIndex(ix), GoodIndex(G, ix), NEW n \in 0..Len(ix.pool)
  PROVE  GoodIndex(G, Survivor(ix, n))
<1> DEFINE p == SubSeq(ix.pool, 1, n)
<1>1. ix.pool \in Seq(Keys \X BlockRecords) /\ Len(ix.pool) \in Nat
  BY LenProperties DEF IsIndex
<1>2. p \in Seq(Keys \X BlockRecords) /\ Len(p) = n /\ \A i \in 1..n : p[i] = ix.pool[i]
  <2>1. \A i \in 1..n : ix.pool[i] \in Keys \X BlockRecords
    BY <1>1, ElementOfSeq, LenProperties
  <2>2. QED
    BY <1>1, <2>1, SubSeqProperties
<1> HIDE DEF p
<1>3. GoodPool(G, p)
  BY <1>1, <1>2 DEF GoodIndex, GoodPool
<1>4. IsFiniteSet(DOMAIN Overlay(ix.disk, p)) /\ GoodRecords(G, Overlay(ix.disk, p))
  BY <1>2, <1>3, OverlayGood DEF GoodIndex
<1>5. Survivor(ix, n) = [disk |-> Overlay(ix.disk, p), pool |-> <<>>, clist |-> NoTerm, cache |-> NoRecords]
  BY DEF Survivor, EmptyIndex, p
<1>6. QED
  BY <1>4, <1>5 DEF GoodIndex, NoRecords, GoodPool

\* The block cache is dropped.
LEMMA ClearGood ==
  ASSUME NEW G, NEW ix, IsIndex(ix), GoodIndex(G, ix)
  PROVE  GoodIndex(G, ClearCache(ix))
<1>1. /\ ClearCache(ix).disk = ix.disk /\ ClearCache(ix).pool = ix.pool
      /\ ClearCache(ix).cache = NoRecords
  BY DEF IsIndex, ClearCache
<1>2. DOMAIN NoRecords = {}
  BY DEF NoRecords
<1>3. QED
  BY <1>1, <1>2 DEF GoodIndex

\* The pool after the block cache is written out, in any order: the pending
\* writes of before, and one of each cached block.
LEMMA CachedWrites ==
  ASSUME NEW ix, IsIndex(ix), NEW order \in WriteOrders(ix)
  PROVE  LET new == WriteCached(ix, order)
         IN  /\ new.disk = ix.disk /\ new.clist = ix.clist /\ new.cache = ix.cache
             /\ Len(order) \in Nat /\ Len(new.pool) = Len(ix.pool) + Len(order)
             /\ \A i \in 1..Len(ix.pool) : new.pool[i] = ix.pool[i]
             /\ \A i \in 1..Len(order) :
                  /\ order[i] \in DOMAIN ix.cache
                  /\ new.pool[Len(ix.pool) + i] = <<<<ix.clist, order[i]>>, ix.cache[order[i]]>>
<1> DEFINE n == Cardinality(DOMAIN ix.cache)
           writes == [i \in 1..Len(order) |-> <<<<ix.clist, order[i]>>, ix.cache[order[i]]>>]
           new == WriteCached(ix, order)
<1>1. n \in Nat /\ order \in [1..n -> DOMAIN ix.cache]
  BY FS_CardinalityType DEF IsIndex, WriteOrders, SetToSeqs
<1>2. Len(order) = n
  BY <1>1
<1>3. writes \in Seq(Keys \X BlockRecords) /\ Len(writes) = n
  <2>1. ASSUME NEW i \in 1..n
        PROVE  <<<<ix.clist, order[i]>>, ix.cache[order[i]]>> \in Keys \X BlockRecords
    <3>1. order[i] \in DOMAIN ix.cache
      BY <1>1
    <3>2. ix.clist \in Terms /\ order[i] \in Nat /\ ix.cache[order[i]] \in BlockRecords
      BY <3>1 DEF IsIndex, AreRecords
    <3>3. QED
      BY <3>2 DEF Keys
  <2>2. writes \in [1..n -> Keys \X BlockRecords]
    BY <1>2, <2>1
  <2>3. QED
    BY <1>1, <2>2
<1>4. \A i \in 1..Len(order) : writes[i] = <<<<ix.clist, order[i]>>, ix.cache[order[i]]>>
  OBVIOUS
<1>5. /\ new.disk = ix.disk /\ new.clist = ix.clist /\ new.cache = ix.cache
      /\ new.pool = ix.pool \o writes
  <2>1. new = [ix EXCEPT !.pool = ix.pool \o writes]
    BY DEF WriteCached
  <2> HIDE DEF writes, new
  <2>2. QED
    BY <2>1 DEF IsIndex
<1>6. ix.pool \in Seq(Keys \X BlockRecords)
  BY DEF IsIndex
<1> HIDE DEF writes, n, new
<1>7. /\ Len(ix.pool \o writes) = Len(ix.pool) + Len(writes)
      /\ \A i \in 1..Len(ix.pool) : (ix.pool \o writes)[i] = ix.pool[i]
  <2>1. Len(ix.pool \o writes) = Len(ix.pool) + Len(writes)
    BY <1>3, <1>6, ConcatElements, ZenonT(40)
  <2>2. \A i \in 1..Len(ix.pool) : (ix.pool \o writes)[i] = ix.pool[i]
    BY <1>3, <1>6, ConcatElements
  <2>3. QED
    BY <2>1, <2>2
<1>8. \A i \in 1..Len(writes) : (ix.pool \o writes)[Len(ix.pool) + i] = writes[i]
  BY <1>3, <1>6, ConcatElements
<1>9. \A i \in 1..Len(order) : order[i] \in DOMAIN ix.cache
  BY <1>1, <1>2
<1>10. QED
  BY <1>1, <1>2, <1>3, <1>4, <1>5, <1>7, <1>8, <1>9 DEF new

\* Writing the block cache out keeps an index good.
LEMMA WriteCachedGood ==
  ASSUME NEW G, NEW ix, IsIndex(ix), GoodIndex(G, ix), NEW order \in WriteOrders(ix)
  PROVE  GoodIndex(G, WriteCached(ix, order))
<1> DEFINE new == WriteCached(ix, order)
<1>1. /\ new.disk = ix.disk /\ new.clist = ix.clist /\ new.cache = ix.cache
      /\ Len(order) \in Nat /\ Len(new.pool) = Len(ix.pool) + Len(order)
      /\ \A i \in 1..Len(ix.pool) : new.pool[i] = ix.pool[i]
  BY CachedWrites
<1>2. \A i \in 1..Len(order) :
         /\ order[i] \in DOMAIN ix.cache
         /\ new.pool[Len(ix.pool) + i] = <<<<ix.clist, order[i]>>, ix.cache[order[i]]>>
  BY CachedWrites
<1>3. Len(ix.pool) \in Nat
  BY LenProperties DEF IsIndex
<1> HIDE DEF new
<1>4. ASSUME NEW i \in 1..Len(new.pool) PROVE GoodRecord(G, new.pool[i][1], new.pool[i][2])
  <2>1. CASE i \in 1..Len(ix.pool)
    BY <1>1, <2>1 DEF GoodIndex, GoodPool
  <2>2. CASE i \notin 1..Len(ix.pool)
    <3> DEFINE j == i - Len(ix.pool)
    <3>1. j \in 1..Len(order) /\ i = Len(ix.pool) + j
      BY <1>1, <1>3, <2>2
    <3> HIDE DEF j
    <3>2. order[j] \in DOMAIN ix.cache
          /\ new.pool[i] = <<<<ix.clist, order[j]>>, ix.cache[order[j]]>>
      BY <1>2, <3>1, Zenon
    <3>3. GoodRecord(G, <<ix.clist, order[j]>>, ix.cache[order[j]])
      BY <3>2 DEF GoodIndex
    <3>4. QED
      BY <3>2, <3>3
  <2>3. QED
    BY <2>1, <2>2
<1>5. QED
  BY <1>1, <1>4 DEF GoodIndex, GoodPool, new

\* Writing it out changes what is read of no other list.
LEMMA WriteCachedRead ==
  ASSUME NEW ix, IsIndex(ix), NEW order \in WriteOrders(ix), NEW t, t # ix.clist, NEW b
  PROVE  ReadBlock(WriteCached(ix, order), t, b) = ReadBlock(ix, t, b)
<1> DEFINE new == WriteCached(ix, order)
           k == <<t, b>>
<1>1. /\ new.disk = ix.disk
      /\ Len(order) \in Nat /\ Len(new.pool) = Len(ix.pool) + Len(order)
      /\ \A i \in 1..Len(ix.pool) : new.pool[i] = ix.pool[i]
  BY CachedWrites
<1>2. \A i \in 1..Len(order) : new.pool[Len(ix.pool) + i][1] = <<ix.clist, order[i]>>
  BY CachedWrites
<1>3. /\ Len(ix.pool) \in Nat /\ DOMAIN ix.pool = 1..Len(ix.pool)
      /\ DOMAIN new.pool = 1..Len(new.pool)
  <2>1. IsIndex(new)
    BY WriteCachedType
  <2>2. QED
    BY <2>1, LenProperties DEF IsIndex
<1> HIDE DEF new
<1>4. PendingOn(new.pool, k) = PendingOn(ix.pool, k)
  <2>1. ASSUME NEW i \in 1..Len(new.pool), i \notin 1..Len(ix.pool) PROVE new.pool[i][1] # k
    <3> DEFINE j == i - Len(ix.pool)
    <3>1. j \in 1..Len(order) /\ i = Len(ix.pool) + j
      BY <1>1, <1>3, <2>1
    <3> HIDE DEF j
    <3>2. QED
      BY <1>2, <3>1
  <2>2. 1..Len(ix.pool) \subseteq 1..Len(new.pool)
    BY <1>1, <1>3
  <2> HIDE DEF k
  <2>3. QED
    BY <1>1, <1>3, <2>1, <2>2 DEF PendingOn
<1>5. \A i \in PendingOn(ix.pool, k) : new.pool[i] = ix.pool[i]
  BY <1>1, <1>3 DEF PendingOn
<1>6. k \in DOMAIN View(new) <=> k \in DOMAIN View(ix)
  <2>1. DOMAIN View(new) = DOMAIN new.disk \cup {new.pool[i][1] : i \in DOMAIN new.pool}
    BY Zenon DEF View, Overlay
  <2>2. DOMAIN View(ix) = DOMAIN ix.disk \cup {ix.pool[i][1] : i \in DOMAIN ix.pool}
    BY Zenon DEF View, Overlay
  <2>3. PendingOn(new.pool, k) # {} <=> PendingOn(ix.pool, k) # {}
    BY <1>4
  <2> HIDE DEF k
  <2>4. QED
    BY <1>1, <2>1, <2>2, <2>3 DEF PendingOn
<1>7. CASE k \in DOMAIN View(ix)
  <2>1. View(new)[k] = IF PendingOn(new.pool, k) = {} THEN new.disk[k]
                       ELSE new.pool[Max(PendingOn(new.pool, k))][2]
    BY <1>6, <1>7, Zenon DEF View, Overlay
  <2>2. View(ix)[k] = IF PendingOn(ix.pool, k) = {} THEN ix.disk[k]
                      ELSE ix.pool[Max(PendingOn(ix.pool, k))][2]
    BY <1>7, Zenon DEF View, Overlay
  <2>3. PendingOn(ix.pool, k) # {} => Max(PendingOn(ix.pool, k)) \in PendingOn(ix.pool, k)
    <3>1. PendingOn(ix.pool, k) \in SUBSET (1..Len(ix.pool))
      BY <1>3 DEF PendingOn
    <3>2. QED
      BY <1>3, <3>1, MaxInSet
  <2>4. View(new)[k] = View(ix)[k]
    BY <1>1, <1>4, <1>5, <2>1, <2>2, <2>3, Zenon
  <2>5. QED
    BY <1>6, <1>7, <2>4, Zenon DEF ReadBlock, new, k
<1>8. CASE k \notin DOMAIN View(ix)
  BY <1>6, <1>8, Zenon DEF ReadBlock, new, k
<1>9. QED
  BY <1>7, <1>8

\* The block cache is written out and dropped, or moves to another list.
LEMMA FlushGood ==
  ASSUME NEW G, NEW ix, IsIndex(ix), GoodIndex(G, ix), NEW order \in WriteOrders(ix), NEW t
  PROVE  /\ GoodIndex(G, FlushBlockCache(ix, order))
         /\ GoodIndex(G, SwitchList(ix, t, order))
         /\ SwitchList(ix, t, order).clist = t /\ SwitchList(ix, t, order).cache = NoRecords
         /\ View(SwitchList(ix, t, order)) = View(WriteCached(ix, order))
<1> DEFINE new == WriteCached(ix, order)
           sw == SwitchList(ix, t, order)
<1>1. IsIndex(new) /\ GoodIndex(G, new)
  BY WriteCachedType, WriteCachedGood
<1>2. GoodIndex(G, FlushBlockCache(ix, order))
  BY <1>1, ClearGood DEF FlushBlockCache
<1>3. sw = [new EXCEPT !.clist = t, !.cache = NoRecords]
  BY DEF SwitchList
<1> HIDE DEF new, sw
<1>4. sw.disk = new.disk /\ sw.pool = new.pool /\ sw.clist = t /\ sw.cache = NoRecords
  BY <1>1, <1>3 DEF IsIndex
<1>5. GoodIndex(G, sw)
  <2>1. DOMAIN NoRecords = {}
    BY DEF NoRecords
  <2>2. QED
    BY <1>1, <1>4, <2>1 DEF GoodIndex
<1>6. QED
  BY <1>2, <1>4, <1>5 DEF View, sw, new

\* A record put in the block cache.
Caching(ix, b, r) == [ix EXCEPT !.cache = Put(@, b, r)]

\* It keeps an index good when the record is.
LEMMA PutGood ==
  ASSUME NEW G, NEW ix, IsIndex(ix), GoodIndex(G, ix), NEW b, NEW r,
         GoodRecord(G, <<ix.clist, b>>, r)
  PROVE  /\ GoodIndex(G, Caching(ix, b, r)) /\ Caching(ix, b, r).clist = ix.clist
         /\ DOMAIN Caching(ix, b, r).cache = DOMAIN ix.cache \cup {b}
         /\ \A k \in DOMAIN ix.cache \cup {b} :
              Caching(ix, b, r).cache[k] = IF k = b THEN r ELSE ix.cache[k]
<1> DEFINE c == Put(ix.cache, b, r)
           new == Caching(ix, b, r)
<1>1. DOMAIN c = DOMAIN ix.cache \cup {b} /\ \A k \in DOMAIN c : c[k] = IF k = b THEN r ELSE ix.cache[k]
  BY DEF Put
<1>a. new = [ix EXCEPT !.cache = c]
  BY DEF Caching
<1> HIDE DEF c, new
<1>2. new.disk = ix.disk /\ new.pool = ix.pool /\ new.clist = ix.clist /\ new.cache = c
  BY <1>a DEF IsIndex
<1>3. GoodIndex(G, new)
  BY <1>1, <1>2 DEF GoodIndex
<1>4. QED
  BY <1>1, <1>2, <1>3 DEF new

\* What is fetched of the cached list.
LEMMA FetchGood ==
  ASSUME NEW G, NEW ix, IsIndex(ix), GoodIndex(G, ix), NEW b, NEW new \in BOOLEAN
  PROVE  GoodRecord(G, <<ix.clist, b>>, Fetch(ix, ix.clist, b, new))
<1>1. GoodRecord(G, <<ix.clist, b>>, ReadBlock(ix, ix.clist, b))
  BY ReadGood
<1>2. GoodRecord(G, <<ix.clist, b>>, NoBlock)
  BY NoBlockGood
<1>3. b \in DOMAIN ix.cache => GoodRecord(G, <<ix.clist, b>>, ix.cache[b])
  BY DEF GoodIndex
<1>4. QED
  BY <1>1, <1>2, <1>3 DEF Fetch, Cached

\* A chunk appended to a block of the cached list: the block is read back as
\* what it held and the chunk, whether or not the block is new.
LEMMA AppendGood ==
  ASSUME NEW G, NEW ix, IsIndex(ix), GoodIndex(G, ix), NEW t, t = ix.clist, t # NoTerm,
         NEW lh \in Nat, NEW hdr \in [ID : Nat, BodySize : Nat, FIDmax : Nat],
         NEW chunk \in Seq(FIDs32), chunk # <<>>, hdr.FIDmax = Last(chunk),
         \A f \in ToSet(chunk) : <<t, f>> \in G,
         NEW new \in BOOLEAN, NEW old, old = Fetch(ix, t, hdr.ID, new),
         NEW base, base = IF old.body = <<>> THEN 0 ELSE Last(Decode(old.body)),
         NEW app, app = AppendChunk(ix, t, lh, hdr, Encode(chunk, base), new)
  PROVE  /\ GoodIndex(G, app) /\ app.clist = t
         /\ hdr.ID \in DOMAIN app.cache /\ app.cache[hdr.ID].hdr = hdr
<1> DEFINE code  == Encode(chunk, base)
           block == [lh |-> IF hdr.ID = 1 THEN lh ELSE 0, hdr |-> hdr, body |-> old.body \o code]
           i1    == [ix EXCEPT !.cache = Put(@, hdr.ID, block)]
           list  == [Fetch(i1, t, 1, FALSE) EXCEPT !.lh = lh]
           i2    == IF new /\ hdr.ID # 1
                    THEN [i1 EXCEPT !.cache = UpdateListHeader(i1, t, lh)] ELSE i1
<1>1. old \in BlockRecords /\ old.body \in Seq(Nat) /\ GoodRecord(G, <<t, hdr.ID>>, old)
  <2>1. old \in BlockRecords /\ GoodRecord(G, <<t, hdr.ID>>, old)
    BY FetchType, FetchGood
  <2>2. QED
    BY <2>1 DEF BlockRecords
<1>2. base = IF old.body = <<>> THEN 0 ELSE Last(Decode(old.body))
  OBVIOUS
<1>3. app \in {i2, Sync(i2)}
  BY DEF AppendChunk, i1
<1>4. block = [lh |-> IF hdr.ID = 1 THEN lh ELSE 0, hdr |-> hdr, body |-> old.body \o code]
  OBVIOUS
<1>5. list = [Fetch(i1, t, 1, FALSE) EXCEPT !.lh = lh]
  OBVIOUS
<1>6. i1 = [ix EXCEPT !.cache = Put(@, hdr.ID, block)]
  OBVIOUS
<1>7. i2 = IF new /\ hdr.ID # 1 THEN [i1 EXCEPT !.cache = Put(@, 1, list)] ELSE i1
  BY DEF UpdateListHeader
<1> HIDE DEF code, block, i1, list, i2
<1>8. /\ code \in Seq(Nat) /\ Len(code) = Len(chunk)
      /\ Decode(old.body \o code) = Decode(old.body) \o chunk
  <2>1. code \in Seq(Nat)
    BY <1>1, <1>2, DecodeAppend DEF code
  <2>2. Len(code) = Len(chunk)
    BY <1>1, <1>2, DecodeAppend DEF code
  <2>3. Decode(old.body \o code) = Decode(old.body) \o chunk
    BY <1>1, <1>2, DecodeAppend DEF code
  <2>4. QED
    BY <2>1, <2>2, <2>3
<1>9. block \in BlockRecords /\ block.hdr = hdr /\ block.body = old.body \o code
  <2>1. old.body \o code \in Seq(Nat)
    BY <1>1, <1>8, ConcatProperties
  <2>2. QED
    BY <1>4, <2>1 DEF BlockRecords
<1>10. GoodRecord(G, <<t, hdr.ID>>, block)
  <2>1. Decode(old.body) \in Seq(FIDs32)
    BY <1>1, DecodeSums DEF SumsOf
  <2>2. Len(chunk) \in Nat \ {0} /\ Len(Decode(old.body)) \in Nat
    BY <2>1, EmptySeq
  <2> DEFINE d == Decode(old.body)
             n == Len(d)
             m == Len(chunk)
  <2>3. Len(d \o chunk) = n + m /\ \A j \in 1..m : (d \o chunk)[n + j] = chunk[j]
    <3>1. d \in Seq(FIDs32)
      BY <2>1
    <3> HIDE DEF d
    <3>2. Len(d \o chunk) = n + m
      BY <3>1
    <3>3. \A j \in 1..m : (d \o chunk)[n + j] = chunk[j]
      BY <3>1, ConcatElements
    <3>4. QED
      BY <3>2, <3>3
  <2>4. ToSet(d \o chunk) = ToSet(d) \cup ToSet(chunk)
    <3>1. d \in Seq(FIDs32)
      BY <2>1
    <3> HIDE DEF d
    <3>2. QED
      BY <3>1, ConcatElements
  <2>5. Last(d \o chunk) = Last(chunk)
    <3> HIDE DEF d
    <3>1. m \in 1..m /\ m \in Nat
      BY <2>2
    <3>2. QED
      BY <2>3, <3>1 DEF Last
  <2>6. block.body # <<>>
    <3>1. Len(block.body) = Len(old.body) + Len(code)
      <4>1. Len(old.body \o code) = Len(old.body) + Len(code)
        BY <1>1, <1>8, ConcatProperties
      <4>2. QED
        BY <1>9, <4>1
    <3>2. Len(old.body) \in Nat /\ Len(code) \in Nat \ {0}
      BY <1>1, <1>8, <2>2
    <3>3. Len(block.body) # 0
      BY <3>1, <3>2
    <3>4. QED
      BY <3>3
  <2>7. Decode(block.body) = d \o chunk
    BY <1>8, <1>9
  <2> HIDE DEF d, n, m
  <2>8. \A f \in ToSet(Decode(block.body)) : <<t, f>> \in G
    BY <1>1, <2>4, <2>7 DEF GoodRecord, d
  <2>9. hdr.FIDmax = Last(Decode(block.body))
    BY <2>5, <2>7
  <2>10. QED
    BY <1>9, <2>6, <2>8, <2>9 DEF GoodRecord
<1>11. IsIndex(i1)
  <2>1. hdr.ID \in Nat
    OBVIOUS
  <2>2. QED
    BY <1>6, <1>9, <2>1, CacheType
<1>12. /\ GoodIndex(G, i1) /\ i1.clist = t /\ DOMAIN i1.cache = DOMAIN ix.cache \cup {hdr.ID}
       /\ i1.cache[hdr.ID] = block
  <2>1. GoodRecord(G, <<ix.clist, hdr.ID>>, block)
    BY <1>10
  <2>a. i1 = Caching(ix, hdr.ID, block)
    BY <1>6 DEF Caching
  <2> DEFINE new1 == Caching(ix, hdr.ID, block)
  <2>c. GoodIndex(G, new1)
    BY <2>1, PutGood
  <2>d. new1.clist = ix.clist
    BY <2>1, PutGood
  <2>2. DOMAIN new1.cache = DOMAIN ix.cache \cup {hdr.ID}
    BY <2>1, PutGood
  <2>3. \A k \in DOMAIN ix.cache \cup {hdr.ID} :
           new1.cache[k] = IF k = hdr.ID THEN block ELSE ix.cache[k]
    BY <2>1, PutGood
  <2> HIDE DEF new1
  <2>b. i1 = new1
    BY <2>a DEF new1
  <2>4. QED
    BY <2>2, <2>3, <2>b, <2>c, <2>d
<1>13. list \in BlockRecords /\ GoodRecord(G, <<t, 1>>, list)
  <2>1. Fetch(i1, t, 1, FALSE) \in BlockRecords
    BY <1>11, FetchType
  <2>2. GoodRecord(G, <<t, 1>>, Fetch(i1, t, 1, FALSE))
    BY <1>11, <1>12, FetchGood
  <2>3. list.body = Fetch(i1, t, 1, FALSE).body /\ list.hdr = Fetch(i1, t, 1, FALSE).hdr
        /\ list \in BlockRecords
    BY <1>5, <2>1 DEF BlockRecords
  <2>4. QED
    BY <2>2, <2>3 DEF GoodRecord
<1>14. /\ IsIndex(i2) /\ GoodIndex(G, i2) /\ i2.clist = t
       /\ DOMAIN i2.cache = DOMAIN ix.cache \cup {hdr.ID} \cup (IF new /\ hdr.ID # 1 THEN {1} ELSE {})
       /\ i2.cache[hdr.ID] = block
  <2>1. CASE ~(new /\ hdr.ID # 1)
    BY <1>7, <1>11, <1>12, <2>1
  <2>2. CASE new /\ hdr.ID # 1
    <3>1. i2 = [i1 EXCEPT !.cache = Put(@, 1, list)]
      BY <1>7, <2>2
    <3>2. IsIndex(i2)
      BY <1>11, <1>12, <1>13, <3>1, CacheType
    <3>a. GoodRecord(G, <<i1.clist, 1>>, list) /\ GoodIndex(G, i1)
      BY <1>12, <1>13
    <3>c. i2 = Caching(i1, 1, list)
      BY <3>1 DEF Caching
    <3> DEFINE new2 == Caching(i1, 1, list)
    <3>b. GoodIndex(G, new2)
      BY <1>11, <3>a, PutGood
    <3>e. new2.clist = i1.clist
      BY <1>11, <3>a, PutGood
    <3>f. DOMAIN new2.cache = DOMAIN i1.cache \cup {1}
      BY <1>11, <3>a, PutGood
    <3>3. \A k \in DOMAIN i1.cache \cup {1} : new2.cache[k] = IF k = 1 THEN list ELSE i1.cache[k]
      BY <1>11, <3>a, PutGood
    <3> HIDE DEF new2
    <3>d. i2 = new2
      BY <3>c DEF new2
    <3>4. QED
      BY <1>12, <2>2, <3>2, <3>b, <3>3, <3>d, <3>e, <3>f
  <2>3. QED
    BY <2>1, <2>2
<1>15. /\ GoodIndex(G, Sync(i2)) /\ Sync(i2).clist = i2.clist /\ Sync(i2).cache = i2.cache
  <2>1. GoodIndex(G, Sync(i2))
    BY <1>14, SyncGood
  <2>2. Sync(i2).clist = i2.clist /\ Sync(i2).cache = i2.cache
    BY <1>14 DEF Sync, IsIndex
  <2>3. QED
    BY <2>1, <2>2
<1>16. /\ GoodIndex(G, app) /\ app.clist = t /\ app.cache = i2.cache
  BY <1>3, <1>14, <1>15
<1>17. QED
  BY <1>9, <1>14, <1>16

\* An append caches the block it goes to and, for the list header, the first.
LEMMA AppendCaches ==
  ASSUME NEW ix, IsIndex(ix), NEW t, NEW lh, NEW hdr, NEW code, NEW new \in BOOLEAN,
         NEW app, app = AppendChunk(ix, t, lh, hdr, code, new)
  PROVE  \A b \in DOMAIN app.cache : b \in DOMAIN ix.cache \/ b = hdr.ID \/ b = 1
<1> DEFINE block == [lh |-> IF hdr.ID = 1 THEN lh ELSE 0, hdr |-> hdr,
                     body |-> Fetch(ix, t, hdr.ID, new).body \o code]
           i1    == [ix EXCEPT !.cache = Put(ix.cache, hdr.ID, block)]
           list  == [Fetch(i1, t, 1, FALSE) EXCEPT !.lh = lh]
           i2    == [i1 EXCEPT !.cache = Put(i1.cache, 1, list)]
<1>1. app \in {i1, Sync(i1), i2, Sync(i2)}
  BY DEF AppendChunk, UpdateListHeader
<1>2. /\ DOMAIN Put(ix.cache, hdr.ID, block) = DOMAIN ix.cache \cup {hdr.ID}
      /\ DOMAIN Put(i1.cache, 1, list) = DOMAIN i1.cache \cup {1}
  <2> HIDE DEF block, i1, list
  <2>1. QED
    BY DEF Put
<1> HIDE DEF block, list
<1>3. i1.cache = Put(ix.cache, hdr.ID, block) /\ DOMAIN i1 = {"disk", "pool", "clist", "cache"}
  BY DEF IsIndex
<1> HIDE DEF i1
<1>4. i2.cache = Put(i1.cache, 1, list) /\ DOMAIN i2 = {"disk", "pool", "clist", "cache"}
  BY <1>3
<1> HIDE DEF i2
<1>5. Sync(i1).cache = i1.cache /\ Sync(i2).cache = i2.cache
  BY <1>3, <1>4 DEF Sync
<1>6. DOMAIN app.cache \subseteq DOMAIN ix.cache \cup {hdr.ID, 1}
  <2>1. app.cache = i1.cache \/ app.cache = i2.cache
    BY <1>1, <1>5
  <2>2. DOMAIN i1.cache = DOMAIN ix.cache \cup {hdr.ID}
    BY <1>2, <1>3
  <2>3. DOMAIN i2.cache = DOMAIN i1.cache \cup {1}
    BY <1>2, <1>4
  <2>4. QED
    BY <2>1, <2>2, <2>3
<1>7. QED
  BY <1>6

-----------------------------------------------------------------------------
(* IndexGenuine.                                                           *)

\* The postings that were accepted, of recordings whose fingerprint is stored.
Genuine == {p \in accepted : p[2] \in fps}

\* The block of a list that a chunk would be appended to.
Current(ix, t, b) == IF ix.clist = t THEN Fetch(ix, t, b, FALSE) ELSE ReadBlock(ix, t, b)

Phases ==
  /\ pc # "merge"
  /\ open => dbOpen
  /\ pc \in {"flush", "end"} => open
  /\ job # NoJob => pc = "flush" /\ op # "GET"

\* In a session that can write, the cached recordings have fingerprints.
CacheGenuine ==
  open => \A t \in Terms : \A f \in ToSet(cache[t]) :
            <<t, f>> \in accepted /\ (op # "GET" => f \in fps)

\* The block cache is of no list still to do.
TodoUntouched == pc = "flush" => main.clist \notin todo

\* The list under way: the indexer's idea of its last block is right, and
\* no block behind it is cached.
JobTrue ==
  job # NoJob =>
    /\ job.term \notin todo
    /\ \A f \in ToSet(job.rest) : <<job.term, f>> \in Genuine
    /\ job.hdr # NullHdr => job.hdr.ID # 0 /\ Current(main, job.term, job.hdr.ID).hdr = job.hdr
    /\ main.clist = job.term => \A b \in DOMAIN main.cache : b <= job.hdr.ID

GenuineInv == Phases /\ GoodIndex(Genuine, main) /\ CacheGenuine /\ TodoUntouched /\ JobTrue

\* The elements of a list with one more posting, and of a piece of a list.
LEMMA PieceElements ==
  ASSUME NEW s \in Seq(1..MaxFID), NEW f \in 1..MaxFID
  PROVE  /\ ToSet(Append(s, f)) = ToSet(s) \cup {f}
         /\ \A m \in 1..Len(s) + 1, n \in 0..Len(s) : ToSet(SubSeq(s, m, n)) \subseteq ToSet(s)
<1>1. Len(s) \in Nat
  OBVIOUS
<1>2. ToSet(Append(s, f)) = ToSet(s) \cup {f}
  <2>1. Len(Append(s, f)) = Len(s) + 1 /\ Append(s, f)[Len(s) + 1] = f
        /\ \A i \in 1..Len(s) : Append(s, f)[i] = s[i]
    OBVIOUS
  <2>2. 1..(Len(s) + 1) = 1..Len(s) \cup {Len(s) + 1}
    BY <1>1
  <2>3. DOMAIN Append(s, f) = 1..(Len(s) + 1) /\ DOMAIN s = 1..Len(s)
    OBVIOUS
  <2>4. QED
    BY <2>1, <2>2, <2>3 DEF ToSet
<1>3. ASSUME NEW m \in 1..Len(s) + 1, NEW n \in 0..Len(s)
      PROVE  ToSet(SubSeq(s, m, n)) \subseteq ToSet(s)
  <2> DEFINE q == SubSeq(s, m, n)
  <2>1. ASSUME NEW i \in DOMAIN q PROVE q[i] \in ToSet(s)
    <3>1. \A j \in m..n : s[j] \in 1..MaxFID
      BY <1>1, FIDsType
    <3>2. /\ q \in Seq(1..MaxFID)
          /\ Len(q) = (IF m <= n THEN n - m + 1 ELSE 0)
          /\ \A j \in 1..(n - m + 1) : q[j] = s[m + j - 1]
      <4>1. m \in Int /\ n \in Int
        BY <1>1
      <4>2. q \in Seq(1..MaxFID)
        BY <3>1, <4>1, SubSeqProperties
      <4>3. Len(q) = (IF m <= n THEN n - m + 1 ELSE 0)
        BY <3>1, <4>1, SubSeqProperties
      <4>4. \A j \in 1..(n - m + 1) : q[j] = s[m + j - 1]
        BY <3>1, <4>1, SubSeqProperties
      <4>5. QED
        BY <4>2, <4>3, <4>4
    <3>3. i \in 1..(n - m + 1) /\ m + i - 1 \in 1..Len(s)
      <4>1. DOMAIN q = 1..Len(q)
        BY <3>2
      <4>2. QED
        BY <1>1, <2>1, <3>2, <4>1
    <3>4. QED
      BY <3>2, <3>3 DEF ToSet
  <2>2. QED
    BY <2>1 DEF ToSet
<1>4. QED
  BY <1>2, <1>3

\* A session over a fresh store.
LEMMA GenuineInit == Init => GenuineInv
<1> SUFFICES ASSUME Init PROVE GenuineInv
  OBVIOUS
<1>1. GoodIndex(Genuine, main)
  BY EmptyGood DEF Init
<1>2. QED
  BY <1>1 DEF Init, GenuineInv, Phases, CacheGenuine, TodoUntouched, JobTrue

\* A flush begins with no list under way and no block cached.
LEMMA BeginFlushGenuine ==
  ASSUME TypeInv, GenuineInv, pc = "idle", NEW after, BeginFlush(cache', after),
         cache' \in [Terms -> Seq(1..MaxFID)]
  PROVE  GoodIndex(Genuine, main') /\ TodoUntouched' /\ job' = NoJob /\ pc' = "flush"
<1>1. main' = ClearCache(main) /\ todo' = {t \in Terms : cache'[t] # <<>>} /\ job' = job /\ pc' = "flush"
  BY DEF BeginFlush
<1>2. IsIndex(main) /\ GoodIndex(Genuine, main)
  BY DEF TypeInv, TypeOK, GenuineInv
<1>3. GoodIndex(Genuine, main')
  BY <1>1, <1>2, ClearGood
<1>4. main'.clist = NoTerm
  BY <1>1, <1>2 DEF ClearCache, IsIndex
<1>5. job = NoJob
  BY DEF GenuineInv, Phases
<1>6. QED
  BY <1>1, <1>3, <1>4, <1>5, TermAssumption DEF TodoUntouched

\* The next chunk of the list under way: it goes to the block the indexer has
\* in mind, and is coded against the last posting of that block.
LEMMA ChunkCoded ==
  ASSUME TypeInv, GenuineInv, job # NoJob, main.clist = job.term,
         NEW rest, rest = SubSeq(job.rest, Len(Chunk) + 1, Len(job.rest)),
         NEW body, body = Fetch(main, job.term, ChunkHeader.ID, ~Fits).body
  PROVE  /\ job.term \notin todo
         /\ \A f \in ToSet(job.rest) : <<job.term, f>> \in Genuine
         /\ job.hdr # NullHdr =>
              job.hdr.ID # 0 /\ Fetch(main, job.term, job.hdr.ID, FALSE).hdr = job.hdr
         /\ \A b \in DOMAIN main.cache : b <= job.hdr.ID
         /\ Chunk \in Seq(FIDs32) /\ Chunk # <<>>
         /\ Base \in Nat /\ ChunkHeader \in [ID : Nat, BodySize : Nat, FIDmax : Nat]
         /\ rest \in Seq(1..MaxFID) /\ ToSet(job.rest) = ToSet(Chunk) \cup ToSet(rest)
         /\ ChunkHeader.FIDmax = Last(Chunk)
         /\ ChunkHeader.ID = IF Fits THEN job.hdr.ID ELSE job.hdr.ID + 1
         /\ Base = IF body = <<>> THEN 0 ELSE Last(Decode(body))
<1> DEFINE t == job.term
<1>1. job # NoJob /\ main.clist = t
  OBVIOUS
<1>2. /\ IsIndex(main) /\ GoodIndex(Genuine, main) /\ t \in Terms
      /\ job \in [term : Terms \cup {NoTerm}, lh : Nat,
                  hdr : [ID : Nat, BodySize : Nat, FIDmax : Nat], rest : Seq(1..MaxFID)]
  BY DEF TypeInv, TypeOK, JobHasPostings, GenuineInv
<1>3. /\ t \notin todo
      /\ \A f \in ToSet(job.rest) : <<t, f>> \in Genuine
      /\ job.hdr # NullHdr => job.hdr.ID # 0 /\ Fetch(main, t, job.hdr.ID, FALSE).hdr = job.hdr
      /\ \A b \in DOMAIN main.cache : b <= job.hdr.ID
  BY <1>1 DEF GenuineInv, JobTrue, Current
<1>4. /\ Chunk \in Seq(1..MaxFID) /\ Len(Chunk) \in 1..Len(job.rest)
      /\ Base \in Nat /\ ChunkHeader \in [ID : Nat, BodySize : Nat, FIDmax : Nat]
      /\ rest \in Seq(1..MaxFID)
  BY <1>1, ChunkType
<1>5. Chunk \in Seq(FIDs32) /\ Chunk # <<>> /\ Len(job.rest) \in Nat
  <2>1. 1..MaxFID \subseteq FIDs32
    BY SessionAssumption, FidModAssumption DEF FIDs32
  <2>2. Len(Chunk) # 0 /\ Len(job.rest) \in Nat
    BY <1>2, <1>4
  <2>3. Chunk \in [1..Len(Chunk) -> FIDs32] /\ Len(Chunk) \in Nat
    <3>1. \A i \in 1..Len(Chunk) : Chunk[i] \in FIDs32
      BY <1>4, <2>1, FIDsType
    <3>2. Chunk = [i \in 1..Len(Chunk) |-> Chunk[i]] /\ Len(Chunk) \in Nat
      BY <1>4
    <3>3. QED
      BY <3>1, <3>2
  <2>4. Chunk \in Seq(FIDs32)
    BY <2>3
  <2>5. QED
    BY <2>2, <2>4
<1>6. /\ ToSet(Chunk) \subseteq ToSet(job.rest) /\ ToSet(rest) \subseteq ToSet(job.rest)
  <2> DEFINE r == job.rest
             n == IF Len(r) < ChunkLimit THEN Len(r) ELSE ChunkLimit
  <2>1. r \in Seq(1..MaxFID) /\ Len(r) \in Nat /\ Len(Chunk) \in 1..Len(r)
    BY <1>2, <1>4, <1>5
  <2>2. n \in 0..Len(r) /\ 1 \in 1..Len(r) + 1 /\ Len(Chunk) + 1 \in 1..Len(r) + 1 /\ Len(r) \in 0..Len(r)
    BY <2>1, SessionAssumption, SMTT(30)
  <2>3. Chunk = SubSeq(r, 1, n)
    BY DEF Chunk
  <2>4. 1 \in 1..MaxFID
    <3>1. r[1] \in 1..MaxFID
      BY <2>1, FIDsType
    <3>2. QED
      BY <3>1, SessionAssumption
  <2> HIDE DEF n, r
  <2>5. \A i \in 1..Len(r) + 1, j \in 0..Len(r) : ToSet(SubSeq(r, i, j)) \subseteq ToSet(r)
    BY <2>1, <2>4, PieceElements
  <2>6. QED
    BY <2>2, <2>3, <2>5 DEF r
<1>7. ChunkHeader.FIDmax = Last(Chunk) /\ ChunkHeader.ID = IF Fits THEN job.hdr.ID ELSE job.hdr.ID + 1
  BY <1>2 DEF ChunkHeader
<1>8. Base = IF body = <<>> THEN 0 ELSE Last(Decode(body))
  <2>1. CASE Fits
    <3> DEFINE old == Fetch(main, t, job.hdr.ID, FALSE)
    <3>1. GoodRecord(Genuine, <<t, job.hdr.ID>>, old)
      BY <1>1, <1>2, FetchGood
    <3>2. old.hdr = job.hdr /\ job.hdr # NullHdr /\ body = old.body /\ Base = job.hdr.FIDmax
      BY <1>3, <1>7, <2>1 DEF Fits, Base
    <3> HIDE DEF old
    <3>3. QED
      BY <3>1, <3>2 DEF GoodRecord
  <2>2. CASE ~Fits
    <3>1. ChunkHeader.ID \notin DOMAIN main.cache
      BY <1>2, <1>3, <1>7, <2>2
    <3>2. body = <<>> /\ Base = 0
      BY <2>2, <3>1 DEF Fetch, Cached, NoBlock, Base
    <3>3. QED
      BY <3>2
  <2>3. QED
    BY <2>1, <2>2
<1>9. ToSet(job.rest) \subseteq ToSet(Chunk) \cup ToSet(rest)
  <2> DEFINE r == job.rest
             n == IF Len(r) < ChunkLimit THEN Len(r) ELSE ChunkLimit
             m == Len(Chunk)
  <2>1. /\ r \in Seq(1..MaxFID) /\ Len(r) \in Nat /\ m \in 1..Len(r) /\ n \in 1..Len(r)
        /\ \A i \in 1..Len(r) : r[i] \in 1..MaxFID
    <3>1. r \in Seq(1..MaxFID) /\ Len(r) \in Nat /\ m \in 1..Len(r)
      BY <1>2, <1>4, <1>5
    <3>2. n \in 1..Len(r)
      BY <3>1, SessionAssumption, SMTT(30)
    <3>3. QED
      BY <3>1, <3>2, FIDsType
  <2>2. Chunk = SubSeq(r, 1, n) /\ rest = SubSeq(r, m + 1, Len(r))
    BY DEF Chunk
  <2> HIDE DEF r, n, m
  <2>3. m = n /\ \A i \in 1..m : Chunk[i] = r[i]
    <3>1. n \in Int /\ \A i \in 1..n : r[i] \in 1..MaxFID
      BY <2>1
    <3>2. /\ Len(SubSeq(r, 1, n)) = IF 1 <= n THEN n - 1 + 1 ELSE 0
          /\ \A i \in 1..(n - 1 + 1) : SubSeq(r, 1, n)[i] = r[1 + i - 1]
      BY <3>1, SubSeqProperties
    <3>3. QED
      BY <2>1, <2>2, <3>2 DEF m
  <2>4. /\ Len(rest) = Len(r) - m
        /\ \A i \in 1..(Len(r) - m) : rest[i] = r[m + i]
    <3>1. m + 1 \in Int /\ Len(r) \in Int /\ \A i \in (m + 1)..Len(r) : r[i] \in 1..MaxFID
      BY <2>1
    <3>2. /\ Len(SubSeq(r, m + 1, Len(r))) = IF m + 1 <= Len(r) THEN Len(r) - (m + 1) + 1 ELSE 0
          /\ \A i \in 1..(Len(r) - (m + 1) + 1) : SubSeq(r, m + 1, Len(r))[i] = r[(m + 1) + i - 1]
      BY <3>1, SubSeqProperties
    <3>3. /\ Len(r) - (m + 1) + 1 = Len(r) - m
          /\ (IF m + 1 <= Len(r) THEN Len(r) - (m + 1) + 1 ELSE 0) = Len(r) - m
          /\ \A i \in 1..(Len(r) - m) : (m + 1) + i - 1 = m + i
      BY <2>1
    <3>4. QED
      BY <2>2, <3>2, <3>3, Zenon
  <2>5. ASSUME NEW i \in 1..Len(r) PROVE r[i] \in ToSet(Chunk) \cup ToSet(rest)
    <3>1. CASE i <= m
      <4>1. i \in 1..m /\ DOMAIN Chunk = 1..m
        BY <1>4, <2>1, <3>1, LenProperties DEF m
      <4>2. QED
        BY <2>3, <4>1 DEF ToSet
    <3>2. CASE ~(i <= m)
      <4>1. i - m \in 1..(Len(r) - m) /\ m + (i - m) = i /\ DOMAIN rest = 1..(Len(r) - m)
        BY <1>4, <2>1, <2>4, <3>2, LenProperties
      <4>2. rest[i - m] = r[i]
        BY <2>4, <4>1
      <4>3. QED
        BY <4>1, <4>2 DEF ToSet
    <3>3. QED
      BY <3>1, <3>2
  <2>6. DOMAIN r = 1..Len(r)
    BY <2>1
  <2>7. QED
    BY <2>5, <2>6 DEF ToSet, r
<1>10. QED
  BY <1>3, <1>4, <1>5, <1>6, <1>7, <1>8, <1>9

\* A chunk is written where the indexer means it to go.
LEMMA EmitGenuine ==
  ASSUME TypeInv, GenuineInv, op # "BUILD_MERGE", EmitChunk
  PROVE  GoodIndex(Genuine, main') /\ JobTrue' /\ main'.clist = job.term
<1> DEFINE t    == job.term
           lh   == IF Fits THEN job.lh ELSE job.lh + 1
           code == Encode(Chunk, Base)
           rest == SubSeq(job.rest, Len(Chunk) + 1, Len(job.rest))
           body == Fetch(main, t, ChunkHeader.ID, ~Fits).body
           app  == AppendChunk(main, t, lh, ChunkHeader, code, ~Fits)
<1>1. /\ main' = app /\ main.clist = t /\ job # NoJob
      /\ job' = IF rest = <<>> THEN NoJob
                ELSE [job EXCEPT !.lh = lh, !.hdr = ChunkHeader, !.rest = rest]
      /\ UNCHANGED <<todo, accepted, fps>>
  BY DEF EmitChunk, Target, SetTarget, history
<1>2. /\ IsIndex(main) /\ GoodIndex(Genuine, main) /\ t \in Terms
      /\ job \in [term : Terms \cup {NoTerm}, lh : Nat,
                  hdr : [ID : Nat, BodySize : Nat, FIDmax : Nat], rest : Seq(1..MaxFID)]
  BY <1>1 DEF TypeInv, TypeOK, JobHasPostings, GenuineInv
<1>3. /\ t \notin todo
      /\ \A f \in ToSet(job.rest) : <<t, f>> \in Genuine
      /\ job.hdr # NullHdr => job.hdr.ID # 0
      /\ \A b \in DOMAIN main.cache : b <= job.hdr.ID
  BY <1>1, ChunkCoded
<1>4. /\ Chunk \in Seq(FIDs32) /\ Chunk # <<>>
      /\ Base \in Nat /\ ChunkHeader \in [ID : Nat, BodySize : Nat, FIDmax : Nat]
      /\ ToSet(job.rest) = ToSet(Chunk) \cup ToSet(rest)
  BY <1>1, ChunkCoded
<1>5. Chunk \in Seq(FIDs32) /\ Chunk # <<>>
  BY <1>4
<1>6. /\ ToSet(Chunk) \subseteq ToSet(job.rest) /\ ToSet(rest) \subseteq ToSet(job.rest)
  BY <1>4
<1>7. ChunkHeader.FIDmax = Last(Chunk) /\ ChunkHeader.ID = IF Fits THEN job.hdr.ID ELSE job.hdr.ID + 1
  BY <1>1, ChunkCoded
<1>8. Base = IF body = <<>> THEN 0 ELSE Last(Decode(body))
  BY <1>1, ChunkCoded
<1>9. /\ lh \in Nat /\ (~Fits) \in BOOLEAN /\ \A f \in ToSet(Chunk) : <<t, f>> \in Genuine
      /\ t # NoTerm
  BY <1>2, <1>3, <1>6, TermAssumption
<1> HIDE DEF t, lh, rest
<1> DEFINE old == Fetch(main, t, ChunkHeader.ID, ~Fits)
           new == ~Fits
           hdr == ChunkHeader
           chunk == Chunk
           base == Base
<1>10. /\ base = IF old.body = <<>> THEN 0 ELSE Last(Decode(old.body))
       /\ hdr \in [ID : Nat, BodySize : Nat, FIDmax : Nat] /\ hdr.FIDmax = Last(chunk)
       /\ chunk \in Seq(FIDs32) /\ chunk # <<>> /\ \A f \in ToSet(chunk) : <<t, f>> \in Genuine
       /\ new \in BOOLEAN
  BY <1>4, <1>5, <1>7, <1>8, <1>9
<1>11. app = AppendChunk(main, t, lh, hdr, Encode(chunk, base), new)
  OBVIOUS
<1>12. old = Fetch(main, t, hdr.ID, new)
  OBVIOUS
<1>13. t = main.clist /\ t # NoTerm /\ lh \in Nat
  BY <1>1, <1>9
<1> HIDE DEF old, new, hdr, chunk, base, app
<1>14. GoodIndex(Genuine, app) /\ app.clist = t /\ hdr.ID \in DOMAIN app.cache /\ app.cache[hdr.ID].hdr = hdr
  <2>1. IsIndex(main) /\ GoodIndex(Genuine, main)
    BY <1>2
  <2>2. chunk \in Seq(FIDs32) /\ hdr \in [ID : Nat, BodySize : Nat, FIDmax : Nat] /\ new \in BOOLEAN
    BY <1>10
  <2>3. chunk # <<>> /\ hdr.FIDmax = Last(chunk) /\ \A f \in ToSet(chunk) : <<t, f>> \in Genuine
    BY <1>10
  <2>4. base = IF old.body = <<>> THEN 0 ELSE Last(Decode(old.body))
    BY <1>10
  <2>5. QED
    BY ONLY <2>1, <2>2, <2>3, <2>4, <1>11, <1>12, <1>13, AppendGood, SMTT(30)
<1>16. \A b \in DOMAIN app.cache : b \in DOMAIN main.cache \/ b = hdr.ID \/ b = 1
  BY <1>2, <1>10, <1>11, AppendCaches
<1> HIDE DEF code, body
<1>19. JobTrue'
  <2>1. CASE rest = <<>>
    BY <1>1, <2>1 DEF JobTrue
  <2>2. CASE rest # <<>>
    <3>1. job' = [job EXCEPT !.lh = lh, !.hdr = ChunkHeader, !.rest = rest]
      BY <1>1, <2>2
    <3>2. job'.term = t /\ job'.hdr = ChunkHeader /\ job'.rest = rest
      BY <1>2, <3>1 DEF t
    <3>3. Genuine' = Genuine /\ todo' = todo
      BY <1>1 DEF Genuine
    <3>4. \A f \in ToSet(rest) : <<t, f>> \in Genuine
      BY <1>3, <1>6
    <3>5. Current(app, t, ChunkHeader.ID) = app.cache[ChunkHeader.ID]
      BY <1>14 DEF Current, hdr, Fetch, Cached
    <3>b. ChunkHeader.ID \in Nat \ {0}
      <4>1. CASE Fits
        <5>1. job.hdr # NullHdr /\ ChunkHeader.ID = job.hdr.ID
          BY <1>7, <4>1, Zenon DEF Fits
        <5>2. QED
          BY <1>2, <1>3, <5>1
      <4>2. CASE ~Fits
        <5>1. ChunkHeader.ID = job.hdr.ID + 1
          BY <1>7, <4>2, Zenon
        <5>2. QED
          BY <1>2, <5>1
      <4>3. QED
        BY <4>1, <4>2
    <3>6. \A b \in DOMAIN app.cache : b <= ChunkHeader.ID
      <4>1. ChunkHeader.ID \in Nat /\ job.hdr.ID \in Nat /\ job.hdr.ID <= ChunkHeader.ID
        BY <1>2, <1>4, <1>7
      <4>2. DOMAIN main.cache \subseteq Nat
        BY <1>2 DEF IsIndex, AreRecords
      <4>3. 1 <= ChunkHeader.ID
        BY <4>1, <3>b
      <4>4. \A b \in DOMAIN main.cache : b \in Nat /\ b <= job.hdr.ID
        BY <1>3, <4>2
      <4>5. \A b \in DOMAIN main.cache : b <= ChunkHeader.ID
        BY ONLY <4>1, <4>4
      <4>6. \A b \in DOMAIN app.cache : b \in DOMAIN main.cache \/ b = ChunkHeader.ID \/ b = 1
        BY <1>16 DEF hdr
      <4>7. QED
        BY ONLY <4>1, <4>3, <4>5, <4>6
    <3>7. Current(main', job'.term, job'.hdr.ID) = app.cache[ChunkHeader.ID]
      BY <1>1, <3>2, <3>5
    <3>8. main' = app /\ Current(main', job'.term, job'.hdr.ID).hdr = job'.hdr
      BY <1>1, <1>14, <3>2, <3>7 DEF hdr
    <3>9. job'.term \notin todo' /\ \A f \in ToSet(job'.rest) : <<job'.term, f>> \in Genuine'
      BY <1>3, <3>2, <3>3, <3>4
    <3>10. job'.hdr.ID # 0 /\ \A b \in DOMAIN main'.cache : b <= job'.hdr.ID
      BY <3>2, <3>b, <3>6, <3>8
    <3>11. QED
      BY ONLY <3>8, <3>9, <3>10 DEF JobTrue
  <2>3. QED
    BY <2>1, <2>2
<1>20. QED
  BY <1>1, <1>14, <1>19 DEF t

\* A list begins with the header of its last block, which is not cached.
LEMMA BeginGenuine ==
  ASSUME TypeInv, GenuineInv, op # "BUILD_MERGE", NEW t \in Terms, BeginList(t)
  PROVE  GoodIndex(Genuine, main') /\ JobTrue' /\ TodoUntouched' /\ Phases'
<1> DEFINE lh  == GetPListHeader(main, t)
           hdr == IF lh = 0 THEN NullHdr ELSE GetPListBlockHeader(main, t, lh)
<1>1. IsIndex(main) /\ GoodIndex(Genuine, main) /\ t \in todo /\ main.clist \notin todo
      /\ pc = "flush" /\ open /\ dbOpen
  BY DEF TypeInv, TypeOK, GenuineInv, TodoUntouched, BeginList, Phases
<1>2. UNCHANGED <<open, cache, dbOpen, op, fps, accepted>>
  BY DEF BeginList, indexer, history
<1>3. ListHeader(t) = lh /\ BlockHeader(t, lh) = GetPListBlockHeader(main, t, lh)
  BY DEF ListHeader, BlockHeader, DeltaFirst
<1>4. main' \in {main, Sync(main)}
  <2>1. main' = IF op # "GET" /\ ReadsMain(t) THEN Sync(main) ELSE main
    BY Zenon DEF BeginList
  <2>2. QED
    BY <2>1
<1>5. /\ GoodIndex(Genuine, main') /\ IsIndex(main') /\ View(main') = View(main)
      /\ main'.clist = main.clist
  <2>1. /\ GoodIndex(Genuine, Sync(main)) /\ IsIndex(Sync(main)) /\ View(Sync(main)) = View(main)
    BY <1>1, SyncGood, SyncType, SyncView
  <2>2. Sync(main).clist = main.clist
    BY <1>1 DEF IsIndex, Sync
  <2>3. QED
    BY <1>1, <1>4, <2>1, <2>2
<1>6. CASE Fail
  <2>1. pc' = "idle" /\ job' = NoJob
    BY <1>6 DEF Fail
  <2>2. QED
    BY <1>1, <1>2, <1>5, <2>1 DEF JobTrue, TodoUntouched, Phases
<1>7. CASE ~Fail
  <2>1. /\ job' = [term |-> t, lh |-> lh, hdr |-> hdr, rest |-> cache[t]]
        /\ todo' = todo \ {t} /\ UNCHANGED <<pc, ret>> /\ op # "GET"
    BY <1>3, <1>7, Zenon DEF BeginList
  <2>2. job'.term = t /\ job'.hdr = hdr /\ job'.rest = cache[t]
    BY <2>1
  <2>3. \A f \in ToSet(cache[t]) : <<t, f>> \in Genuine
    BY <1>1, <2>1 DEF GenuineInv, CacheGenuine, Genuine
  <2>4. hdr # NullHdr => hdr.ID # 0 /\ Current(main', t, hdr.ID).hdr = hdr
    <3> SUFFICES ASSUME hdr # NullHdr PROVE hdr.ID # 0 /\ Current(main', t, hdr.ID).hdr = hdr
      OBVIOUS
    <3>1. lh # 0 /\ hdr = ReadBlock(main, t, lh).hdr
      BY DEF GetPListBlockHeader
    <3> HIDE DEF lh, hdr
    <3>2. GoodRecord(Genuine, <<t, lh>>, ReadBlock(main, t, lh))
      BY <1>1, ReadGood
    <3>3. hdr.ID = lh
      BY <3>1, <3>2 DEF GoodRecord
    <3>4. Current(main', t, lh) = ReadBlock(main', t, lh)
      BY <1>1, <1>5 DEF Current
    <3>5. ReadBlock(main', t, lh) = ReadBlock(main, t, lh)
      BY <1>5 DEF ReadBlock
    <3>6. QED
      BY <3>1, <3>3, <3>4, <3>5
  <2>5. main'.clist # t
    BY <1>1, <1>5
  <2>6. Genuine' = Genuine
    BY <1>2 DEF Genuine
  <2> HIDE DEF hdr, lh
  <2>7. JobTrue'
    BY <2>1, <2>2, <2>3, <2>4, <2>5, <2>6 DEF JobTrue
  <2>8. TodoUntouched' /\ Phases'
    BY <1>1, <1>2, <1>5, <2>1 DEF TodoUntouched, Phases
  <2>9. QED
    BY <1>5, <2>7, <2>8
<1>8. QED
  BY <1>6, <1>7

\* The block cache moves to the list under way: its last block is still the
\* one the indexer has in mind.
LEMMA MoveGenuine ==
  ASSUME TypeInv, GenuineInv, op # "BUILD_MERGE", MoveCache
  PROVE  GoodIndex(Genuine, main') /\ JobTrue' /\ TodoUntouched'
<1> DEFINE t == job.term
<1>1. PICK order \in WriteOrders(main) : main' = SwitchList(main, t, order)
  BY DEF MoveCache, Target, SetTarget
<1>2. /\ IsIndex(main) /\ GoodIndex(Genuine, main) /\ job # NoJob /\ main.clist # t
      /\ UNCHANGED <<job, todo, accepted, fps, pc>>
  BY DEF TypeInv, TypeOK, GenuineInv, MoveCache, Target, call, history
<1>3. /\ t \notin todo /\ \A f \in ToSet(job.rest) : <<t, f>> \in Genuine
      /\ job.hdr # NullHdr => job.hdr.ID # 0 /\ ReadBlock(main, t, job.hdr.ID).hdr = job.hdr
  BY <1>2 DEF GenuineInv, JobTrue, Current
<1> HIDE DEF t
<1>4. /\ GoodIndex(Genuine, main') /\ main'.clist = t /\ main'.cache = NoRecords
      /\ View(main') = View(WriteCached(main, order))
  BY <1>1, <1>2, FlushGood
<1>5. \A b : ReadBlock(main', t, b) = ReadBlock(main, t, b)
  <2>1. \A b : ReadBlock(main', t, b) = ReadBlock(WriteCached(main, order), t, b)
    BY <1>4 DEF ReadBlock
  <2>2. \A b : ReadBlock(WriteCached(main, order), t, b) = ReadBlock(main, t, b)
    BY <1>2, WriteCachedRead
  <2>3. QED
    BY <2>1, <2>2
<1>6. DOMAIN main'.cache = {}
  BY <1>4 DEF NoRecords
<1>7. \A b : Current(main', t, b) = ReadBlock(main, t, b)
  BY <1>4, <1>5, <1>6 DEF Current, Fetch, Cached
<1>8. Genuine' = Genuine /\ job'.term = t
  BY <1>2 DEF Genuine, t
<1>9. JobTrue'
  BY <1>2, <1>3, <1>6, <1>7, <1>8 DEF JobTrue
<1>10. QED
  BY <1>2, <1>3, <1>4, <1>9 DEF TodoUntouched

\* Every step keeps the postings genuine, if no store is opened for a
\* build-and-merge.
LEMMA GenuineNext ==
  ASSUME "BUILD_MERGE" \notin Ops, TypeInv, GenuineInv, [Next]_vars
  PROVE  GenuineInv'
<1>1. /\ op # "BUILD_MERGE" /\ pc # "merge"
      /\ IsIndex(main) /\ GoodIndex(Genuine, main) /\ cache \in [Terms -> Seq(1..MaxFID)]
      /\ EmptyCache \in [Terms -> Seq(1..MaxFID)]
  BY DEF TypeInv, TypeOK, GenuineInv, Phases, EmptyCache
<1>2. pc # "flush" => job = NoJob
  BY DEF GenuineInv, Phases
<1>3. ASSUME Genuine \subseteq Genuine', GoodIndex(Genuine, main'),
             Phases', CacheGenuine', TodoUntouched', JobTrue'
      PROVE  GenuineInv'
  BY <1>3, GoodGrows DEF GenuineInv
<1>4. ASSUME UNCHANGED <<accepted, fps>> PROVE Genuine \subseteq Genuine'
  BY <1>4 DEF Genuine
<1>5. ASSUME pc' # "flush", job' = NoJob PROVE TodoUntouched' /\ JobTrue'
  BY <1>5 DEF TodoUntouched, JobTrue
<1>6. ASSUME open' => open, UNCHANGED <<cache, op, accepted, fps>> PROVE CacheGenuine'
  BY <1>6 DEF GenuineInv, CacheGenuine
<1>7. ASSUME cache' = EmptyCache PROVE CacheGenuine'
  <2>1. \A t \in Terms : cache'[t] = <<>>
    BY <1>7 DEF EmptyCache
  <2>2. ToSet(<<>>) = {}
    BY DEF ToSet
  <2>3. QED
    BY <2>1, <2>2 DEF CacheGenuine
<1>8. ASSUME NEW mode \in Ops, OpenStore(mode) PROVE GenuineInv'
  <2>1. ~dbOpen /\ UNCHANGED <<open, main, fps, accepted, cache, pc, job>>
    BY <1>8 DEF OpenStore, indexer, call, history
  <2>2. ~open /\ pc \notin {"flush", "end"} /\ job = NoJob
    BY <2>1 DEF GenuineInv, Phases
  <2>3. Phases' /\ CacheGenuine'
    BY <1>1, <2>1, <2>2 DEF Phases, CacheGenuine
  <2>4. QED
    BY <1>1, <1>3, <1>4, <1>5, <2>1, <2>2, <2>3
<1>9. CASE CloseStore
  <2>1. /\ ~open /\ pc = "idle" /\ main' = Sync(main)
        /\ UNCHANGED <<open, fps, accepted, cache, op, pc, job>>
    BY <1>9 DEF CloseStore, indexer, call
  <2>2. GoodIndex(Genuine, main')
    BY <1>1, <2>1, SyncGood
  <2>3. Phases' /\ CacheGenuine'
    BY <1>2, <2>1 DEF Phases, CacheGenuine
  <2>4. QED
    BY <1>2, <1>3, <1>4, <1>5, <2>1, <2>2, <2>3
<1>10. CASE Crash
  <2>1. \E n \in 0..Len(main.pool) : main' = Survivor(main, n)
    BY <1>10 DEF Crash
  <2>2. /\ open' = FALSE /\ pc' = "idle" /\ job' = NoJob
        /\ UNCHANGED <<op, fps, accepted>>
    BY <1>10, Zenon DEF Crash
  <2>3. GoodIndex(Genuine, main')
    BY <1>1, <2>1, SurvivorGood
  <2>4. Phases' /\ CacheGenuine'
    BY <2>2 DEF Phases, CacheGenuine
  <2>5. QED
    BY <1>3, <1>4, <1>5, <2>2, <2>3, <2>4
<1>11. CASE Start
  <2>1. /\ dbOpen /\ pc = "idle" /\ cache' = EmptyCache /\ open' = TRUE
        /\ UNCHANGED <<main, fps, accepted, op, pc, job, dbOpen>>
    BY <1>11 DEF Start, call
  <2>2. Phases'
    BY <1>2, <2>1 DEF Phases
  <2>3. QED
    BY <1>1, <1>2, <1>3, <1>4, <1>5, <1>7, <2>1, <2>2
<1>12. ASSUME NEW f \in 1..MaxFID, NEW ts \in Recordings, NEW emit \in BOOLEAN, Index(f, ts, emit)
       PROVE  GenuineInv'
  <2>1. /\ pc = "idle" /\ open /\ dbOpen /\ (~emit => f \in fps)
        /\ cache' = [t \in Terms |-> IF t \in ts THEN Append(cache[t], f) ELSE cache[t]]
        /\ fps' = Fingerprints(f, emit) /\ accepted' = accepted \cup (ts \X {f})
        /\ UNCHANGED <<open, dbOpen, op>>
    BY <1>12 DEF Index, GenuineInv, Phases
  <2>2. fps \subseteq fps' /\ (op # "GET" => f \in fps')
    BY <2>1 DEF Fingerprints
  <2>3. Genuine \subseteq Genuine'
    BY <2>1, <2>2 DEF Genuine
  <2>4. CacheGenuine'
    <3> SUFFICES ASSUME NEW t \in Terms, NEW g \in ToSet(cache'[t])
                 PROVE  <<t, g>> \in accepted' /\ (op # "GET" => g \in fps')
      BY <2>1 DEF CacheGenuine
    <3>1. ASSUME g \in ToSet(cache[t]) PROVE <<t, g>> \in accepted' /\ (op # "GET" => g \in fps')
      BY <2>1, <2>2, <3>1 DEF GenuineInv, CacheGenuine
    <3>2. CASE t \in ts
      <4>1. cache'[t] = Append(cache[t], f) /\ cache[t] \in Seq(1..MaxFID)
        BY <1>1, <2>1, <3>2
      <4>2. ToSet(Append(cache[t], f)) = ToSet(cache[t]) \cup {f}
        BY <4>1, PieceElements
      <4>3. g \in ToSet(cache[t]) \/ g = f
        BY <4>1, <4>2
      <4>4. <<t, f>> \in accepted'
        BY <2>1, <3>2
      <4>5. QED
        BY <2>2, <3>1, <4>3, <4>4
    <3>3. CASE t \notin ts
      BY <2>1, <3>1, <3>3
    <3>4. QED
      BY <3>2, <3>3
  <2>5. cache' \in [Terms -> Seq(1..MaxFID)]
    <3>1. \A t \in Terms : cache[t] \in Seq(1..MaxFID) /\ Append(cache[t], f) \in Seq(1..MaxFID)
      BY <1>1
    <3>2. QED
      BY <2>1, <3>1
  <2>6. CASE BeginFlush(cache', "idle")
    <3>1. GoodIndex(Genuine, main') /\ TodoUntouched' /\ job' = NoJob /\ pc' = "flush"
      BY <2>1, <2>5, <2>6, BeginFlushGenuine
    <3>2. Phases' /\ JobTrue'
      BY <2>1, <3>1 DEF Phases, JobTrue
    <3>3. QED
      BY <1>3, <2>3, <2>4, <3>1, <3>2
  <2>7. CASE UNCHANGED <<run, main, delta, call>>
    <3>1. UNCHANGED <<main, pc, job>>
      BY <2>7 DEF call
    <3>2. Phases'
      BY <1>2, <2>1, <3>1 DEF Phases
    <3>3. QED
      BY <1>1, <1>2, <1>3, <1>5, <2>1, <2>3, <2>4, <3>1, <3>2
  <2>8. QED
    BY <1>12, <2>6, <2>7 DEF Index
<1>13. CASE IndexAudioError
  <2>1. /\ pc = "idle" /\ cache' = EmptyCache
        /\ UNCHANGED <<main, fps, accepted, op, pc, job, open, dbOpen>>
    BY <1>13 DEF IndexAudioError, store, call
  <2>2. Phases'
    BY <1>2, <2>1 DEF GenuineInv, Phases
  <2>3. QED
    BY <1>1, <1>2, <1>3, <1>4, <1>5, <1>7, <2>1, <2>2
<1>14. CASE Flush
  <2>1. /\ pc = "idle" /\ open /\ dbOpen /\ cache' = cache /\ BeginFlush(cache', "idle")
        /\ UNCHANGED <<fps, accepted, op, open, dbOpen, cache>>
    BY <1>14 DEF Flush, indexer, history, GenuineInv, Phases
  <2>2. GoodIndex(Genuine, main') /\ TodoUntouched' /\ job' = NoJob /\ pc' = "flush"
    BY <1>1, <2>1, BeginFlushGenuine
  <2>3. Phases' /\ JobTrue'
    BY <2>1, <2>2 DEF Phases, JobTrue
  <2>4. QED
    BY <1>3, <1>4, <1>6, <2>1, <2>2, <2>3
<1>15. ASSUME NEW flush \in BOOLEAN, End(flush) PROVE GenuineInv'
  <2>1. /\ pc = "idle" /\ open /\ dbOpen /\ cache' = cache
        /\ UNCHANGED <<fps, accepted, op, open, dbOpen, cache>>
    BY <1>15 DEF End, indexer, GenuineInv, Phases
  <2>2. CASE BeginFlush(cache', "end")
    <3>1. GoodIndex(Genuine, main') /\ TodoUntouched' /\ job' = NoJob /\ pc' = "flush"
      BY <1>1, <2>1, <2>2, BeginFlushGenuine
    <3>2. Phases' /\ JobTrue'
      BY <2>1, <3>1 DEF Phases, JobTrue
    <3>3. QED
      BY <1>3, <1>4, <1>6, <2>1, <3>1, <3>2
  <2>3. CASE pc' = "end" /\ UNCHANGED <<run, main, delta, ret, todo, job, mtodo, mbuf>>
    <3>1. Phases'
      BY <1>2, <2>1, <2>3 DEF Phases
    <3>2. QED
      BY <1>1, <1>2, <1>3, <1>4, <1>5, <1>6, <2>1, <2>3, <3>1
  <2>4. QED
    BY <1>15, <2>1, <2>2, <2>3 DEF End
<1>16. ASSUME NEW t \in Terms, BeginList(t) PROVE GenuineInv'
  <2>1. UNCHANGED <<open, cache, op, fps, accepted>>
    BY <1>16 DEF BeginList, indexer, history
  <2>2. GoodIndex(Genuine, main') /\ JobTrue' /\ TodoUntouched' /\ Phases'
    BY <1>1, <1>16, BeginGenuine
  <2>3. QED
    BY <1>3, <1>4, <1>6, <2>1, <2>2
<1>17. CASE RejectChunk
  <2>1. /\ pc' = "idle" /\ job' = NoJob
        /\ UNCHANGED <<open, dbOpen, cache, op, fps, accepted, main>>
    BY <1>17 DEF RejectChunk, Fail, indexer, store, history
  <2>2. Phases'
    BY <2>1 DEF GenuineInv, Phases
  <2>3. QED
    BY <1>1, <1>3, <1>4, <1>5, <1>6, <2>1, <2>2
<1>18. CASE MoveCache
  <2>1. UNCHANGED <<open, dbOpen, cache, op, fps, accepted, pc, job>>
    BY <1>18 DEF MoveCache, indexer, call, history
  <2>2. GoodIndex(Genuine, main') /\ JobTrue' /\ TodoUntouched'
    BY <1>1, <1>18, MoveGenuine
  <2>3. Phases'
    BY <2>1 DEF GenuineInv, Phases
  <2>4. QED
    BY <1>3, <1>4, <1>6, <2>1, <2>2, <2>3
<1>19. CASE EmitChunk
  <2>1. /\ pc = "flush" /\ job # NoJob
        /\ UNCHANGED <<open, dbOpen, cache, op, fps, accepted, pc, todo>>
    BY <1>19 DEF EmitChunk, indexer, history
  <2>2. GoodIndex(Genuine, main') /\ JobTrue' /\ main'.clist = job.term
    BY <1>1, <1>19, EmitGenuine
  <2>3. Phases' /\ TodoUntouched'
    BY <2>1, <2>2 DEF GenuineInv, Phases, JobTrue, TodoUntouched
  <2>4. QED
    BY <1>3, <1>4, <1>6, <2>1, <2>2, <2>3
<1>20. CASE EndFlush
  <2>1. /\ pc = "flush" /\ open /\ dbOpen /\ job = NoJob /\ cache' = EmptyCache /\ pc' = ret
        /\ ret \in {"idle", "end"} /\ UNCHANGED <<open, dbOpen, op, fps, accepted, job>>
    <3>1. ret \in {"idle", "end"}
      BY DEF TypeInv, TypeOK
    <3>2. /\ pc = "flush" /\ job = NoJob /\ cache' = EmptyCache /\ pc' = ret
          /\ UNCHANGED <<open, dbOpen, op, fps, accepted, job>>
      BY <1>20 DEF EndFlush, history
    <3>3. open /\ dbOpen
      BY <3>2 DEF GenuineInv, Phases
    <3>4. QED
      BY <3>1, <3>2, <3>3
  <2>2. PICK order \in WriteOrders(main) : main' = FlushBlockCache(main, order)
    BY <1>1, <1>20 DEF EndFlush, Target, SetTarget
  <2>3. GoodIndex(Genuine, main')
    BY <1>1, <2>2, FlushGood
  <2>4. Phases'
    BY <2>1 DEF Phases
  <2>5. QED
    BY <1>3, <1>4, <1>5, <1>7, <2>1, <2>3, <2>4
<1>21. CASE EndSession
  <2>1. /\ pc = "end" /\ open' = FALSE /\ pc' = "idle"
        /\ UNCHANGED <<dbOpen, cache, op, fps, accepted, main, job>>
    BY <1>1, <1>21 DEF EndSession
  <2>2. Phases'
    BY <1>2, <2>1 DEF Phases
  <2>3. QED
    BY <1>1, <1>2, <1>3, <1>4, <1>5, <1>6, <2>1, <2>2
<1>22. ~(\E k \in mtodo : MergeRecord(k)) /\ ~EndMerge
  BY <1>1 DEF MergeRecord, EndMerge
<1>23. CASE UNCHANGED vars
  <2>1. UNCHANGED <<open, dbOpen, cache, op, fps, accepted, main, job, todo, pc>>
    BY <1>23 DEF vars, indexer, store, call, history
  <2>2. Phases' /\ TodoUntouched' /\ JobTrue'
    BY <2>1 DEF GenuineInv, Phases, TodoUntouched, JobTrue, Genuine
  <2>3. QED
    BY <1>1, <1>3, <1>4, <1>6, <2>1, <2>2
<1>24. QED
  BY <1>8, <1>9, <1>10, <1>11, <1>12, <1>13, <1>14, <1>15, <1>16, <1>17, <1>18, <1>19, <1>20,
     <1>21, <1>22, <1>23 DEF Next

\* What a reader finds is a record of the index.
LEMMA GenuinePostings ==
  ASSUME TypeInv, GenuineInv
  PROVE  IndexGenuine
<1>1. IsIndex(main) /\ GoodIndex(Genuine, main)
  BY DEF TypeInv, TypeOK, GenuineInv
<1> DEFINE V == View(main)
<1>2. IsFiniteSet(DOMAIN V) /\ GoodRecords(Genuine, V) /\ AreRecords(V, Keys)
  BY <1>1, ReadGood, OverlayType DEF IsIndex, View
<1> HIDE DEF V
<1>3. ASSUME NEW t \in Terms, NEW f \in ToSet(Postings(main, t)) PROVE <<t, f>> \in Genuine
  <2> DEFINE ids    == {k[2] : k \in {q \in DOMAIN V : q[1] = t}}
             blocks == BlocksOf(V, t)
  <2>1. DOMAIN blocks = ids /\ \A b \in ids : blocks[b] = V[<<t, b>>]
    BY Zenon DEF BlocksOf
  <2>2. \A b \in ids : <<t, b>> \in DOMAIN V
    <3>1. \A k \in DOMAIN V : k = <<k[1], k[2]>>
      BY <1>2 DEF AreRecords, Keys
    <3>2. QED
      BY <3>1
  <2>3. IsFiniteSet(ids)
    <3> DEFINE K == {q \in DOMAIN V : q[1] = t}
               f2 == [k \in K |-> k[2]]
    <3>1. IsFiniteSet(K)
      BY <1>2, FS_Subset
    <3>2. f2 \in Surjection(K, ids)
      BY DEF Surjection
    <3> HIDE DEF K, f2, ids
    <3>3. QED
      BY <3>1, <3>2, FS_Surjection
  <2> HIDE DEF ids, blocks
  <2>4. \A b \in DOMAIN blocks : blocks[b].body \in Seq(Nat)
    BY <1>2, <2>1, <2>2 DEF AreRecords, BlockRecords
  <2>5. Postings(main, t) = ListOf(blocks)
    BY DEF Postings, V, blocks
  <2>6. PICK b \in DOMAIN blocks : f \in ToSet(Decode(blocks[b].body))
    BY <1>3, <2>1, <2>3, <2>4, <2>5, ListElements
  <2>7. GoodRecord(Genuine, <<t, b>>, blocks[b])
    BY <1>2, <2>1, <2>2 DEF GoodRecords
  <2>8. QED
    BY <2>6, <2>7 DEF GoodRecord
<1>4. PostingSet(main) \subseteq Genuine
  BY <1>3 DEF PostingSet
<1>5. QED
  BY <1>4 DEF IndexGenuine, NoPhantomPosting, IndexedHaveFingerprints, Genuine

\* Whatever is found in the live index was indexed there, and has its
\* fingerprint in the store: for any number of sessions, of any lists, chunk
\* and block limits, and any number of crashes at any point, each keeping any
\* prefix of the pending writes; in a store that is opened for reading and
\* for building.
THEOREM GenuineIndex ==
  ASSUME "BUILD_MERGE" \notin Ops
  PROVE  Spec => []IndexGenuine
<1>1. TypeInv /\ GenuineInv /\ [Next]_vars => (TypeInv /\ GenuineInv)'
  BY NextType, GenuineNext
<1>2. Init => TypeInv /\ GenuineInv
  BY InitType, GenuineInit
<1>3. TypeInv /\ GenuineInv => IndexGenuine
  BY GenuinePostings
<1>4. QED
  BY <1>1, <1>2, <1>3, PTL DEF Spec

-----------------------------------------------------------------------------
(***************************************************************************)
(* Proofs of AckedKept and ListsSound of IndexingSession, for any lists,   *)
(* limits and sessions: what an ended session stored stays, whatever the   *)
(* crashes; and, without crashes, headers tell the truth and the lists     *)
(* increase.                                                               *)
(*                                                                         *)
(* A posting of an ended session is Stored: it is Here, in a block that    *)
(* counts and that a reader comes to, or it is Lost, behind a gap a crash  *)
(* left in its list.  An index Continues another if nothing that was Here  *)
(* or Lost changes, in what the process reads and in what a crash at any   *)
(* point would keep; every step but a crash is one, because a chunk        *)
(* extends the last block that counts or starts the one behind it.         *)
(* KeptInv adds where the postings of a session are until they are Stored. *)
(*                                                                         *)
(* The records of a list are Tidy: exactly the blocks that count are       *)
(* there, each rises and is below those after it.  They are so in what the *)
(* process reads and in what would be written.  The indexer keeps them so  *)
(* because a posting it appends is above all that is written: it was when  *)
(* a careful client chose its number, or, with chunks of one posting,      *)
(* because ValidChunk compares it with the last one of the list.           *)
(***************************************************************************)

-----------------------------------------------------------------------------
(* A posting in the records r of an index.                                 *)

\* The posting is in one of the blocks that count.
Here(r, t, f) == \E b \in 1..CountIn(r, t) : Holds(r, t, b, f)

\* The list has a gap, and a reader does not find the posting before it.
Gap(r, t) == \E g \in 1..CountIn(r, t) : ~Has(r, t, g)

Lost(r, t, f) == Gap(r, t) /\ ~ReadIn(r, t, f)

Stored(r, t, f) == Here(r, t, f) \/ Lost(r, t, f)

\* What is in the list stays there, and what is lost stays lost.
Keeps(r, s) ==
  \A t, f : /\ Here(r, t, f) => Here(s, t, f)
            /\ Lost(r, t, f) => Lost(s, t, f)

\* A posting of a block that counts is stored.
LEMMA StoredIf ==
  ASSUME NEW r, CountsAreNat(r), NEW t, NEW b \in 1..CountIn(r, t), NEW f \in FIDsOf(r[<<t, b>>])
  PROVE  Stored(r, t, f)
<1>1. CountIn(r, t) \in Nat /\ b \in Nat \ {0}
  BY DEF CountsAreNat
<1>2. CASE \A n \in 1..b : Has(r, t, n)
  BY <1>2 DEF Stored, Here, Holds
<1>3. CASE ~\A n \in 1..b : Has(r, t, n)
  <2>1. PICK g \in 1..b : ~Has(r, t, g)
    BY <1>3
  <2>2. g \in 1..CountIn(r, t)
    BY <1>1, <2>1
  <2>3. ASSUME ReadIn(r, t, f) PROVE Here(r, t, f)
    <3>1. PICK d \in Nat \ {0} : Holds(r, t, d, f)
      BY <2>3 DEF ReadIn
    <3>2. ~(g <= d)
      BY <2>1, <3>1 DEF Holds
    <3>3. d \in 1..CountIn(r, t)
      BY <1>1, <2>1, <2>2, <3>1, <3>2
    <3>4. QED
      BY <3>1, <3>3 DEF Here
  <2>4. QED
    BY <2>1, <2>2, <2>3 DEF Stored, Lost, Gap
<1>4. QED
  BY <1>2, <1>3

-----------------------------------------------------------------------------
(* Blocks written over the records of an index.                            *)

\* The blocks S of the cache c of list t over the records r.
Over(r, t, c, S) ==
  [k \in DOMAIN r \cup {<<t, b>> : b \in S} |->
     IF k \in {<<t, b>> : b \in S} THEN c[k[2]] ELSE r[k]]

IsCache(c) == DOMAIN c \subseteq Nat /\ (1 \in DOMAIN c => c[1].lh \in Nat)

\* The cached blocks of a list continue the records: the last block that
\* counts is extended, those before are kept, others are new, and the list
\* header never goes back.
Extending(r, t, c) ==
  /\ \A b \in DOMAIN c :
       /\ b # 0 /\ c[b].body # <<>>
       /\ b <= CountIn(r, t) =>
            /\ Has(r, t, b)
            /\ FIDsOf(r[<<t, b>>]) \subseteq FIDsOf(c[b])
            /\ b < CountIn(r, t) => c[b].body = r[<<t, b>>].body
  /\ 1 \in DOMAIN c => CountIn(r, t) <= c[1].lh

\* The records of a list with cached blocks written over them.
LEMMA OverRecords ==
  ASSUME NEW r, NEW t, NEW c, NEW S, NEW s, s = Over(r, t, c, S), NEW u, NEW b
  PROVE  /\ Has(s, u, b) <=> Has(r, u, b) \/ (u = t /\ b \in S)
         /\ Has(s, u, b) => s[<<u, b>>] = IF u = t /\ b \in S THEN c[b] ELSE r[<<u, b>>]
<1>1. DOMAIN s = DOMAIN r \cup {<<t, d>> : d \in S}
  BY Zenon DEF Over
<1>2. \A k \in DOMAIN s : s[k] = IF k \in {<<t, d>> : d \in S} THEN c[k[2]] ELSE r[k]
  BY <1>1, Zenon DEF Over
<1>3. <<u, b>>[2] = b
  OBVIOUS
<1>4. <<u, b>> \in {<<t, d>> : d \in S} <=> u = t /\ b \in S
  OBVIOUS
<1>5. Has(s, u, b) <=> Has(r, u, b) \/ (u = t /\ b \in S)
  BY <1>1, <1>4 DEF Has
<1>6. Has(s, u, b) => s[<<u, b>>] = IF u = t /\ b \in S THEN c[b] ELSE r[<<u, b>>]
  BY <1>2, <1>3, <1>4 DEF Has
<1>7. QED
  BY <1>5, <1>6

\* However many of the cached blocks are written, what is in a list stays.
LEMMA OverKeeps ==
  ASSUME NEW r, CountsAreNat(r), NEW t, NEW c, IsCache(c), Extending(r, t, c),
         NEW S \in SUBSET DOMAIN c
  PROVE  CountsAreNat(Over(r, t, c, S)) /\ Keeps(r, Over(r, t, c, S))
<1> USE DEF IsCache
<1> DEFINE s == Over(r, t, c, S)
<1>0. s = Over(r, t, c, S)
  OBVIOUS
<1> HIDE DEF s
<1>1. \A u, b : /\ Has(s, u, b) <=> Has(r, u, b) \/ (u = t /\ b \in S)
                /\ Has(s, u, b) => s[<<u, b>>] = IF u = t /\ b \in S THEN c[b] ELSE r[<<u, b>>]
  <2>1. ASSUME NEW u, NEW b
        PROVE  /\ Has(s, u, b) <=> Has(r, u, b) \/ (u = t /\ b \in S)
               /\ Has(s, u, b) => s[<<u, b>>] = IF u = t /\ b \in S THEN c[b] ELSE r[<<u, b>>]
    BY <1>0, OverRecords DEF Has
  <2>2. QED
    BY <2>1
<1>a. \A b \in S : b \in DOMAIN c /\ (b <= CountIn(r, t) => Has(r, t, b))
  BY DEF Extending
<1>2. ASSUME NEW u PROVE CountIn(s, u) \in Nat /\ CountIn(r, u) \in Nat /\ CountIn(r, u) <= CountIn(s, u)
  <2>1. CountIn(r, u) \in Nat
    BY DEF CountsAreNat
  <2>2. CASE u = t /\ 1 \in S
    <3>1. CountIn(s, u) = c[1].lh /\ 1 \in DOMAIN c
      BY <1>1, <2>2 DEF CountIn
    <3>2. QED
      BY <2>1, <2>2, <3>1 DEF Extending
  <2>3. CASE ~(u = t /\ 1 \in S)
    <3>1. CountIn(s, u) = CountIn(r, u)
      BY <1>1, <2>3 DEF CountIn
    <3>2. QED
      BY <2>1, <3>1
  <2>4. QED
    BY <2>2, <2>3
<1>3. ASSUME NEW u, NEW f, Here(r, u, f) PROVE Here(s, u, f)
  <2>1. PICK b \in 1..CountIn(r, u) : Holds(r, u, b, f)
    BY <1>3 DEF Here
  <2>2. b \in 1..CountIn(s, u) /\ b <= CountIn(r, u) /\ b \in 1..b
    BY <1>2
  <2>3. \A n \in 1..b : Has(s, u, n)
    BY <1>1, <2>1 DEF Holds
  <2>4. f \in FIDsOf(s[<<u, b>>])
    <3>1. CASE u = t /\ b \in S
      <4>1. s[<<u, b>>] = c[b] /\ FIDsOf(r[<<u, b>>]) \subseteq FIDsOf(c[b])
        BY <1>1, <2>2, <2>3, <3>1 DEF Extending
      <4>2. QED
        BY <2>1, <4>1 DEF Holds
    <3>2. CASE ~(u = t /\ b \in S)
      <4>1. s[<<u, b>>] = r[<<u, b>>]
        BY <1>1, <2>2, <2>3, <3>2
      <4>2. QED
        BY <2>1, <4>1 DEF Holds
    <3>3. QED
      BY <3>1, <3>2
  <2>5. QED
    BY <2>2, <2>3, <2>4 DEF Here, Holds
<1>4. ASSUME NEW u, NEW f, Lost(r, u, f) PROVE Lost(s, u, f)
  <2>1. PICK g \in 1..CountIn(r, u) : ~Has(r, u, g)
    BY <1>4 DEF Lost, Gap
  <2>2. g \in Nat /\ g <= CountIn(r, u) /\ g \in 1..CountIn(s, u)
    BY <1>2
  <2>3. ~Has(s, u, g)
    BY <1>1, <1>a, <2>1, <2>2 DEF Has
  <2>4. ASSUME NEW b \in Nat \ {0}, Holds(s, u, b, f) PROVE FALSE
    <3>1. b < g
      BY <2>2, <2>3, <2>4, g \in 1..b \/ b < g DEF Holds
    <3>2. ASSUME NEW n \in 1..b PROVE Has(r, u, n)
      <4>1. n < CountIn(r, u) /\ n \in Nat
        BY <1>2, <2>2, <3>1
      <4>2. Has(s, u, n)
        BY <2>4 DEF Holds
      <4>3. QED
        BY <1>1, <1>a, <1>2, <4>1, <4>2 DEF Has
    <3>3. f \in FIDsOf(r[<<u, b>>])
      <4>1. b \in 1..b /\ Has(s, u, b) /\ b < CountIn(r, u) /\ b <= CountIn(r, u) /\ f \in FIDsOf(s[<<u, b>>])
        BY <1>2, <2>2, <2>4, <3>1 DEF Holds
      <4>2. CASE u = t /\ b \in S
        <5>1. s[<<u, b>>].body = r[<<u, b>>].body
          BY <1>1, <4>1, <4>2 DEF Extending
        <5>2. QED
          BY <4>1, <5>1 DEF FIDsOf
      <4>3. CASE ~(u = t /\ b \in S)
        BY <1>1, <4>1, <4>3
      <4>4. QED
        BY <4>2, <4>3
    <3>4. QED
      BY <1>4, <3>2, <3>3 DEF Lost, ReadIn, Holds
  <2>5. QED
    BY <2>2, <2>3, <2>4 DEF Lost, Gap, ReadIn
<1>5. QED
  BY <1>2, <1>3, <1>4 DEF CountsAreNat, Keeps, s

-----------------------------------------------------------------------------
(* What a crash may keep of an index.                                      *)

\* The records when the first n pending writes are on top of the stored ones.
Remain(ix, n) == Overlay(ix.disk, SubSeq(ix.pool, 1, n))

Remains(ix) == {Remain(ix, n) : n \in 0..Len(ix.pool)}

\* The records once the block cache is written out.
Written(ix) == Over(View(ix), ix.clist, ix.cache, DOMAIN ix.cache)

\* The pool more is the pool and m writes after it, of the blocks o[1], ... of
\* the cache c of list t.
Writes(pool, more, m, t, o, c) ==
  /\ pool \in Seq(Keys \X BlockRecords) /\ more \in Seq(Keys \X BlockRecords)
  /\ m \in Nat /\ Len(more) = Len(pool) + m
  /\ \A i \in 1..Len(pool) : more[i] = pool[i]
  /\ \A j \in 1..m : more[Len(pool) + j] = <<<<t, o[j]>>, c[o[j]]>>

\* Pending writes of cached blocks on top of others.
LEMMA OverlayOver ==
  ASSUME NEW disk, NEW pool, NEW more, NEW m, NEW t, NEW o, NEW c,
         Writes(pool, more, m, t, o, c), NEW S, S = {o[j] : j \in 1..m}
  PROVE  Overlay(disk, more) = Over(Overlay(disk, pool), t, c, S)
<1> USE DEF Writes
<1> DEFINE W == {<<t, b>> : b \in S}
           L == Len(pool)
           old == Overlay(disk, pool)
           new == Overlay(disk, more)
<1>1. /\ L \in Nat /\ DOMAIN pool = 1..L /\ DOMAIN more = 1..(L + m)
  BY LenProperties
<1>2. ASSUME NEW i \in 1..(L + m), i \notin 1..L
      PROVE  \E j \in 1..m : i = L + j /\ more[i] = <<<<t, o[j]>>, c[o[j]]>>
  <2>1. i - L \in 1..m /\ i = L + (i - L)
    BY <1>1, <1>2
  <2>2. QED
    BY <2>1
<1>3. \A j \in 1..m : L + j \in 1..(L + m)
  BY <1>1
<1>4. 1..L \subseteq 1..(L + m)
  BY <1>1
<1>5. DOMAIN old = DOMAIN disk \cup {pool[i][1] : i \in 1..L}
  BY <1>1, Zenon DEF Overlay
<1>6. DOMAIN new = DOMAIN disk \cup {more[i][1] : i \in 1..(L + m)}
  BY <1>1, Zenon DEF Overlay
<1>7. \A k \in DOMAIN old :
        old[k] = IF PendingOn(pool, k) = {} THEN disk[k] ELSE pool[Max(PendingOn(pool, k))][2]
  BY Zenon DEF Overlay
<1>8. \A k \in DOMAIN new :
        new[k] = IF PendingOn(more, k) = {} THEN disk[k] ELSE more[Max(PendingOn(more, k))][2]
  BY Zenon DEF Overlay
<1> HIDE DEF L, old, new
<1>9. {more[i][1] : i \in 1..(L + m)} = {pool[i][1] : i \in 1..L} \cup W
  <2>1. ASSUME NEW i \in 1..(L + m) PROVE more[i][1] \in {pool[n][1] : n \in 1..L} \cup W
    <3>1. CASE i \in 1..L
      BY <3>1 DEF L
    <3>2. CASE i \notin 1..L
      <4>1. PICK j \in 1..m : more[i] = <<<<t, o[j]>>, c[o[j]]>>
        BY <1>2, <3>2
      <4>2. more[i][1] = <<t, o[j]>> /\ o[j] \in S
        BY <4>1
      <4>3. QED
        BY <4>2
    <3>3. QED
      BY <3>1, <3>2
  <2>2. ASSUME NEW i \in 1..L PROVE pool[i][1] \in {more[n][1] : n \in 1..(L + m)}
    <3>1. more[i] = pool[i] /\ i \in 1..(L + m)
      BY <1>4 DEF L
    <3>2. QED
      BY <3>1
  <2>3. ASSUME NEW j \in 1..m PROVE <<t, o[j]>> \in {more[n][1] : n \in 1..(L + m)}
    <3>1. more[L + j] = <<<<t, o[j]>>, c[o[j]]>> /\ L + j \in 1..(L + m)
      BY <1>3 DEF L
    <3>2. more[L + j][1] = <<t, o[j]>>
      BY <3>1
    <3>3. QED
      BY <3>1, <3>2
  <2>4. W = {<<t, o[j]>> : j \in 1..m}
    OBVIOUS
  <2> DEFINE A == {more[i][1] : i \in 1..(L + m)}
             B == {pool[i][1] : i \in 1..L}
  <2>5. A \subseteq B \cup W
    BY <2>1
  <2>6. B \subseteq A
    BY <2>2
  <2>7. W \subseteq A
    BY <2>3, <2>4
  <2>8. QED
    BY <2>5, <2>6, <2>7
<1>10. ASSUME NEW k \in DOMAIN new, k \in W PROVE new[k] = c[k[2]]
  <2>1. PICK j \in 1..m : k = <<t, o[j]>>
    BY <1>10
  <2>2. L + j \in PendingOn(more, k)
    BY <1>1, <1>3, <2>1 DEF PendingOn, L
  <2>3. PendingOn(more, k) \in SUBSET (1..(L + m)) /\ L + m \in Nat
    BY <1>1 DEF PendingOn
  <2> DEFINE x == Max(PendingOn(more, k))
  <2>4. x \in PendingOn(more, k) /\ x >= L + j
    BY <2>2, <2>3, MaxInSet
  <2> HIDE DEF x
  <2>5. x \in 1..(L + m) /\ x \notin 1..L /\ more[x][1] = k
    BY <1>1, <2>3, <2>4 DEF PendingOn
  <2>6. PICK n \in 1..m : more[x] = <<<<t, o[n]>>, c[o[n]]>>
    BY <1>2, <2>5
  <2>7. o[n] = k[2] /\ more[x][2] = c[o[n]]
    BY <2>5, <2>6
  <2>8. new[k] = more[x][2]
    BY <1>8, <2>2 DEF x
  <2>9. QED
    BY <2>7, <2>8
<1>11. ASSUME NEW k \in DOMAIN old, k \notin W PROVE k \in DOMAIN new /\ new[k] = old[k]
  <2>1. k \in DOMAIN new
    BY <1>5, <1>6, <1>9
  <2>2. PendingOn(more, k) = PendingOn(pool, k)
    <3>1. ASSUME NEW i \in 1..(L + m), i \notin 1..L PROVE more[i][1] # k
      <4>1. PICK j \in 1..m : more[i] = <<<<t, o[j]>>, c[o[j]]>>
        BY <1>2, <3>1
      <4>2. more[i][1] = <<t, o[j]>> /\ <<t, o[j]>> \in W
        BY <4>1
      <4>3. QED
        BY <1>11, <4>2
    <3>2. \A i \in 1..L : more[i] = pool[i]
      BY DEF L
    <3>3. QED
      BY <1>1, <1>4, <3>1, <3>2 DEF PendingOn
  <2>3. CASE PendingOn(pool, k) = {}
    BY <1>7, <1>8, <2>1, <2>2, <2>3
  <2>4. CASE PendingOn(pool, k) # {}
    <3> DEFINE x == Max(PendingOn(pool, k))
    <3>1. PendingOn(pool, k) \in SUBSET (1..L)
      BY <1>1 DEF PendingOn
    <3>2. x \in 1..L
      BY <1>1, <2>4, <3>1, MaxInSet
    <3> HIDE DEF x
    <3>3. more[x] = pool[x]
      BY <3>2 DEF L
    <3>4. new[k] = more[x][2] /\ old[k] = pool[x][2]
      BY <1>7, <1>8, <2>1, <2>2, <2>4 DEF x
    <3>5. QED
      BY <2>1, <3>3, <3>4
  <2>5. QED
    BY <2>3, <2>4
<1>12. DOMAIN new = DOMAIN old \cup W
  BY <1>5, <1>6, <1>9
<1>13. \A k \in DOMAIN new : new[k] = IF k \in W THEN c[k[2]] ELSE old[k]
  BY <1>10, <1>11, <1>12
<1>14. new = [k \in DOMAIN old \cup W |-> IF k \in W THEN c[k[2]] ELSE old[k]]
  <2>1. new = [k \in DOMAIN new |-> new[k]]
    BY Zenon DEF new, Overlay
  <2>2. QED
    BY <1>12, <1>13, <2>1
<1>15. QED
  BY <1>14 DEF Over, new, old

\* What the process reads is one of them.
LEMMA RemainAll ==
  ASSUME NEW ix, IsIndex(ix)
  PROVE  View(ix) \in Remains(ix) /\ View(ix) = Remain(ix, Len(ix.pool))
<1>1. ix.pool \in Seq(Keys \X BlockRecords) /\ Len(ix.pool) \in 0..Len(ix.pool)
  BY LenProperties DEF IsIndex
<1>2. View(ix) = Remain(ix, Len(ix.pool))
  BY <1>1, SubSeqFull, Zenon DEF View, Remain
<1>3. QED
  BY <1>1, <1>2 DEF Remains

\* A pool with nothing pending.
LEMMA RemainNone ==
  ASSUME NEW ix, IsIndex(ix), ix.pool = <<>>
  PROVE  Remains(ix) = {View(ix)}
<1>1. Len(ix.pool) = 0 /\ 0..0 = {0}
  OBVIOUS
<1>2. \A n \in 0..Len(ix.pool) : Remain(ix, n) = View(ix)
  BY <1>1, RemainAll
<1>3. QED
  BY <1>1, <1>2 DEF Remains

\* An order in which the cache may be written out has all its blocks.
LEMMA OrderComplete ==
  ASSUME NEW ix, IsIndex(ix), NEW order \in WriteOrders(ix)
  PROVE  {order[j] : j \in 1..Len(order)} = DOMAIN ix.cache
<1> DEFINE S == DOMAIN ix.cache
           n == Cardinality(S)
<1>1. IsFiniteSet(S) /\ n \in Nat
  BY FS_CardinalityType DEF IsIndex
<1>2. order \in [1..n -> S] /\ \A i, j \in 1..n : i # j => order[i] # order[j]
  BY DEF WriteOrders, SetToSeqs
<1> HIDE DEF n
<1>3. order \in Injection(1..n, S)
  BY <1>2 DEF Injection, IsInjective
<1>4. IsFiniteSet(1..n) /\ Cardinality(1..n) = n
  BY <1>1, FS_Interval
<1>5. order \in Surjection(1..n, S)
  BY <1>3, <1>1, <1>4, FS_Injection DEF n
<1>6. Len(order) = n
  BY <1>1, <1>2
<1>7. QED
  BY <1>2, <1>5, <1>6 DEF Surjection

\* The block cache is written out, in any order: what is read is what was
\* to be written, and a crash keeps what it would have kept before, or some
\* of the cached blocks.
LEMMA WrittenRemains ==
  ASSUME NEW ix, IsIndex(ix), NEW order \in WriteOrders(ix),
         NEW new, new = WriteCached(ix, order)
  PROVE  /\ View(new) = Written(ix)
         /\ \A r \in Remains(new) :
              \/ r \in Remains(ix)
              \/ \E S \in SUBSET DOMAIN ix.cache : r = Over(View(ix), ix.clist, ix.cache, S)
<1> DEFINE L == Len(ix.pool)
           KB == Keys \X BlockRecords
<1>1. /\ new.disk = ix.disk /\ Len(order) \in Nat /\ Len(new.pool) = L + Len(order)
      /\ \A i \in 1..L : new.pool[i] = ix.pool[i]
  BY CachedWrites
<1>2. \A i \in 1..Len(order) :
         /\ order[i] \in DOMAIN ix.cache
         /\ new.pool[L + i] = <<<<ix.clist, order[i]>>, ix.cache[order[i]]>>
  BY CachedWrites
<1>3. ix.pool \in Seq(KB) /\ L \in Nat /\ new.pool \in Seq(KB) /\ IsIndex(new)
  <2>1. IsIndex(new)
    BY WriteCachedType
  <2>2. QED
    BY <2>1, LenProperties DEF IsIndex
<1>4. ASSUME NEW n \in 0..Len(new.pool)
      PROVE  /\ SubSeq(new.pool, 1, n) \in Seq(KB) /\ Len(SubSeq(new.pool, 1, n)) = n
             /\ \A i \in 1..n : SubSeq(new.pool, 1, n)[i] = new.pool[i]
  <2> DEFINE s == new.pool
  <2>1. s \in Seq(KB) /\ n \in Nat /\ \A i \in 1..n : s[i] \in KB
    BY <1>3, ElementOfSeq, LenProperties
  <2> HIDE DEF s, KB
  <2>2. /\ SubSeq(s, 1, n) \in Seq(KB)
        /\ Len(SubSeq(s, 1, n)) = IF 1 <= n THEN n - 1 + 1 ELSE 0
        /\ \A i \in 1..(n - 1 + 1) : SubSeq(s, 1, n)[i] = s[1 + i - 1]
    BY <2>1, SubSeqProperties
  <2>3. QED
    BY <2>1, <2>2 DEF s
<1>5. ASSUME NEW n \in 0..L PROVE Remain(new, n) \in Remains(ix)
  <2>1. n \in 0..Len(new.pool) /\ n \in Nat
    BY <1>1, <1>3
  <2>2. /\ SubSeq(ix.pool, 1, n) \in Seq(KB) /\ Len(SubSeq(ix.pool, 1, n)) = n
        /\ \A i \in 1..n : SubSeq(ix.pool, 1, n)[i] = ix.pool[i]
    <3> DEFINE s == ix.pool
    <3>1. s \in Seq(KB) /\ \A i \in 1..n : s[i] \in KB
      BY <1>3, ElementOfSeq, LenProperties
    <3> HIDE DEF s, KB
    <3>2. /\ SubSeq(s, 1, n) \in Seq(KB)
          /\ Len(SubSeq(s, 1, n)) = IF 1 <= n THEN n - 1 + 1 ELSE 0
          /\ \A i \in 1..(n - 1 + 1) : SubSeq(s, 1, n)[i] = s[1 + i - 1]
      BY <2>1, <3>1, SubSeqProperties
    <3>3. QED
      BY <2>1, <3>2 DEF s
  <2>3. SubSeq(new.pool, 1, n) = SubSeq(ix.pool, 1, n)
    <3> DEFINE s == SubSeq(new.pool, 1, n)
               u == SubSeq(ix.pool, 1, n)
    <3>1. s \in Seq(KB) /\ u \in Seq(KB) /\ Len(s) = n /\ Len(u) = n
      BY <1>4, <2>1, <2>2
    <3>2. \A i \in 1..n : s[i] = u[i]
      <4>1. \A i \in 1..n : s[i] = new.pool[i]
        BY <1>4, <2>1
      <4>2. \A i \in 1..n : u[i] = ix.pool[i]
        BY <2>2
      <4>3. \A i \in 1..n : i \in 1..L
        BY <1>3
      <4> HIDE DEF s, u
      <4>4. QED
        BY <1>1, <4>1, <4>2, <4>3
    <3> HIDE DEF s, u, KB
    <3>3. s = u
      BY <3>1, <3>2, SeqEqual
    <3>4. QED
      BY <3>3 DEF s, u
  <2>4. QED
    BY <1>1, <2>3 DEF Remain, Remains
<1>6. ASSUME NEW m \in 0..Len(order)
      PROVE  Remain(new, L + m) = Over(View(ix), ix.clist, ix.cache, {order[j] : j \in 1..m})
  <2> DEFINE more == SubSeq(new.pool, 1, L + m)
             t == ix.clist
             c == ix.cache
             pool == ix.pool
             S == {order[j] : j \in 1..m}
  <2>1. L + m \in 0..Len(new.pool) /\ m \in Nat
    BY <1>1, <1>3
  <2>2. more \in Seq(KB) /\ Len(more) = L + m /\ \A i \in 1..(L + m) : more[i] = new.pool[i]
    BY <1>4, <2>1
  <2>3. \A i \in 1..L : more[i] = pool[i]
    <3>1. 1..L \subseteq 1..(L + m)
      BY <1>3, <2>1
    <3>2. QED
      BY <1>1, <2>2, <3>1
  <2>4. \A j \in 1..m : more[L + j] = <<<<t, order[j]>>, c[order[j]]>>
    <3>1. \A j \in 1..m : j \in 1..Len(order) /\ L + j \in 1..(L + m)
      BY <1>1, <1>3, <2>1
    <3>2. QED
      BY <1>2, <2>2, <3>1
  <2>5. pool \in Seq(KB) /\ Len(more) = Len(pool) + m
    BY <1>3, <2>2
  <2>6. Overlay(new.disk, more) = Over(Overlay(ix.disk, pool), t, c, S)
    <3>1. Writes(pool, more, m, t, order, c)
      BY <2>1, <2>2, <2>3, <2>4, <2>5 DEF Writes
    <3>2. S = {order[j] : j \in 1..m}
      OBVIOUS
    <3> HIDE DEF more, t, c, pool, S
    <3>3. Overlay(ix.disk, more) = Over(Overlay(ix.disk, pool), t, c, S)
      BY ONLY <3>1, <3>2, OverlayOver, SMTT(30)
    <3>4. QED
      BY <1>1, <3>3
  <2>7. QED
    BY <2>6 DEF Remain, View
<1>7. View(new) = Written(ix)
  <2>1. Len(order) \in 0..Len(order) /\ Len(new.pool) = L + Len(order)
    BY <1>1
  <2>2. View(new) = Remain(new, L + Len(order))
    BY <1>3, <2>1, RemainAll
  <2>3. QED
    BY <1>6, <2>1, <2>2, OrderComplete DEF Written
<1>8. ASSUME NEW r \in Remains(new), r \notin Remains(ix)
      PROVE  \E S \in SUBSET DOMAIN ix.cache : r = Over(View(ix), ix.clist, ix.cache, S)
  <2>1. PICK n \in 0..Len(new.pool) : r = Remain(new, n)
    BY DEF Remains
  <2>2. n \notin 0..L
    BY <1>5, <1>8, <2>1
  <2>3. PICK m \in 0..Len(order) : n = L + m
    <3>1. n - L \in 0..Len(order) /\ n = L + (n - L)
      BY <1>1, <1>3, <2>2
    <3>2. QED
      BY <3>1
  <2>4. {order[j] : j \in 1..m} \in SUBSET DOMAIN ix.cache
    <3>1. \A j \in 1..m : j \in 1..Len(order)
      BY <1>1
    <3>2. QED
      BY <1>2, <3>1
  <2>5. QED
    BY <1>6, <2>1, <2>3, <2>4
<1>9. QED
  BY <1>7, <1>8

-----------------------------------------------------------------------------
(* An index through its operations.                                        *)

Sound(r) == CountsAreNat(r) /\ \A k \in DOMAIN r : r[k].body # <<>>

\* Whatever a crash keeps is sound, and the cached blocks continue what is
\* read.
SoundIndex(ix) ==
  /\ \A r \in Remains(ix) : Sound(r)
  /\ Extending(View(ix), ix.clist, ix.cache)

\* What a crash may keep of jx has what one of ix would have had.
Inherits(ix, jx) == \A s \in Remains(jx) : \E r \in Remains(ix) : Keeps(r, s)

Continues(ix, jx) == SoundIndex(jx) /\ Keeps(View(ix), View(jx)) /\ Inherits(ix, jx)

\* Nothing changes.
LEMMA KeepsItself == \A r : Keeps(r, r)
BY DEF Keeps

\* What is stored stays stored.
LEMMA KeepsStored ==
  ASSUME NEW r, NEW s, Keeps(r, s), NEW t, NEW f, Stored(r, t, f)
  PROVE  Stored(s, t, f)
BY DEF Keeps, Stored

\* Some or all of the cached blocks are written.
LEMMA SoundWritten ==
  ASSUME NEW ix, IsIndex(ix), SoundIndex(ix)
  PROVE  /\ \A S \in SUBSET DOMAIN ix.cache :
              LET s == Over(View(ix), ix.clist, ix.cache, S)
              IN  Sound(s) /\ Keeps(View(ix), s)
         /\ Sound(View(ix)) /\ Sound(Written(ix)) /\ Keeps(View(ix), Written(ix))
<1> DEFINE V == View(ix)
           t == ix.clist
           c == ix.cache
<1>1. Sound(V) /\ Extending(V, t, c)
  BY RemainAll DEF SoundIndex
<1>2. IsCache(c) /\ CountsAreNat(V)
  BY <1>1 DEF IsIndex, AreRecords, BlockRecords, Sound, IsCache
<1>3. ASSUME NEW S \in SUBSET DOMAIN c, NEW s, s = Over(V, t, c, S)
      PROVE  Sound(s) /\ Keeps(V, s)
  <2> HIDE DEF V, t, c
  <2>1. CountsAreNat(Over(V, t, c, S)) /\ Keeps(V, Over(V, t, c, S))
    BY <1>1, <1>2, OverKeeps
  <2>2. \A k \in DOMAIN s : s[k].body # <<>>
    <3> DEFINE W == {<<t, b>> : b \in S}
    <3>1. DOMAIN s = DOMAIN V \cup W
      BY <1>3, Zenon DEF Over
    <3>2. \A k \in DOMAIN s : s[k] = IF k \in W THEN c[k[2]] ELSE V[k]
      BY <1>3, <3>1, Zenon DEF Over
    <3>3. \A k \in W : k[2] \in DOMAIN c
      OBVIOUS
    <3> HIDE DEF W
    <3>4. QED
      BY <1>1, <3>1, <3>2, <3>3 DEF Sound, Extending
  <2>3. QED
    BY <1>3, <2>1, <2>2 DEF Sound
<1>4. \A S \in SUBSET DOMAIN c : Sound(Over(V, t, c, S)) /\ Keeps(V, Over(V, t, c, S))
  BY <1>3
<1>5. QED
  BY <1>1, <1>4 DEF Written

\* Without cached blocks, what is written is what is read.
LEMMA WrittenEmpty ==
  ASSUME NEW ix, ix.cache = NoRecords
  PROVE  Written(ix) = View(ix) /\ \A r, t : Extending(r, t, NoRecords)
<1>1. DOMAIN NoRecords = {}
  BY DEF NoRecords
<1>2. {<<ix.clist, b>> : b \in {}} = {}
  OBVIOUS
<1>3. View(ix) = [k \in DOMAIN View(ix) |-> View(ix)[k]]
  BY Zenon DEF View, Overlay
<1>4. Written(ix) = [k \in DOMAIN View(ix) |-> View(ix)[k]]
  BY <1>1, <1>2 DEF Written, Over
<1>5. QED
  BY <1>1, <1>3, <1>4 DEF Extending

\* Writing the pool through.
LEMMA SyncContinues ==
  ASSUME NEW ix, IsIndex(ix), SoundIndex(ix)
  PROVE  Continues(ix, Sync(ix)) /\ Written(Sync(ix)) = Written(ix)
<1> DEFINE new == Sync(ix)
<1>1. /\ new.pool = <<>> /\ new.clist = ix.clist /\ new.cache = ix.cache
  BY DEF IsIndex, Sync
<1>2. IsIndex(new) /\ View(new) = View(ix)
  BY SyncType, SyncView
<1> HIDE DEF new
<1>3. Remains(new) = {View(ix)} /\ View(ix) \in Remains(ix)
  BY <1>1, <1>2, RemainNone, RemainAll
<1>4. QED
  BY <1>1, <1>2, <1>3, KeepsItself DEF Continues, SoundIndex, Inherits, Written, new

\* The block cache is dropped.
LEMMA ClearContinues ==
  ASSUME NEW ix, IsIndex(ix), SoundIndex(ix)
  PROVE  Continues(ix, ClearCache(ix)) /\ Written(ClearCache(ix)) = View(ix)
<1> DEFINE new == ClearCache(ix)
<1>1. /\ new.disk = ix.disk /\ new.pool = ix.pool /\ new.cache = NoRecords
  BY DEF IsIndex, ClearCache
<1> HIDE DEF new
<1>2. View(new) = View(ix) /\ Remains(new) = Remains(ix)
  BY <1>1 DEF View, Remains, Remain
<1>3. Written(new) = View(new) /\ Extending(View(new), new.clist, NoRecords)
  BY <1>1, WrittenEmpty
<1>4. QED
  BY <1>1, <1>2, <1>3, KeepsItself DEF Continues, SoundIndex, Inherits, new

\* A crash.
LEMMA SurvivorContinues ==
  ASSUME NEW ix, IsIndex(ix), SoundIndex(ix), NEW n \in 0..Len(ix.pool)
  PROVE  LET new == Survivor(ix, n)
         IN  /\ SoundIndex(new) /\ Inherits(ix, new)
             /\ View(new) \in Remains(ix)
<1> DEFINE new == Survivor(ix, n)
<1>1. /\ new.disk = Remain(ix, n) /\ new.pool = <<>> /\ new.cache = NoRecords
  BY DEF Survivor, EmptyIndex, Remain
<1>2. IsIndex(new)
  BY SurvivorType
<1> HIDE DEF new
<1>3. View(new) = Remain(ix, n)
  <2>1. \A k : PendingOn(<<>>, k) = {}
    BY DEF PendingOn
  <2>2. {<<>>[i][1] : i \in DOMAIN <<>>} = {}
    OBVIOUS
  <2>3. Overlay(new.disk, <<>>) = [k \in DOMAIN new.disk |-> new.disk[k]]
    BY <2>1, <2>2 DEF Overlay
  <2>4. Remain(ix, n) = [k \in DOMAIN Remain(ix, n) |-> Remain(ix, n)[k]]
    BY Zenon DEF Remain, Overlay
  <2>5. QED
    BY <1>1, <2>3, <2>4 DEF View
<1>4. Remains(new) = {Remain(ix, n)} /\ Remain(ix, n) \in Remains(ix)
  BY <1>1, <1>2, <1>3, RemainNone DEF Remains
<1>5. Extending(View(new), new.clist, new.cache)
  BY <1>1, WrittenEmpty
<1>6. QED
  BY <1>3, <1>4, <1>5, KeepsItself DEF SoundIndex, Inherits, new

\* The block cache is written out and dropped, or moves to another list.
LEMMA FlushContinues ==
  ASSUME NEW ix, IsIndex(ix), SoundIndex(ix), NEW order \in WriteOrders(ix), NEW t,
         NEW new, new \in {FlushBlockCache(ix, order), SwitchList(ix, t, order)}
  PROVE  Continues(ix, new) /\ View(new) = Written(ix) /\ Written(new) = Written(ix)
<1> DEFINE w == WriteCached(ix, order)
<1>1. IsIndex(w)
  BY WriteCachedType
<1>2. View(w) = Written(ix)
  BY WrittenRemains
<1>3. \A r \in Remains(w) :
        \/ r \in Remains(ix)
        \/ \E S \in SUBSET DOMAIN ix.cache : r = Over(View(ix), ix.clist, ix.cache, S)
  BY WrittenRemains
<1>4. new \in {ClearCache(w), [w EXCEPT !.clist = t, !.cache = NoRecords]}
  BY DEF FlushBlockCache, SwitchList
<1> HIDE DEF w
<1>5. new.disk = w.disk /\ new.pool = w.pool /\ new.cache = NoRecords
  BY <1>1, <1>4 DEF IsIndex, ClearCache
<1>6. View(new) = View(w) /\ Remains(new) = Remains(w)
  BY <1>5 DEF View, Remains, Remain
<1>7. Written(new) = View(new) /\ Extending(View(new), new.clist, new.cache)
  BY <1>5, WrittenEmpty
<1>8. \A r \in Remains(ix) : Sound(r)
  BY DEF SoundIndex
<1>9. View(ix) \in Remains(ix) /\ Keeps(View(ix), Written(ix))
  BY RemainAll, SoundWritten
<1>10. \A S \in SUBSET DOMAIN ix.cache :
         /\ Sound(Over(View(ix), ix.clist, ix.cache, S))
         /\ Keeps(View(ix), Over(View(ix), ix.clist, ix.cache, S))
  BY SoundWritten
<1>11. SoundIndex(new)
  BY <1>3, <1>6, <1>7, <1>8, <1>10 DEF SoundIndex
<1>12. Inherits(ix, new)
  BY <1>3, <1>6, <1>9, <1>10, KeepsItself DEF Inherits
<1>13. QED
  BY <1>2, <1>6, <1>7, <1>9, <1>11, <1>12 DEF Continues

-----------------------------------------------------------------------------
(* A chunk appended to the cached list.                                    *)

IndexFields == {"disk", "pool", "clist", "cache"}

\* A record put in the block cache.
LEMMA PutRecords ==
  ASSUME NEW ix, DOMAIN ix = IndexFields, NEW b, NEW r, NEW new, new = Caching(ix, b, r)
  PROVE  /\ DOMAIN new = IndexFields /\ new.clist = ix.clist
         /\ new.disk = ix.disk /\ new.pool = ix.pool /\ View(new) = View(ix)
         /\ DOMAIN new.cache = DOMAIN ix.cache \cup {b}
         /\ \A k \in DOMAIN ix.cache \cup {b} : new.cache[k] = IF k = b THEN r ELSE ix.cache[k]
<1> DEFINE c == Put(ix.cache, b, r)
<1>1. DOMAIN c = DOMAIN ix.cache \cup {b} /\ \A k \in DOMAIN c : c[k] = IF k = b THEN r ELSE ix.cache[k]
  BY DEF Put
<1>2. new = [ix EXCEPT !.cache = c]
  BY DEF Caching
<1> HIDE DEF c
<1>3. /\ new.disk = ix.disk /\ new.pool = ix.pool /\ new.clist = ix.clist /\ new.cache = c
      /\ DOMAIN new = IndexFields
  BY <1>2 DEF IndexFields
<1>4. QED
  BY <1>1, <1>3 DEF View

\* Writing the pool through keeps the cache.
LEMMA SyncFields ==
  ASSUME NEW ix, DOMAIN ix = IndexFields
  PROVE  /\ Sync(ix).disk = View(ix) /\ Sync(ix).pool = <<>>
         /\ Sync(ix).clist = ix.clist /\ Sync(ix).cache = ix.cache
BY DEF Sync, IndexFields

\* The record a chunk makes of the block old, and what the first block gets.
AppendedTo(old, lh, hdr, code) ==
  [lh |-> IF hdr.ID = 1 THEN lh ELSE 0, hdr |-> hdr, body |-> old.body \o code]

\* The cache of app is that of ix with a chunk in block hdr.ID, and the number
\* of blocks in the first one if first.
Appended(ix, app, t, lh, hdr, code, new) ==
  LET first == new /\ hdr.ID # 1
      c     == app.cache
  IN  /\ DOMAIN c = DOMAIN ix.cache \cup {hdr.ID} \cup (IF first THEN {1} ELSE {})
      /\ c[hdr.ID] = AppendedTo(Fetch(ix, t, hdr.ID, new), lh, hdr, code)
      /\ first => c[1] = [Fetch(ix, t, 1, FALSE) EXCEPT !.lh = lh]
      /\ \A b \in DOMAIN ix.cache : b # hdr.ID /\ ~(first /\ b = 1) => c[b] = ix.cache[b]

\* AppendChunk does that, and writes at most the pool through.
LEMMA AppendRecords ==
  ASSUME NEW ix, IsIndex(ix), NEW t, NEW lh, NEW hdr, NEW code, NEW new \in BOOLEAN,
         NEW app, app = AppendChunk(ix, t, lh, hdr, code, new)
  PROVE  /\ Appended(ix, app, t, lh, hdr, code, new) /\ app.clist = ix.clist
         /\ \/ app.disk = ix.disk /\ app.pool = ix.pool
            \/ app.disk = View(ix) /\ app.pool = <<>>
<1> DEFINE block == [lh |-> IF hdr.ID = 1 THEN lh ELSE 0, hdr |-> hdr,
                     body |-> Fetch(ix, t, hdr.ID, new).body \o code]
           i1    == [ix EXCEPT !.cache = Put(ix.cache, hdr.ID, block)]
           list  == [Fetch(i1, t, 1, FALSE) EXCEPT !.lh = lh]
           i2    == [i1 EXCEPT !.cache = Put(i1.cache, 1, list)]
           first == new /\ hdr.ID # 1
<1>1. app \in IF first THEN {i2, Sync(i2)} ELSE {i1, Sync(i1)}
  <2>1. CASE first
    BY <2>1 DEF AppendChunk, UpdateListHeader
  <2>2. CASE ~first
    BY <2>2 DEF AppendChunk, UpdateListHeader
  <2>3. QED
    BY <2>1, <2>2
<1>2. DOMAIN ix = IndexFields
  BY DEF IsIndex, IndexFields
<1>3. i1 = Caching(ix, hdr.ID, block) /\ i2 = Caching(i1, 1, list)
  BY Zenon DEF Caching
<1>4. list = [Fetch(i1, t, 1, FALSE) EXCEPT !.lh = lh]
  OBVIOUS
<1> HIDE DEF i1, i2, list, block
<1>5. /\ DOMAIN i1 = IndexFields /\ i1.clist = ix.clist
      /\ i1.disk = ix.disk /\ i1.pool = ix.pool /\ View(i1) = View(ix)
      /\ DOMAIN i1.cache = DOMAIN ix.cache \cup {hdr.ID}
      /\ \A k \in DOMAIN ix.cache \cup {hdr.ID} :
           i1.cache[k] = IF k = hdr.ID THEN block ELSE ix.cache[k]
  BY <1>2, <1>3, PutRecords
<1>6. /\ DOMAIN i2 = IndexFields /\ i2.clist = i1.clist
      /\ i2.disk = i1.disk /\ i2.pool = i1.pool /\ View(i2) = View(i1)
      /\ DOMAIN i2.cache = DOMAIN i1.cache \cup {1}
      /\ \A k \in DOMAIN i1.cache \cup {1} : i2.cache[k] = IF k = 1 THEN list ELSE i1.cache[k]
  BY <1>3, <1>5, PutRecords
<1>7. ASSUME first PROVE list = [Fetch(ix, t, 1, FALSE) EXCEPT !.lh = lh]
  <2>1. Fetch(i1, t, 1, FALSE) = Fetch(ix, t, 1, FALSE)
    BY <1>5, <1>7, Zenon DEF Fetch, Cached, ReadBlock
  <2>2. QED
    BY <1>4, <2>1
<1>8. block = AppendedTo(Fetch(ix, t, hdr.ID, new), lh, hdr, code)
  BY DEF block, AppendedTo
<1>9. CASE first
  <2>1. /\ app.clist = ix.clist /\ app.cache = i2.cache
        /\ \/ app.disk = ix.disk /\ app.pool = ix.pool
           \/ app.disk = View(ix) /\ app.pool = <<>>
    <3>1. CASE app = i2
      BY <1>5, <1>6, <3>1
    <3>2. CASE app = Sync(i2)
      BY <1>5, <1>6, <3>2, SyncFields
    <3>3. QED
      BY <1>1, <1>9, <3>1, <3>2
  <2>3. hdr.ID # 1
    BY <1>9
  <2> DEFINE c   == app.cache
             old == ix.cache
  <2>4. /\ DOMAIN c = DOMAIN old \cup {hdr.ID} \cup {1}
        /\ \A k \in DOMAIN old \cup {hdr.ID} \cup {1} :
             c[k] = IF k = 1 THEN list ELSE IF k = hdr.ID THEN block ELSE old[k]
    BY <1>5, <1>6, <2>1
  <2> HIDE DEF c, old
  <2>5. c[1] = list /\ c[hdr.ID] = block
    BY <2>3, <2>4
  <2>6. \A k \in DOMAIN old : k # hdr.ID /\ k # 1 => c[k] = old[k]
    BY <2>4
  <2>7. Appended(ix, app, t, lh, hdr, code, new)
    BY <1>7, <1>8, <1>9, <2>4, <2>5, <2>6 DEF Appended, c, old
  <2>8. QED
    BY <2>1, <2>7
<1>10. CASE ~first
  <2>1. app.clist = ix.clist /\ app.cache = i1.cache
    BY <1>1, <1>5, <1>10, SyncFields
  <2>2. \/ app.disk = ix.disk /\ app.pool = ix.pool
        \/ app.disk = View(ix) /\ app.pool = <<>>
    BY <1>1, <1>5, <1>10, SyncFields
  <2>3. Appended(ix, app, t, lh, hdr, code, new)
    BY <1>5, <1>8, <1>10, <2>1 DEF Appended
  <2>4. QED
    BY <2>1, <2>2, <2>3
<1>11. QED
  BY <1>9, <1>10

\* A cache that continues what the one before it would write also continues
\* what is there, and covers it.
LEMMA ExtendingChain ==
  ASSUME NEW r, CountsAreNat(r), NEW t, NEW c, IsCache(c), Extending(r, t, c),
         NEW s, s = Over(r, t, c, DOMAIN c), NEW d, DOMAIN c \subseteq DOMAIN d,
         IsCache(d), Extending(s, t, d)
  PROVE  Extending(r, t, d) /\ Over(s, t, d, DOMAIN d) = Over(r, t, d, DOMAIN d)
<1> USE DEF IsCache
<1>1. \A b : /\ Has(s, t, b) <=> Has(r, t, b) \/ b \in DOMAIN c
             /\ Has(s, t, b) => s[<<t, b>>] = IF b \in DOMAIN c THEN c[b] ELSE r[<<t, b>>]
  <2>1. ASSUME NEW b
        PROVE  /\ Has(s, t, b) <=> Has(r, t, b) \/ b \in DOMAIN c
               /\ Has(s, t, b) => s[<<t, b>>] = IF b \in DOMAIN c THEN c[b] ELSE r[<<t, b>>]
    <3> DEFINE S == DOMAIN c
    <3>1. s = Over(r, t, c, S)
      OBVIOUS
    <3> HIDE DEF S
    <3>2. /\ Has(s, t, b) <=> Has(r, t, b) \/ (t = t /\ b \in S)
          /\ Has(s, t, b) => s[<<t, b>>] = IF t = t /\ b \in S THEN c[b] ELSE r[<<t, b>>]
      BY <3>1, OverRecords DEF Has
    <3>3. QED
      BY <3>2 DEF S, Has
  <2>2. QED
    BY <2>1
<1>2. CountIn(r, t) \in Nat /\ CountIn(s, t) \in Nat /\ CountIn(r, t) <= CountIn(s, t)
  <2>1. CountIn(r, t) \in Nat
    BY DEF CountsAreNat
  <2>2. CASE 1 \in DOMAIN c
    <3>1. CountIn(s, t) = c[1].lh
      BY <1>1, <2>2 DEF CountIn
    <3>2. QED
      BY <2>1, <2>2, <3>1 DEF Extending
  <2>3. CASE 1 \notin DOMAIN c
    <3>1. CountIn(s, t) = CountIn(r, t)
      BY <1>1, <2>3 DEF CountIn
    <3>2. QED
      BY <2>1, <3>1
  <2>4. QED
    BY <2>2, <2>3
<1>3. ASSUME NEW b \in DOMAIN d, b <= CountIn(r, t)
      PROVE  /\ Has(r, t, b) /\ FIDsOf(r[<<t, b>>]) \subseteq FIDsOf(d[b])
             /\ b < CountIn(r, t) => d[b].body = r[<<t, b>>].body
  <2>1. b \in Nat /\ b <= CountIn(s, t) /\ (b < CountIn(r, t) => b < CountIn(s, t))
    BY <1>2, <1>3
  <2>2. /\ Has(s, t, b) /\ FIDsOf(s[<<t, b>>]) \subseteq FIDsOf(d[b])
        /\ b < CountIn(r, t) => d[b].body = s[<<t, b>>].body
    BY <2>1 DEF Extending
  <2>3. CASE b \in DOMAIN c
    <3>1. /\ Has(r, t, b) /\ FIDsOf(r[<<t, b>>]) \subseteq FIDsOf(c[b])
          /\ b < CountIn(r, t) => c[b].body = r[<<t, b>>].body
      BY <1>3, <2>3 DEF Extending
    <3>2. s[<<t, b>>] = c[b]
      BY <1>1, <2>2, <2>3
    <3>3. QED
      BY <2>2, <3>1, <3>2
  <2>4. CASE b \notin DOMAIN c
    <3>1. Has(r, t, b) /\ s[<<t, b>>] = r[<<t, b>>]
      BY <1>1, <2>2, <2>4 DEF Has
    <3>2. QED
      BY <2>2, <3>1
  <2>5. QED
    BY <2>3, <2>4
<1>4. Extending(r, t, d)
  <2>1. \A b \in DOMAIN d : b # 0 /\ d[b].body # <<>>
    BY DEF Extending
  <2>2. 1 \in DOMAIN d => CountIn(r, t) <= d[1].lh
    BY <1>2 DEF Extending
  <2>3. QED
    BY <1>3, <2>1, <2>2 DEF Extending
<1>5. Over(s, t, d, DOMAIN d) = Over(r, t, d, DOMAIN d)
  <2> DEFINE C == {<<t, b>> : b \in DOMAIN c}
             D == {<<t, b>> : b \in DOMAIN d}
  <2>1. DOMAIN s = DOMAIN r \cup C
    BY Zenon DEF Over
  <2>2. \A k \in DOMAIN s : s[k] = IF k \in C THEN c[k[2]] ELSE r[k]
    BY <2>1, Zenon DEF Over
  <2>3. C \subseteq D
    OBVIOUS
  <2> HIDE DEF C, D
  <2>4. DOMAIN s \cup D = DOMAIN r \cup D
    BY <2>1, <2>3
  <2>5. \A k \in DOMAIN r \cup D :
          (IF k \in D THEN d[k[2]] ELSE s[k]) = (IF k \in D THEN d[k[2]] ELSE r[k])
    BY <2>1, <2>2, <2>3
  <2>6. [k \in DOMAIN s \cup D |-> IF k \in D THEN d[k[2]] ELSE s[k]]
          = [k \in DOMAIN r \cup D |-> IF k \in D THEN d[k[2]] ELSE r[k]]
    BY <2>4, <2>5
  <2>7. QED
    BY <2>6 DEF Over, D
<1>6. QED
  BY <1>4, <1>5

\* The chunk goes to the last block that counts, or to the block after it.
GoesLast(r, t, lh, hdr, new) ==
  /\ hdr.ID = lh
  /\ IF new THEN lh = CountIn(r, t) + 1 ELSE lh = CountIn(r, t) /\ lh # 0 /\ Has(r, t, lh)

\* What is fetched of the cached list is what would be written.
LEMMA FetchWritten ==
  ASSUME NEW ix, NEW t, t = ix.clist, NEW r, r = Written(ix), NEW b
  PROVE  Fetch(ix, t, b, FALSE) = IF Has(r, t, b) THEN r[<<t, b>>] ELSE NoBlock
<1> DEFINE V == View(ix)
           c == ix.cache
           S == DOMAIN c
<1>1. r = Over(V, t, c, S)
  BY DEF Written
<1>2. Fetch(ix, t, b, FALSE) =
        IF b \in S THEN c[b] ELSE IF Has(V, t, b) THEN V[<<t, b>>] ELSE NoBlock
  BY DEF Fetch, Cached, ReadBlock, Has
<1> HIDE DEF V, c, S
<1>3. /\ Has(r, t, b) <=> Has(V, t, b) \/ (t = t /\ b \in S)
      /\ Has(r, t, b) => r[<<t, b>>] = IF t = t /\ b \in S THEN c[b] ELSE V[<<t, b>>]
  BY <1>1, OverRecords DEF Has
<1>4. CASE Has(r, t, b)
  BY <1>2, <1>3, <1>4 DEF Has
<1>5. CASE ~Has(r, t, b)
  BY <1>2, <1>3, <1>5 DEF Has
<1>6. QED
  BY <1>4, <1>5

\* The chunk goes there and is coded as it is read.
ChunkFor(ix, t, lh, hdr, code, chunk, new) ==
  /\ t = ix.clist /\ lh \in Nat /\ new \in BOOLEAN
  /\ GoesLast(Written(ix), t, lh, hdr, new)
  /\ code \in Seq(Nat) /\ code # <<>> /\ chunk \in Seq(FIDs32)
  /\ LET body == Fetch(ix, t, hdr.ID, new).body
     IN  Decode(body \o code) = Decode(body) \o chunk

\* The cache continues what it would have written before.
LEMMA AppendExtends ==
  ASSUME NEW ix, IsIndex(ix), NEW r, r = Written(ix), Sound(r),
         NEW t, NEW lh, NEW hdr, NEW code, NEW chunk, NEW new,
         ChunkFor(ix, t, lh, hdr, code, chunk, new),
         NEW app, Appended(ix, app, t, lh, hdr, code, new),
         \A b \in DOMAIN ix.cache : b # 0 /\ ix.cache[b].body # <<>>
  PROVE  /\ Extending(r, t, app.cache) /\ hdr.ID \in DOMAIN app.cache
         /\ ToSet(chunk) \subseteq FIDsOf(app.cache[hdr.ID])
         /\ 1 \in DOMAIN app.cache => app.cache[1].lh = lh
         /\ 1 \notin DOMAIN app.cache => lh = CountIn(r, t)
<1> DEFINE n == CountIn(r, t)
           d == app.cache
           c == ix.cache
           old == Fetch(ix, t, hdr.ID, new)
           first == new /\ hdr.ID # 1
<1>0. /\ t = ix.clist /\ lh \in Nat /\ new \in BOOLEAN /\ GoesLast(r, t, lh, hdr, new)
      /\ code \in Seq(Nat) /\ code # <<>> /\ chunk \in Seq(FIDs32)
      /\ Decode(old.body \o code) = Decode(old.body) \o chunk
  BY Zenon DEF ChunkFor
<1>1. n \in Nat /\ \A k \in DOMAIN r : r[k].body # <<>>
  BY DEF Sound, CountsAreNat
<1>a. /\ DOMAIN c \subseteq Nat /\ old.body \in Seq(Nat)
      /\ Fetch(ix, t, 1, FALSE) \in BlockRecords
  <2>1. old \in BlockRecords /\ Fetch(ix, t, 1, FALSE) \in BlockRecords
    BY <1>0, FetchType
  <2>2. QED
    BY <2>1 DEF BlockRecords, IsIndex, AreRecords
<1>2. /\ DOMAIN d = DOMAIN c \cup {hdr.ID} \cup (IF first THEN {1} ELSE {})
      /\ d[hdr.ID] = AppendedTo(old, lh, hdr, code)
      /\ first => d[1] = [Fetch(ix, t, 1, FALSE) EXCEPT !.lh = lh]
      /\ \A b \in DOMAIN c : b # hdr.ID /\ ~(first /\ b = 1) => d[b] = c[b]
  BY DEF Appended
<1>3. \A b : Fetch(ix, t, b, FALSE) = IF Has(r, t, b) THEN r[<<t, b>>] ELSE NoBlock
  BY <1>0, FetchWritten
<1>4. ASSUME NEW b \in DOMAIN c PROVE Has(r, t, b) /\ r[<<t, b>>] = c[b]
  <2> DEFINE S == DOMAIN c
             V == View(ix)
  <2>1. r = Over(V, t, c, S) /\ b \in S
    BY <1>0 DEF Written
  <2> HIDE DEF S, V, c
  <2>2. /\ Has(r, t, b) <=> Has(V, t, b) \/ (t = t /\ b \in S)
        /\ Has(r, t, b) => r[<<t, b>>] = IF t = t /\ b \in S THEN c[b] ELSE V[<<t, b>>]
    BY <2>1, OverRecords DEF Has
  <2>3. QED
    BY <2>1, <2>2 DEF Has
<1>5. /\ d[hdr.ID].body = old.body \o code /\ d[hdr.ID].body # <<>>
      /\ hdr.ID = 1 => d[hdr.ID].lh = lh
  <2>1. d[hdr.ID].body = old.body \o code /\ (hdr.ID = 1 => d[hdr.ID].lh = lh)
    BY <1>2 DEF AppendedTo
  <2>2. Len(old.body \o code) = Len(old.body) + Len(code) /\ Len(old.body) \in Nat /\ Len(code) \in Nat \ {0}
    <3>1. Len(code) \in Nat /\ Len(code) # 0
      BY <1>0
    <3>2. QED
      BY <1>0, <1>a, <3>1, ConcatProperties
  <2>3. Len(old.body \o code) # 0
    BY <2>2
  <2>4. QED
    BY <2>1, <2>3
<1>6. /\ FIDsOf(d[hdr.ID]) = FIDsOf(old) \cup ToSet(chunk)
  <2>1. Decode(d[hdr.ID].body) = Decode(old.body) \o chunk
    BY <1>0, <1>5
  <2>2. Decode(old.body) \in Seq(FIDs32)
    BY <1>a, DecodeSums DEF SumsOf
  <2> DEFINE u == Decode(old.body)
  <2>3. u \in Seq(FIDs32)
    BY <2>2
  <2> HIDE DEF u
  <2>4. ToSet(u \o chunk) = ToSet(u) \cup ToSet(chunk)
    BY <1>0, <2>3, ConcatElements
  <2>5. QED
    BY <2>1, <2>4 DEF FIDsOf, u
<1>7. /\ hdr.ID = lh
      /\ new => lh = n + 1
      /\ ~new => lh = n /\ lh # 0 /\ Has(r, t, lh)
  BY <1>0 DEF GoesLast
<1>8. ~new => old = r[<<t, lh>>]
  <2> SUFFICES ASSUME ~new PROVE old = r[<<t, lh>>]
    OBVIOUS
  <2>1. new = FALSE
    BY <1>0
  <2>2. old = Fetch(ix, t, lh, FALSE)
    BY <1>7, <2>1
  <2>3. QED
    BY <1>3, <1>7, <2>2
<1>9. first => Has(r, t, 1) /\ d[1].body = r[<<t, 1>>].body /\ d[1].lh = lh /\ d[1].body # <<>>
  <2> SUFFICES ASSUME first PROVE Has(r, t, 1) /\ d[1].body = r[<<t, 1>>].body /\ d[1].lh = lh /\ d[1].body # <<>>
    OBVIOUS
  <2>1. n # 0
    BY <1>1, <1>7
  <2>2. Has(r, t, 1)
    BY <2>1 DEF CountIn
  <2> DEFINE o == Fetch(ix, t, 1, FALSE)
  <2>3. d[1] = [o EXCEPT !.lh = lh] /\ o \in BlockRecords
    BY <1>2, <1>a
  <2>4. o = r[<<t, 1>>] /\ o.body # <<>>
    BY <1>1, <1>3, <2>2 DEF Has
  <2> HIDE DEF o
  <2>5. d[1].body = o.body /\ d[1].lh = lh
    BY <2>3 DEF BlockRecords
  <2>6. QED
    BY <2>2, <2>4, <2>5
<1>10. ASSUME NEW b \in DOMAIN d, b # hdr.ID, ~(first /\ b = 1)
       PROVE  b \in DOMAIN c /\ d[b] = c[b]
  BY <1>2, <1>10
<1>11. ASSUME NEW b \in DOMAIN d PROVE b # 0 /\ d[b].body # <<>>
  <2>1. CASE b = hdr.ID
    <3>1. hdr.ID # 0
      BY <1>1, <1>7
    <3>2. QED
      BY <1>5, <2>1, <3>1
  <2>2. CASE first /\ b = 1
    BY <1>9, <2>2
  <2>3. CASE b # hdr.ID /\ ~(first /\ b = 1)
    BY <1>10, <2>3
  <2>4. QED
    BY <2>1, <2>2, <2>3
<1>12. ASSUME NEW b \in DOMAIN d, b <= n
       PROVE  /\ Has(r, t, b) /\ FIDsOf(r[<<t, b>>]) \subseteq FIDsOf(d[b])
              /\ b < n => d[b].body = r[<<t, b>>].body
  <2>1. CASE b = hdr.ID
    <3>1. ~new /\ b = lh /\ ~(b < n)
      BY <1>1, <1>7, <1>12, <2>1
    <3>2. QED
      BY <1>6, <1>7, <1>8, <2>1, <3>1
  <2>2. CASE first /\ b = 1
    BY <1>9, <2>2 DEF FIDsOf
  <2>3. CASE b # hdr.ID /\ ~(first /\ b = 1)
    BY <1>4, <1>10, <2>3
  <2>4. QED
    BY <2>1, <2>2, <2>3
<1>13. 1 \in DOMAIN d => d[1].lh = lh
  <2>1. CASE hdr.ID = 1
    BY <1>5, <2>1
  <2>2. CASE first
    BY <1>9, <2>2
  <2>3. ASSUME hdr.ID # 1, ~first, 1 \in DOMAIN d PROVE d[1].lh = lh
    <3>1. Has(r, t, 1) /\ d[1] = r[<<t, 1>>] /\ ~new
      BY <1>4, <1>10, <2>3
    <3>2. QED
      BY <1>7, <3>1 DEF CountIn
  <2>4. QED
    BY <2>1, <2>2, <2>3
<1>14. 1 \in DOMAIN d => n <= d[1].lh
  BY <1>1, <1>7, <1>13
<1>15. 1 \notin DOMAIN d => lh = n
  <2> SUFFICES ASSUME 1 \notin DOMAIN d PROVE lh = n
    OBVIOUS
  <2>1. hdr.ID \in DOMAIN d /\ (first => 1 \in DOMAIN d)
    BY <1>2
  <2>2. ~new
    BY <2>1
  <2>3. QED
    BY <1>7, <2>2
<1>16. Extending(r, t, d)
  BY <1>11, <1>12, <1>14 DEF Extending
<1>17. hdr.ID \in DOMAIN d /\ ToSet(chunk) \subseteq FIDsOf(d[hdr.ID])
  BY <1>2, <1>6
<1>18. QED
  BY <1>13, <1>15, <1>16, <1>17

\* A chunk that goes where it should is stored once the cache is written, and
\* nothing is taken from what was to be written.
LEMMA AppendContinues ==
  ASSUME NEW ix, IsIndex(ix), SoundIndex(ix), NEW r, r = Written(ix),
         NEW t, NEW lh, NEW hdr, NEW code, NEW chunk, NEW new,
         ChunkFor(ix, t, lh, hdr, code, chunk, new),
         NEW app, app = AppendChunk(ix, t, lh, hdr, code, new), IsIndex(app)
  PROVE  /\ Continues(ix, app) /\ Keeps(r, Written(app)) /\ CountIn(Written(app), t) = lh
         /\ \A f \in ToSet(chunk) : Stored(Written(app), t, f)
         /\ View(app) = View(ix) /\ Written(app) = Over(r, t, app.cache, DOMAIN app.cache)
<1> DEFINE c == ix.cache
           d == app.cache
           V == View(ix)
           w == Written(app)
<1>0. /\ t = ix.clist /\ lh \in Nat /\ new \in BOOLEAN /\ GoesLast(r, t, lh, hdr, new)
  BY Zenon DEF ChunkFor
<1>1. /\ Sound(V) /\ Sound(r) /\ Extending(V, t, c)
  BY <1>0, SoundWritten DEF SoundIndex
<1>2. IsCache(c) /\ IsCache(d)
  BY DEF IsIndex, AreRecords, BlockRecords, IsCache
<1>3. /\ Appended(ix, app, t, lh, hdr, code, new) /\ app.clist = t
      /\ \/ app.disk = ix.disk /\ app.pool = ix.pool
         \/ app.disk = V /\ app.pool = <<>>
  BY <1>0, AppendRecords
<1>4. View(app) = V /\ Remains(app) \subseteq Remains(ix)
  <2>1. CASE app.disk = ix.disk /\ app.pool = ix.pool
    BY <2>1 DEF View, Remains, Remain
  <2>2. CASE app.disk = V /\ app.pool = <<>>
    <3>1. Sync(ix).disk = V /\ Sync(ix).pool = <<>>
      BY DEF IsIndex, Sync
    <3>2. View(app) = View(Sync(ix))
      BY <2>2, <3>1 DEF View
    <3>3. View(app) = V
      BY <3>2, SyncView
    <3>4. QED
      BY <2>2, <3>3, RemainNone, RemainAll
  <2>3. QED
    BY <1>3, <2>1, <2>2
<1>5. \A b \in DOMAIN c : b # 0 /\ c[b].body # <<>>
  BY <1>1 DEF Extending
<1> HIDE DEF c, d, V, w
<1>6. /\ Extending(r, t, d) /\ hdr.ID \in DOMAIN d
      /\ ToSet(chunk) \subseteq FIDsOf(d[hdr.ID])
      /\ 1 \in DOMAIN d => d[1].lh = lh
      /\ 1 \notin DOMAIN d => lh = CountIn(r, t)
  <2>1. \A b \in DOMAIN ix.cache : b # 0 /\ ix.cache[b].body # <<>>
    BY <1>5 DEF c
  <2>2. Sound(r)
    BY <1>1
  <2>3. Appended(ix, app, t, lh, hdr, code, new)
    BY <1>3
  <2>4. QED
    BY <2>1, <2>2, <2>3, AppendExtends DEF d
<1>7. DOMAIN c \subseteq DOMAIN d
  BY <1>3 DEF Appended, c, d
<1>8. r = Over(V, t, c, DOMAIN c) /\ w = Over(V, t, d, DOMAIN d)
  BY <1>0, <1>3, <1>4 DEF Written, w, V, c, d
<1>9. CountsAreNat(V) /\ CountsAreNat(r)
  BY <1>1 DEF Sound
<1>10. Extending(V, t, d) /\ Over(r, t, d, DOMAIN d) = Over(V, t, d, DOMAIN d)
  BY <1>1, <1>2, <1>6, <1>7, <1>8, <1>9, ExtendingChain
<1>11. w = Over(r, t, d, DOMAIN d)
  BY <1>8, <1>10
<1>12. CountsAreNat(w) /\ Keeps(r, w)
  BY <1>2, <1>6, <1>9, <1>11, OverKeeps
<1>13. \A b : /\ Has(w, t, b) <=> Has(r, t, b) \/ b \in DOMAIN d
              /\ Has(w, t, b) => w[<<t, b>>] = IF b \in DOMAIN d THEN d[b] ELSE r[<<t, b>>]
  <2>1. ASSUME NEW b
        PROVE  /\ Has(w, t, b) <=> Has(r, t, b) \/ b \in DOMAIN d
               /\ Has(w, t, b) => w[<<t, b>>] = IF b \in DOMAIN d THEN d[b] ELSE r[<<t, b>>]
    <3> DEFINE S == DOMAIN d
    <3>1. w = Over(r, t, d, S)
      BY <1>11
    <3> HIDE DEF S
    <3>2. /\ Has(w, t, b) <=> Has(r, t, b) \/ (t = t /\ b \in S)
          /\ Has(w, t, b) => w[<<t, b>>] = IF t = t /\ b \in S THEN d[b] ELSE r[<<t, b>>]
      BY <3>1, OverRecords DEF Has
    <3>3. QED
      BY <3>2 DEF S, Has
  <2>2. QED
    BY <2>1
<1>14. CountIn(w, t) = lh
  <2>1. CASE 1 \in DOMAIN d
    BY <1>6, <1>13, <2>1 DEF CountIn
  <2>2. CASE 1 \notin DOMAIN d
    BY <1>6, <1>13, <2>2 DEF CountIn
  <2>3. QED
    BY <2>1, <2>2
<1>15. ASSUME NEW f \in ToSet(chunk) PROVE Stored(w, t, f)
  <2>1. hdr.ID \in 1..CountIn(w, t)
    BY <1>0, <1>9, <1>14 DEF GoesLast, CountsAreNat
  <2>2. f \in FIDsOf(w[<<t, hdr.ID>>])
    BY <1>6, <1>13, <1>15 DEF Has
  <2>3. QED
    BY <1>12, <2>1, <2>2, StoredIf
<1>16. Continues(ix, app)
  <2>1. SoundIndex(app)
    <3>1. \A s \in Remains(app) : Sound(s)
      BY <1>4 DEF SoundIndex
    <3>2. Extending(View(app), app.clist, app.cache)
      BY <1>3, <1>4, <1>10 DEF d
    <3>3. QED
      BY <3>1, <3>2 DEF SoundIndex
  <2>2. Inherits(ix, app)
    BY <1>4, KeepsItself DEF Inherits
  <2>3. Keeps(View(ix), View(app))
    BY <1>4, KeepsItself DEF V
  <2>4. QED
    BY <2>1, <2>2, <2>3 DEF Continues
<1>17. QED
  BY <1>4, <1>11, <1>12, <1>14, <1>15, <1>16 DEF w, d, V

-----------------------------------------------------------------------------
(* The invariant.                                                          *)

\* The indexer's idea of a list is right: its last block is the last that
\* counts, once the block cache is written.
JobKnows ==
  job # NoJob => job.hdr.ID = job.lh /\ job.lh = CountIn(Written(main), job.term)

\* A posting that a crash leaves where it is, or that is lost whatever it does.
Safe(ix, t, f) ==
  (\A r \in Remains(ix) : Here(r, t, f)) \/ (\A r \in Remains(ix) : Lost(r, t, f))

DurableStored == \A p \in durable : Safe(main, p[1], p[2])

AckedStored == \A p \in acked : Stored(View(main), p[1], p[2])

\* What a session indexed is in the indexer's cache until it is stored.
SessionStored ==
  \A p \in session :
    (pc # "end" /\ p[2] \in ToSet(cache[p[1]])) \/ Stored(View(main), p[1], p[2])

\* A flush loses no posting: its list is to do or under way, or it is stored
\* once the block cache is written.
FlushStored ==
  pc = "flush" =>
    \A t \in Terms : \A f \in ToSet(cache[t]) :
      \/ t \in todo
      \/ t = job.term /\ f \in ToSet(job.rest)
      \/ Stored(Written(main), t, f)

KeptInv ==
  SoundIndex(main) /\ JobKnows /\ DurableStored /\ AckedStored /\ SessionStored /\ FlushStored

\* An index that is left alone.
LEMMA SameContinues == ASSUME NEW ix, SoundIndex(ix) PROVE Continues(ix, ix)
BY KeepsItself DEF Continues, Inherits

\* What is safe stays safe.
LEMMA SafeKept ==
  ASSUME NEW ix, NEW jx, Inherits(ix, jx), NEW t, NEW f, Safe(ix, t, f)
  PROVE  Safe(jx, t, f)
<1>1. CASE \A r \in Remains(ix) : Here(r, t, f)
  BY <1>1 DEF Safe, Inherits, Keeps
<1>2. CASE \A r \in Remains(ix) : Lost(r, t, f)
  BY <1>2 DEF Safe, Inherits, Keeps
<1>3. QED
  BY <1>1, <1>2 DEF Safe

\* What is stored stays stored where an index continues.
LEMMA ContinuesKept ==
  ASSUME KeptInv, Continues(main, main'), durable' = durable, acked' = acked
  PROVE  /\ SoundIndex(main)' /\ DurableStored' /\ AckedStored'
         /\ \A t, f : Stored(View(main), t, f) => Stored(View(main'), t, f)
<1>1. SoundIndex(main') /\ Keeps(View(main), View(main')) /\ Inherits(main, main')
  BY DEF Continues
<1>2. \A t, f : Stored(View(main), t, f) => Stored(View(main'), t, f)
  BY <1>1, KeepsStored
<1>3. DurableStored'
  <2>1. \A p \in durable : Safe(main', p[1], p[2])
    BY <1>1, SafeKept DEF KeptInv, DurableStored
  <2>2. QED
    BY <2>1 DEF DurableStored
<1>4. AckedStored'
  BY <1>2 DEF KeptInv, AckedStored
<1>5. QED
  BY <1>1, <1>2, <1>3, <1>4

\* A chunk goes to the last block that counts or behind it, and is read back
\* there as it was: the indexer's idea of the list is right.
LEMMA ChunkGoes ==
  ASSUME TypeInv, GenuineInv, KeptInv, job # NoJob, main.clist = job.term,
         NEW lh, lh = IF Fits THEN job.lh ELSE job.lh + 1
  PROVE  /\ ChunkFor(main, job.term, lh, ChunkHeader, Encode(Chunk, Base), Chunk, ~Fits)
         /\ Len(Encode(Chunk, Base)) = Len(Chunk)
         /\ job.lh = CountIn(Written(main), job.term)
<1> DEFINE t    == job.term
           code == Encode(Chunk, Base)
           rest == SubSeq(job.rest, Len(Chunk) + 1, Len(job.rest))
           old  == Fetch(main, t, ChunkHeader.ID, ~Fits)
           r    == Written(main)
<1>1. main.clist = t /\ job # NoJob
  OBVIOUS
<1>2. /\ IsIndex(main)
      /\ job \in [term : Terms \cup {NoTerm}, lh : Nat,
                  hdr : [ID : Nat, BodySize : Nat, FIDmax : Nat], rest : Seq(1..MaxFID)]
  BY DEF TypeInv, TypeOK
<1>3. job.hdr.ID = job.lh /\ job.lh = CountIn(r, t)
  BY <1>1 DEF KeptInv, JobKnows
<1>4. /\ job.hdr # NullHdr => job.hdr.ID # 0 /\ Fetch(main, t, job.hdr.ID, FALSE).hdr = job.hdr
      /\ Chunk \in Seq(FIDs32) /\ Chunk # <<>>
      /\ ToSet(job.rest) = ToSet(Chunk) \cup ToSet(rest)
      /\ ChunkHeader.ID = IF Fits THEN job.hdr.ID ELSE job.hdr.ID + 1
      /\ Base = IF old.body = <<>> THEN 0 ELSE Last(Decode(old.body))
  BY <1>1, ChunkCoded
<1>5. ChunkHeader.ID = lh /\ lh \in Nat
  BY <1>2, <1>3, <1>4
<1>6. GoesLast(r, t, lh, ChunkHeader, ~Fits)
  <2>1. CASE Fits
    <3>1. lh = CountIn(r, t) /\ lh # 0 /\ job.hdr # NullHdr /\ lh = job.hdr.ID
      BY <1>3, <1>4, <2>1 DEF Fits
    <3>2. Fetch(main, t, lh, FALSE).hdr # NullHdr
      BY <1>4, <3>1
    <3>3. Has(r, t, lh)
      <4>1. Fetch(main, t, lh, FALSE) # NoBlock
        <5>1. NoBlock.hdr = NullHdr
          BY DEF NoBlock
        <5>2. QED
          BY <3>2, <5>1
      <4>2. Fetch(main, t, lh, FALSE) = IF Has(r, t, lh) THEN r[<<t, lh>>] ELSE NoBlock
        BY <1>1, FetchWritten
      <4>3. QED
        BY <4>1, <4>2
    <3>4. QED
      BY <1>5, <2>1, <3>1, <3>3 DEF GoesLast
  <2>2. CASE ~Fits
    <3>1. lh = CountIn(r, t) + 1
      BY <1>3, <2>2
    <3>2. QED
      BY <1>5, <2>2, <3>1 DEF GoesLast
  <2>3. QED
    BY <2>1, <2>2
<1>7. /\ code \in Seq(Nat) /\ code # <<>>
      /\ Decode(old.body \o code) = Decode(old.body) \o Chunk
  <2>1. old.body \in Seq(Nat)
    <3>1. old \in BlockRecords
      BY <1>2, FetchType
    <3>2. QED
      BY <3>1 DEF BlockRecords
  <2>2. /\ code \in Seq(Nat) /\ Len(code) = Len(Chunk)
        /\ Decode(old.body \o code) = Decode(old.body) \o Chunk
    <3> DEFINE body == old.body
               base == Base
    <3>1. body \in Seq(Nat) /\ base = IF body = <<>> THEN 0 ELSE Last(Decode(body))
      BY <1>4, <2>1
    <3> HIDE DEF body, base
    <3>2. /\ Encode(Chunk, base) \in Seq(Nat) /\ Len(Encode(Chunk, base)) = Len(Chunk)
          /\ Decode(body \o Encode(Chunk, base)) = Decode(body) \o Chunk
      BY <1>4, <3>1, DecodeAppend
    <3>3. QED
      BY <3>2 DEF body, base
  <2>3. Len(Chunk) # 0
    BY <1>4
  <2>4. code # <<>>
    BY <2>2, <2>3
  <2>5. QED
    BY <2>2, <2>4
<1>8. Len(code) = Len(Chunk)
  BY <1>4 DEF Encode
<1> HIDE DEF code, old, r
<1>9. ChunkFor(main, t, lh, ChunkHeader, code, Chunk, ~Fits)
  BY <1>1, <1>4, <1>5, <1>6, <1>7 DEF ChunkFor, old, r
<1>10. QED
  BY <1>3, <1>8, <1>9 DEF code, r

\* A chunk is stored once the block cache is written.
LEMMA EmitKept ==
  ASSUME TypeInv, TypeInv', GenuineInv, KeptInv, op # "BUILD_MERGE", EmitChunk
  PROVE  Continues(main, main') /\ JobKnows' /\ FlushStored'
<1> DEFINE t    == job.term
           lh   == IF Fits THEN job.lh ELSE job.lh + 1
           code == Encode(Chunk, Base)
           rest == SubSeq(job.rest, Len(Chunk) + 1, Len(job.rest))
           r    == Written(main)
<1>1. /\ main' = AppendChunk(main, t, lh, ChunkHeader, code, ~Fits)
      /\ main.clist = t /\ job # NoJob /\ pc = "flush" /\ pc' = pc
      /\ job' = IF rest = <<>> THEN NoJob
                ELSE [job EXCEPT !.lh = lh, !.hdr = ChunkHeader, !.rest = rest]
      /\ UNCHANGED <<todo, cache>>
  BY DEF EmitChunk, Target, SetTarget, indexer
<1>2. /\ IsIndex(main) /\ IsIndex(main') /\ SoundIndex(main)
      /\ job \in [term : Terms \cup {NoTerm}, lh : Nat,
                  hdr : [ID : Nat, BodySize : Nat, FIDmax : Nat], rest : Seq(1..MaxFID)]
  BY DEF TypeInv, TypeOK, KeptInv
<1>3. ToSet(job.rest) = ToSet(Chunk) \cup ToSet(rest)
  BY <1>1, ChunkCoded
<1>4. ChunkFor(main, t, lh, ChunkHeader, code, Chunk, ~Fits)
  BY <1>1, ChunkGoes
<1>5. ChunkHeader.ID = lh /\ lh \in Nat
  BY <1>4, Zenon DEF ChunkFor, GoesLast
<1> HIDE DEF code, r
<1>6. /\ Continues(main, main') /\ Keeps(r, Written(main')) /\ CountIn(Written(main'), t) = lh
      /\ \A f \in ToSet(Chunk) : Stored(Written(main'), t, f)
  <2>1. r = Written(main)
    BY DEF r
  <2> HIDE DEF t, lh
  <2>2. QED
    BY <1>1, <1>2, <1>4, <2>1, AppendContinues
<1>7. JobKnows'
  <2>1. CASE rest = <<>>
    BY <1>1, <2>1 DEF JobKnows
  <2>2. CASE rest # <<>>
    <3>1. job'.term = t /\ job'.lh = lh /\ job'.hdr = ChunkHeader
      BY <1>1, <1>2, <2>2
    <3>2. QED
      BY <1>5, <1>6, <3>1 DEF JobKnows
  <2>3. QED
    BY <2>1, <2>2
<1>8. FlushStored'
  <2> SUFFICES ASSUME NEW u \in Terms, NEW f \in ToSet(cache[u]), u \notin todo
               PROVE  \/ u = job'.term /\ f \in ToSet(job'.rest)
                      \/ Stored(Written(main'), u, f)
    BY <1>1 DEF FlushStored
  <2>1. (u = t /\ f \in ToSet(job.rest)) \/ Stored(r, u, f)
    BY <1>1 DEF KeptInv, FlushStored, r
  <2>2. CASE u = t /\ f \in ToSet(Chunk)
    BY <1>6, <2>2
  <2>3. CASE u = t /\ f \in ToSet(rest)
    <3>1. rest # <<>>
      BY <2>3 DEF ToSet
    <3>2. job'.term = t /\ job'.rest = rest
      BY <1>1, <1>2, <3>1
    <3>3. QED
      BY <2>3, <3>2
  <2>4. CASE Stored(r, u, f)
    BY <1>6, <2>4, KeepsStored
  <2>5. QED
    BY <1>3, <2>1, <2>2, <2>3, <2>4
<1>9. QED
  BY <1>6, <1>7, <1>8

\* A list begins with what its header and its last block tell.
LEMMA BeginKept ==
  ASSUME TypeInv, GenuineInv, KeptInv, op # "BUILD_MERGE", NEW t \in Terms, BeginList(t)
  PROVE  Continues(main, main') /\ JobKnows' /\ FlushStored'
<1> DEFINE lh  == GetPListHeader(main, t)
           hdr == IF lh = 0 THEN NullHdr ELSE GetPListBlockHeader(main, t, lh)
<1>1. /\ IsIndex(main) /\ GoodIndex(Genuine, main) /\ SoundIndex(main)
      /\ t \in todo /\ main.clist \notin todo /\ pc = "flush" /\ job = NoJob
      /\ UNCHANGED cache
  BY DEF TypeInv, TypeOK, GenuineInv, KeptInv, TodoUntouched, BeginList, indexer
<1>2. ListHeader(t) = lh /\ BlockHeader(t, lh) = GetPListBlockHeader(main, t, lh)
  BY DEF ListHeader, BlockHeader, DeltaFirst
<1>3. main' \in {main, Sync(main)}
  <2>1. main' = IF op # "GET" /\ ReadsMain(t) THEN Sync(main) ELSE main
    BY Zenon DEF BeginList
  <2>2. QED
    BY <2>1
<1>4. Continues(main, main') /\ Written(main') = Written(main)
  BY <1>1, <1>3, SyncContinues, SameContinues
<1>5. CASE Fail
  <2>1. pc' = "idle" /\ job' = NoJob
    BY <1>5 DEF Fail
  <2>2. QED
    BY <1>4, <2>1 DEF JobKnows, FlushStored
<1>6. CASE ~Fail
  <2>1. /\ job' = [term |-> t, lh |-> lh, hdr |-> hdr, rest |-> cache[t]]
        /\ todo' = todo \ {t} /\ ~(lh # 0 /\ hdr = NullHdr)
    BY <1>2, <1>6, Zenon DEF BeginList
  <2>2. job'.term = t /\ job'.lh = lh /\ job'.hdr = hdr /\ job'.rest = cache[t]
    BY <2>1
  <2>3. hdr.ID = lh
    <3>1. CASE lh = 0
      <4>1. hdr = NullHdr /\ NullHdr.ID = 0
        BY <3>1 DEF NullHdr
      <4>2. QED
        BY <3>1, <4>1
    <3>2. CASE lh # 0
      <4>1. hdr = ReadBlock(main, t, lh).hdr /\ hdr # NullHdr
        BY <2>1, <3>2 DEF GetPListBlockHeader
      <4> HIDE DEF lh, hdr
      <4>2. GoodRecord(Genuine, <<t, lh>>, ReadBlock(main, t, lh))
        BY <1>1, ReadGood
      <4>3. QED
        BY <4>1, <4>2 DEF GoodRecord
    <3>3. QED
      BY <3>1, <3>2
  <2>4. lh = CountIn(Written(main), t)
    <3> DEFINE V == View(main)
               u == main.clist
               c == main.cache
               S == DOMAIN c
               w == Written(main)
    <3>1. w = Over(V, u, c, S) /\ u # t
      BY <1>1 DEF Written
    <3>2. lh = IF Has(V, t, 1) THEN V[<<t, 1>>].lh ELSE 0
      BY DEF GetPListHeader, ReadBlock, Has, NoBlock
    <3> HIDE DEF V, u, c, S, w, lh
    <3>3. /\ Has(w, t, 1) <=> Has(V, t, 1) \/ (t = u /\ 1 \in S)
          /\ Has(w, t, 1) => w[<<t, 1>>] = IF t = u /\ 1 \in S THEN c[1] ELSE V[<<t, 1>>]
      BY <3>1, OverRecords DEF Has
    <3>4. lh = CountIn(w, t)
      BY <3>1, <3>2, <3>3 DEF CountIn, Has
    <3>5. QED
      BY <3>4 DEF w
  <2> HIDE DEF lh, hdr
  <2>5. JobKnows'
    BY <1>4, <2>2, <2>3, <2>4 DEF JobKnows
  <2>6. FlushStored'
    <3> SUFFICES ASSUME NEW u \in Terms, NEW f \in ToSet(cache[u]), u \notin todo'
                 PROVE  \/ u = job'.term /\ f \in ToSet(job'.rest)
                        \/ Stored(Written(main'), u, f)
      BY <1>1 DEF FlushStored
    <3>1. job.rest = <<>> /\ ToSet(<<>>) = {}
      BY <1>1 DEF NoJob, ToSet
    <3>2. u \in todo \/ Stored(Written(main), u, f)
      BY <1>1, <3>1 DEF KeptInv, FlushStored
    <3>3. QED
      BY <1>4, <2>1, <2>2, <3>2
  <2>7. QED
    BY <1>4, <2>5, <2>6
<1>7. QED
  BY <1>5, <1>6

\* The block cache moves to another list, or is dropped at the end of a flush,
\* after it is written out.
LEMMA WriteKept ==
  ASSUME TypeInv, KeptInv, op # "BUILD_MERGE", MoveCache \/ EndFlush
  PROVE  /\ Continues(main, main') /\ Written(main') = Written(main)
         /\ View(main') = Written(main)
<1>1. IsIndex(main) /\ SoundIndex(main)
  BY DEF TypeInv, TypeOK, KeptInv
<1>2. \E order \in WriteOrders(main) :
        main' \in {FlushBlockCache(main, order), SwitchList(main, job.term, order)}
  BY DEF MoveCache, EndFlush, Target, SetTarget
<1>3. QED
  BY <1>1, <1>2, FlushContinues

\* No step but a crash takes anything from the index.
LEMMA MainContinues ==
  ASSUME "BUILD_MERGE" \notin Ops, TypeInv, GenuineInv, KeptInv, [Next]_vars, ~Crash
  PROVE  Continues(main, main')
<1>1. /\ op # "BUILD_MERGE" /\ pc # "merge" /\ IsIndex(main) /\ SoundIndex(main) /\ TypeInv'
  BY NextType DEF TypeInv, TypeOK, GenuineInv, KeptInv, Phases
<1>2. Continues(main, main) /\ Continues(main, Sync(main)) /\ Continues(main, ClearCache(main))
  BY <1>1, SameContinues, SyncContinues, ClearContinues
<1>3. ASSUME NEW mode \in Ops, OpenStore(mode) PROVE Continues(main, main')
  BY <1>2, <1>3 DEF OpenStore
<1>4. CASE CloseStore
  BY <1>2, <1>4 DEF CloseStore
<1>5. CASE Start
  BY <1>2, <1>5 DEF Start
<1>6. ASSUME NEW f \in 1..MaxFID, NEW ts \in Recordings, NEW emit \in BOOLEAN, Index(f, ts, emit)
      PROVE  Continues(main, main')
  BY <1>2, <1>6 DEF Index, BeginFlush
<1>7. CASE IndexAudioError
  BY <1>2, <1>7 DEF IndexAudioError, store
<1>8. CASE Flush
  BY <1>2, <1>8 DEF Flush, BeginFlush
<1>9. ASSUME NEW flush \in BOOLEAN, End(flush) PROVE Continues(main, main')
  BY <1>2, <1>9 DEF End, BeginFlush
<1>10. ASSUME NEW t \in Terms, BeginList(t) PROVE Continues(main, main')
  BY <1>1, <1>10, BeginKept
<1>11. CASE RejectChunk
  BY <1>2, <1>11 DEF RejectChunk, store
<1>12. CASE MoveCache \/ EndFlush
  BY <1>1, <1>12, WriteKept
<1>13. CASE EmitChunk
  BY <1>1, <1>13, EmitKept
<1>14. CASE EndSession
  BY <1>2, <1>14 DEF EndSession
<1>15. ~(\E k \in mtodo : MergeRecord(k)) /\ ~EndMerge
  BY <1>1 DEF MergeRecord, EndMerge
<1>16. CASE UNCHANGED vars
  BY <1>2, <1>16 DEF vars, store
<1>17. QED
  BY <1>3, <1>4, <1>5, <1>6, <1>7, <1>8, <1>9, <1>10, <1>11, <1>12, <1>13, <1>14, <1>15,
     <1>16 DEF Next

\* A crash keeps what was safe.
LEMMA CrashContinues ==
  ASSUME TypeInv, KeptInv, Crash
  PROVE  SoundIndex(main') /\ Inherits(main, main') /\ View(main') \in Remains(main)
<1>1. IsIndex(main) /\ SoundIndex(main) /\ \E n \in 0..Len(main.pool) : main' = Survivor(main, n)
  BY DEF TypeInv, TypeOK, KeptInv, Crash
<1>2. QED
  BY <1>1, SurvivorContinues

\* The first state: nothing is stored.
LEMMA KeptInit == Init => KeptInv
<1> SUFFICES ASSUME Init PROVE KeptInv
  OBVIOUS
<1>1. main = EmptyIndex /\ pc = "idle" /\ job = NoJob /\ session = {} /\ acked = {} /\ durable = {}
  BY DEF Init
<1>2. IsIndex(main) /\ main.pool = <<>> /\ main.cache = NoRecords
  BY <1>1, EmptyType DEF EmptyIndex
<1>3. DOMAIN View(main) = {}
  <2>1. DOMAIN View(main) = DOMAIN main.disk \cup {main.pool[i][1] : i \in DOMAIN main.pool}
    BY Zenon DEF View, Overlay
  <2>2. main.disk = NoRecords
    BY <1>1 DEF EmptyIndex
  <2>3. QED
    BY <1>2, <2>1, <2>2 DEF NoRecords
<1>4. Sound(View(main))
  BY <1>3 DEF Sound, CountsAreNat, CountIn, Has
<1>5. SoundIndex(main)
  BY <1>2, <1>4, RemainNone, WrittenEmpty DEF SoundIndex
<1>6. QED
  BY <1>1, <1>5 DEF KeptInv, JobKnows, DurableStored, AckedStored, SessionStored, FlushStored
\* A flush begins: every cached list is to do.
LEMMA BeginFlushKept ==
  ASSUME job = NoJob, cache' \in [Terms -> Seq(1..MaxFID)], NEW after, BeginFlush(cache', after)
  PROVE  JobKnows' /\ FlushStored' /\ pc' = "flush"
<1>1. job' = NoJob /\ pc' = "flush" /\ todo' = {t \in Terms : cache'[t] # <<>>}
  BY DEF BeginFlush
<1>2. ASSUME NEW t \in Terms, NEW f \in ToSet(cache'[t]) PROVE t \in todo'
  <2>1. cache'[t] # <<>>
    BY <1>2 DEF ToSet
  <2>2. QED
    BY <1>1, <2>1
<1>3. QED
  BY <1>1, <1>2 DEF JobKnows, FlushStored

\* A step that keeps what is stored.  What the session still counts on is in
\* the indexer's cache, or it was stored.
LEMMA StepKept ==
  ASSUME KeptInv, Continues(main, main'), durable' = durable, acked' = acked,
         JobKnows', FlushStored',
         \A p \in session' : \/ pc' # "end" /\ p[2] \in ToSet(cache'[p[1]])
                             \/ Stored(View(main), p[1], p[2])
                             \/ Stored(View(main'), p[1], p[2])
  PROVE  KeptInv'
<1>1. /\ SoundIndex(main)' /\ DurableStored' /\ AckedStored'
      /\ \A t, f : Stored(View(main), t, f) => Stored(View(main'), t, f)
  BY ContinuesKept
<1>2. SessionStored'
  BY <1>1 DEF SessionStored
<1>3. QED
  BY <1>1, <1>2 DEF KeptInv

\* A flush ends: what was cached is stored.
LEMMA EndFlushKept ==
  ASSUME TypeInv, KeptInv, op # "BUILD_MERGE", EndFlush
  PROVE  \A p \in session : Stored(View(main'), p[1], p[2])
<1>1. /\ pc = "flush" /\ job = NoJob /\ todo = {}
      /\ View(main') = Written(main) /\ Keeps(View(main), View(main'))
  BY WriteKept DEF EndFlush, Continues
<1>2. job.rest = <<>> /\ ToSet(<<>>) = {}
  BY <1>1 DEF NoJob, ToSet
<1>3. ASSUME NEW p \in session PROVE Stored(View(main'), p[1], p[2])
  <2>1. p[1] \in Terms
    BY DEF TypeInv, TypeOK
  <2>2. CASE p[2] \in ToSet(cache[p[1]])
    BY <1>1, <1>2, <2>1, <2>2 DEF KeptInv, FlushStored
  <2>3. CASE Stored(View(main), p[1], p[2])
    BY <1>1, <2>3, KeepsStored
  <2>4. QED
    BY <2>2, <2>3 DEF KeptInv, SessionStored
<1>4. QED
  BY <1>3

\* Every step keeps the invariant.
LEMMA KeptNext ==
  ASSUME "BUILD_MERGE" \notin Ops, TypeInv, GenuineInv, KeptInv, [Next]_vars
  PROVE  KeptInv'
<1>1. /\ op # "BUILD_MERGE" /\ IsIndex(main) /\ TypeInv'
      /\ pc # "flush" => job = NoJob
  BY NextType DEF TypeInv, TypeOK, GenuineInv, Phases
<1>2. /\ cache \in [Terms -> Seq(1..MaxFID)] /\ cache' \in [Terms -> Seq(1..MaxFID)]
      /\ \A p \in session : p[1] \in Terms /\ p[2] \in 1..MaxFID
  BY <1>1 DEF TypeInv, TypeOK
<1>3. ~Crash => Continues(main, main')
  BY MainContinues
<1>4. \A p \in session : \/ pc # "end" /\ p[2] \in ToSet(cache[p[1]])
                         \/ Stored(View(main), p[1], p[2])
  BY DEF KeptInv, SessionStored
<1>5. job' = NoJob => JobKnows'
  BY DEF JobKnows
<1>6. pc' # "flush" => FlushStored'
  BY DEF FlushStored
<1>7. ASSUME NEW mode \in Ops, OpenStore(mode) PROVE KeptInv'
  <2>1. UNCHANGED <<main, pc, todo, job, cache, session, acked, durable>>
    BY <1>7 DEF OpenStore, indexer, call, history
  <2>2. QED
    BY <2>1 DEF KeptInv, JobKnows, DurableStored, AckedStored, SessionStored, FlushStored
<1>8. CASE CloseStore
  <2>1. /\ main' = Sync(main) /\ durable' = acked /\ pc = "idle"
        /\ UNCHANGED <<pc, todo, job, cache, session, acked>>
    BY <1>8 DEF CloseStore, indexer, call
  <2>2. IsIndex(main') /\ View(main') = View(main) /\ main'.pool = <<>> /\ SoundIndex(main')
    <3>1. main'.pool = <<>>
      BY <1>1, <2>1 DEF IsIndex, Sync
    <3>2. SoundIndex(main')
      BY <1>1, <2>1, SyncContinues DEF KeptInv, Continues
    <3>3. QED
      BY <1>1, <2>1, <3>1, <3>2, SyncType, SyncView
  <2>3. Remains(main') = {View(main)}
    BY <2>2, RemainNone
  <2>4. DurableStored'
    <3>1. ASSUME NEW p \in acked PROVE Safe(main', p[1], p[2])
      BY <2>3 DEF KeptInv, AckedStored, Stored, Safe
    <3>2. QED
      BY <2>1, <3>1 DEF DurableStored
  <2>5. AckedStored' /\ SessionStored'
    BY <1>4, <2>1, <2>2 DEF KeptInv, AckedStored, SessionStored
  <2>6. QED
    BY <1>1, <1>5, <1>6, <2>1, <2>2, <2>4, <2>5 DEF KeptInv
<1>9. CASE Crash
  <2>1. /\ session' = {} /\ job' = NoJob /\ pc' = "idle" /\ acked' = durable /\ durable' = durable
    BY <1>9 DEF Crash
  <2>2. SoundIndex(main') /\ Inherits(main, main')
    BY <1>9, CrashContinues
  <2>3. IsIndex(main') /\ View(main') \in Remains(main')
    BY <1>1, RemainAll DEF TypeInv, TypeOK
  <2>4. \A p \in durable : Safe(main', p[1], p[2])
    BY <2>2, SafeKept DEF KeptInv, DurableStored
  <2>5. \A p \in durable : Stored(View(main'), p[1], p[2])
    BY <2>3, <2>4 DEF Safe, Stored
  <2>6. DurableStored' /\ AckedStored' /\ SessionStored'
    BY <2>1, <2>4, <2>5 DEF DurableStored, AckedStored, SessionStored
  <2>7. QED
    BY <1>5, <1>6, <2>1, <2>2, <2>6 DEF KeptInv
<1>10. CASE Start
  <2>1. session' = {} /\ pc' = pc /\ job' = job /\ pc = "idle" /\ UNCHANGED <<acked, durable>>
    BY <1>10 DEF Start, call
  <2>2. ~Crash
    BY <1>10, <2>1 DEF Crash, Start
  <2>3. QED
    BY <1>1, <1>3, <1>5, <1>6, <2>1, <2>2, StepKept
<1>11. ASSUME NEW f \in 1..MaxFID, NEW ts \in Recordings, NEW emit \in BOOLEAN, Index(f, ts, emit)
       PROVE  KeptInv'
  <2>1. /\ pc = "idle" /\ session' = session \cup (ts \X {f}) /\ UNCHANGED <<acked, durable, open>>
        /\ cache' = [t \in Terms |-> IF t \in ts THEN Append(cache[t], f) ELSE cache[t]]
        /\ ts \subseteq Terms /\ open
    BY <1>11 DEF Index, Recordings
  <2>2. \A p \in ts \X {f} : p[2] \in ToSet(cache'[p[1]])
    <3>1. ASSUME NEW t \in ts PROVE f \in ToSet(cache'[t])
      BY <1>2, <2>1, PieceElements
    <3>2. QED
      BY <3>1
  <2>3. \A t \in Terms : ToSet(cache[t]) \subseteq ToSet(cache'[t])
    <3>1. ASSUME NEW t \in Terms PROVE ToSet(cache[t]) \subseteq ToSet(cache'[t])
      BY <1>2, <2>1, PieceElements
    <3>2. QED
      BY <3>1
  <2>4. Continues(main, main')
    BY <1>3, <1>11, <2>1 DEF Crash
  <2>5. CASE BeginFlush(cache', "idle")
    <3>1. JobKnows' /\ FlushStored' /\ pc' = "flush"
      BY <1>1, <1>2, <2>1, <2>5, BeginFlushKept
    <3>2. QED
      BY <1>2, <1>4, <2>1, <2>2, <2>3, <2>4, <3>1, StepKept
  <2>6. CASE UNCHANGED <<run, main, delta, call>>
    <3>1. pc' = "idle" /\ job' = NoJob
      BY <1>1, <2>1, <2>6 DEF call
    <3>2. QED
      BY <1>2, <1>4, <1>5, <1>6, <2>1, <2>2, <2>3, <2>4, <3>1, StepKept
  <2>7. QED
    BY <1>11, <2>5, <2>6, Zenon DEF Index
<1>12. CASE IndexAudioError
  <2>1. /\ pc = "idle" /\ session' = {p \in session : p[2] \notin ToSet(cache[p[1]])}
        /\ UNCHANGED <<main, pc, job, acked, durable>>
    BY <1>12 DEF IndexAudioError, store, call
  <2>2. Continues(main, main')
    BY <2>1, SameContinues DEF KeptInv
  <2>3. QED
    BY <1>1, <1>4, <1>5, <1>6, <2>1, <2>2, StepKept
<1>13. CASE Flush
  <2>1. /\ pc = "idle" /\ BeginFlush(cache', "idle") /\ UNCHANGED <<cache, session, acked, durable>>
    BY <1>13 DEF Flush, indexer, history
  <2>2. JobKnows' /\ FlushStored' /\ pc' = "flush"
    BY <1>1, <1>2, <2>1, BeginFlushKept
  <2>3. Continues(main, main')
    BY <1>3, <1>13 DEF Flush, indexer, Crash
  <2>4. QED
    BY <1>4, <2>1, <2>2, <2>3, StepKept
<1>14. ASSUME NEW flush \in BOOLEAN, End(flush) PROVE KeptInv'
  <2>1. pc = "idle" /\ UNCHANGED <<cache, acked, durable>> /\ open /\ open' = open
    BY <1>14 DEF End, indexer
  <2>2. Continues(main, main')
    BY <1>3, <2>1 DEF Crash
  <2>3. CASE BeginFlush(cache, "end") /\ UNCHANGED session
    <3>1. JobKnows' /\ FlushStored' /\ pc' = "flush"
      BY <1>1, <1>2, <2>1, <2>3, BeginFlushKept
    <3>2. QED
      BY <1>4, <2>1, <2>2, <2>3, <3>1, StepKept
  <2>4. CASE /\ pc' = "end" /\ job' = job
             /\ session' = {p \in session : p[2] \notin ToSet(cache[p[1]])}
    BY <1>1, <1>4, <1>5, <1>6, <2>1, <2>2, <2>4, StepKept
  <2>5. QED
    BY <1>14, <2>3, <2>4 DEF End
<1>15. ASSUME NEW t \in Terms, BeginList(t) PROVE KeptInv'
  <2>1. Continues(main, main') /\ JobKnows' /\ FlushStored'
    BY <1>1, <1>15, BeginKept
  <2>2. /\ pc = "flush" /\ pc' \in {"flush", "idle"}
        /\ UNCHANGED <<cache, session, acked, durable>>
    BY <1>15 DEF BeginList, Fail, indexer, history
  <2>3. QED
    BY <1>4, <2>1, <2>2, StepKept
<1>16. CASE RejectChunk
  <2>1. /\ pc = "flush" /\ pc' = "idle" /\ job' = NoJob
        /\ UNCHANGED <<main, cache, session, acked, durable>>
    BY <1>16 DEF RejectChunk, Fail, indexer, store, history
  <2>2. Continues(main, main')
    BY <2>1, SameContinues DEF KeptInv
  <2>3. QED
    BY <1>4, <1>5, <1>6, <2>1, <2>2, StepKept
<1>17. CASE MoveCache
  <2>1. UNCHANGED <<pc, todo, job, cache, session, acked, durable>>
    BY <1>17 DEF MoveCache, indexer, call, history
  <2>2. Continues(main, main') /\ Written(main') = Written(main)
    BY <1>1, <1>17, WriteKept
  <2>3. JobKnows' /\ FlushStored'
    BY <2>1, <2>2 DEF KeptInv, JobKnows, FlushStored
  <2>4. QED
    BY <1>4, <2>1, <2>2, <2>3, StepKept
<1>18. CASE EmitChunk
  <2>1. Continues(main, main') /\ JobKnows' /\ FlushStored'
    BY <1>1, <1>18, EmitKept
  <2>2. UNCHANGED <<pc, cache, session, acked, durable>>
    BY <1>18 DEF EmitChunk, indexer, history
  <2>3. QED
    BY <1>4, <2>1, <2>2, StepKept
<1>19. CASE EndFlush
  <2>1. \A p \in session : Stored(View(main'), p[1], p[2])
    BY <1>1, <1>19, EndFlushKept
  <2>2. /\ pc' \in {"idle", "end"} /\ job' = NoJob /\ UNCHANGED <<session, acked, durable>>
    BY <1>19 DEF EndFlush, TypeInv, TypeOK, history
  <2>3. Continues(main, main')
    BY <1>1, <1>19, WriteKept
  <2>4. QED
    BY <1>5, <1>6, <2>1, <2>2, <2>3, StepKept
<1>20. CASE EndSession
  <2>1. /\ pc = "end" /\ pc' = "idle" /\ acked' = acked \cup session /\ session' = {}
        /\ UNCHANGED <<main, job, durable>>
    BY <1>1, <1>20 DEF EndSession, Acknowledge
  <2>2. AckedStored'
    BY <1>4, <2>1 DEF KeptInv, AckedStored
  <2>3. SoundIndex(main)' /\ DurableStored' /\ SessionStored'
    BY <2>1 DEF KeptInv, DurableStored, SessionStored
  <2>4. QED
    BY <1>1, <1>5, <1>6, <2>1, <2>2, <2>3 DEF KeptInv
<1>21. ~(\E k \in mtodo : MergeRecord(k)) /\ ~EndMerge
  BY DEF MergeRecord, EndMerge, GenuineInv, Phases
<1>22. CASE UNCHANGED vars
  <2>1. UNCHANGED <<main, pc, todo, job, cache, session, acked, durable>>
    BY <1>22 DEF vars, store, indexer, call, history
  <2>2. QED
    BY <2>1 DEF KeptInv, JobKnows, DurableStored, AckedStored, SessionStored, FlushStored
<1>23. QED
  BY <1>7, <1>8, <1>9, <1>10, <1>11, <1>12, <1>13, <1>14, <1>15, <1>16, <1>17, <1>18, <1>19,
     <1>20, <1>21, <1>22 DEF Next
-----------------------------------------------------------------------------
(* What a reader finds.                                                    *)

\* The blocks of a list are those of its records.
LEMMA ListBlocks ==
  ASSUME NEW r, AreRecords(r, Keys), NEW t
  PROVE  /\ BlocksIn(r, t, BlocksOf(r, t))
         /\ IsFiniteSet(DOMAIN r) => IsFiniteSet(DOMAIN BlocksOf(r, t))
<1> DEFINE blocks == BlocksOf(r, t)
<1>1. blocks = [id \in {k[2] : k \in {q \in DOMAIN r : q[1] = t}} |-> r[<<t, id>>]]
  BY DEF BlocksOf
<1>2. \A k \in DOMAIN r : k = <<k[1], k[2]>>
  BY DEF AreRecords, Keys
<1> HIDE DEF blocks
<1>3. BlocksIn(r, t, blocks) /\ (IsFiniteSet(DOMAIN r) => IsFiniteSet(DOMAIN blocks))
  BY <1>1, <1>2, BlocksGiven
<1>4. QED
  BY <1>3 DEF blocks

\* A reader finds a posting exactly if it reads it in the records, and a list
\* whose blocks are all there has no gap.
LEMMA ReaderFinds ==
  ASSUME NEW ix, IsIndex(ix), NEW G, GoodIndex(G, ix), SoundIndex(ix), NEW t \in Terms
  PROVE  /\ \A f : f \in ToSet(Postings(ix, t)) <=> ReadIn(View(ix), t, f)
         /\ Whole(ix, t) => ~Gap(View(ix), t)
<1> DEFINE V == View(ix)
           blocks == BlocksOf(V, t)
<1>1. IsFiniteSet(DOMAIN V) /\ AreRecords(V, Keys)
  BY ReadGood, OverlayType DEF IsIndex, View
<1>2. Sound(V)
  BY RemainAll DEF SoundIndex
<1>3. GetPListHeader(ix, t) = CountIn(V, t)
  <2>1. NoBlock.lh = 0
    BY DEF NoBlock
  <2>2. QED
    BY <2>1 DEF GetPListHeader, ReadBlock, CountIn, Has
<1>4. Postings(ix, t) = ListOf(blocks)
  BY DEF Postings
<1>5. Whole(ix, t) <=> 1..GetPListHeader(ix, t) \subseteq DOMAIN blocks
  BY DEF Whole
<1> HIDE DEF V
<1>6. BlocksIn(V, t, blocks) /\ IsFiniteSet(DOMAIN blocks)
  BY <1>1, ListBlocks
<1> HIDE DEF blocks
<1>7. \A b : Has(V, t, b) => V[<<t, b>>].body \in Seq(Nat) /\ V[<<t, b>>].body # <<>>
  BY <1>1, <1>2 DEF AreRecords, BlockRecords, Has, Sound
<1>8. \A f : f \in ToSet(ListOf(blocks)) <=> ReadIn(V, t, f)
  BY <1>6, <1>7, BlocksRead
<1>9. Whole(ix, t) => ~Gap(V, t)
  BY <1>3, <1>5, <1>6 DEF Gap, BlocksIn
<1>10. QED
  BY <1>4, <1>8, <1>9 DEF V

\* What is here is read.
LEMMA HereIsRead ==
  ASSUME NEW r, CountsAreNat(r), NEW t, NEW f, Here(r, t, f)
  PROVE  ReadIn(r, t, f)
BY DEF CountsAreNat, Here, ReadIn

\* Once End has returned, what the session indexed is found in every list whose
\* blocks are all there, and what is found stays; a crash takes back only what
\* was acknowledged after the store was last closed.  For any number of
\* sessions of any lists, any chunk, block and cache limits, and any number of
\* crashes at any point, each keeping any prefix of the pending writes; in a
\* store that is opened for reading and for building.
THEOREM KeptAcknowledged ==
  ASSUME "BUILD_MERGE" \notin Ops
  PROVE  Spec => AckedKept
<1> DEFINE Inv  == TypeInv /\ GenuineInv /\ KeptInv
           Kept == \A p \in acked' :
                     /\ Whole(main', p[1]) => Finds(main', p)
                     /\ p \in acked /\ Finds(main, p) => Finds(main', p)
<1>1. Inv /\ [Next]_vars => Inv'
  BY NextType, GenuineNext, KeptNext
<1>2. Init => Inv
  BY InitType, GenuineInit, KeptInit
<1>3. Inv => \A t \in Terms :
               /\ \A f : f \in ToSet(Postings(main, t)) <=> ReadIn(View(main), t, f)
               /\ Whole(main, t) => ~Gap(View(main), t)
  BY ReaderFinds DEF TypeInv, TypeOK, GenuineInv, KeptInv
<1>4. Inv' => \A t \in Terms :
                /\ \A f : f \in ToSet(Postings(main', t)) <=> ReadIn(View(main'), t, f)
                /\ Whole(main', t) => ~Gap(View(main'), t)
  BY ReaderFinds DEF TypeInv, TypeOK, GenuineInv, KeptInv
<1>5. Inv /\ [Next]_vars => [Kept]_vars
  <2> SUFFICES ASSUME Inv, Inv', [Next]_vars, NEW p \in acked'
               PROVE  /\ Whole(main', p[1]) => Finds(main', p)
                      /\ p \in acked /\ Finds(main, p) => Finds(main', p)
    BY <1>1
  <2>1. p[1] \in Terms /\ IsIndex(main) /\ IsIndex(main')
    BY DEF TypeInv, TypeOK
  <2>2. Stored(View(main'), p[1], p[2])
    BY DEF KeptInv, AckedStored
  <2>3. CountsAreNat(View(main'))
    BY <2>1, RemainAll DEF KeptInv, SoundIndex, Sound
  <2>4. /\ Finds(main', p) <=> ReadIn(View(main'), p[1], p[2])
        /\ Finds(main, p) <=> ReadIn(View(main), p[1], p[2])
    BY <1>3, <1>4, <2>1 DEF Finds
  <2>5. Whole(main', p[1]) => Finds(main', p)
    BY <1>4, <2>1, <2>2, <2>3, <2>4, HereIsRead DEF Stored, Lost
  <2>6. ASSUME p \in acked, Finds(main, p) PROVE Here(View(main'), p[1], p[2])
    <3>1. Here(View(main), p[1], p[2])
      BY <2>4, <2>6 DEF KeptInv, AckedStored, Stored, Lost
    <3>2. CASE Crash
      <4>1. p \in durable /\ View(main') \in Remains(main) /\ View(main) \in Remains(main)
        BY <2>1, <3>2, CrashContinues, RemainAll DEF Crash
      <4>2. Safe(main, p[1], p[2])
        BY <4>1 DEF KeptInv, DurableStored
      <4>3. QED
        BY <2>4, <2>6, <4>1, <4>2 DEF Safe, Lost
    <3>3. CASE ~Crash
      <4>1. Continues(main, main')
        BY <3>3, MainContinues
      <4>2. QED
        BY <3>1, <4>1 DEF Continues, Keeps
    <3>4. QED
      BY <3>2, <3>3
  <2>7. QED
    BY <2>3, <2>4, <2>5, <2>6, HereIsRead
<1>6. QED
  BY <1>1, <1>2, <1>5, PTL DEF Spec, AckedKept

-----------------------------------------------------------------------------
(* Tidy lists.                                                             *)

\* That is what an append does to the records that would be written.
LEMMA AppendExtended ==
  ASSUME NEW ix, IsIndex(ix), SoundIndex(ix), NEW r, r = Written(ix),
         NEW t, NEW lh, NEW hdr, NEW code, NEW chunk, NEW new,
         ChunkFor(ix, t, lh, hdr, code, chunk, new), new => ~Has(r, t, lh),
         NEW app, app = AppendChunk(ix, t, lh, hdr, code, new), IsIndex(app)
  PROVE  View(app) = View(ix) /\ Extended(r, Written(app), t, lh, hdr, code, chunk)
<1> DEFINE c == ix.cache
           d == app.cache
           w == Written(app)
           n == CountIn(r, t)
           fetched == Fetch(ix, t, lh, new)
           old == IF Has(r, t, lh) THEN r[<<t, lh>>].body ELSE <<>>
           first == new /\ hdr.ID # 1
<1>1. /\ t = ix.clist /\ lh \in Nat /\ new \in BOOLEAN /\ hdr.ID = lh
      /\ IF new THEN lh = n + 1 ELSE lh = n /\ lh # 0 /\ Has(r, t, lh)
      /\ Decode(fetched.body \o code) = Decode(fetched.body) \o chunk
  BY Zenon DEF ChunkFor, GoesLast
<1>2. View(app) = View(ix) /\ w = Over(r, t, d, DOMAIN d) /\ CountIn(w, t) = lh
  BY AppendContinues
<1>3. /\ DOMAIN d = DOMAIN c \cup {hdr.ID} \cup (IF first THEN {1} ELSE {})
      /\ d[hdr.ID] = AppendedTo(Fetch(ix, t, hdr.ID, new), lh, hdr, code)
      /\ first => d[1] = [Fetch(ix, t, 1, FALSE) EXCEPT !.lh = lh]
      /\ \A b \in DOMAIN c : b # hdr.ID /\ ~(first /\ b = 1) => d[b] = c[b]
  <2>1. Appended(ix, app, t, lh, hdr, code, new)
    BY <1>1, AppendRecords
  <2>2. QED
    BY <2>1 DEF Appended
<1>4. ASSUME NEW b \in DOMAIN c PROVE Has(r, t, b) /\ r[<<t, b>>] = c[b]
  <2> DEFINE S == DOMAIN c
             V == View(ix)
  <2>1. r = Over(V, t, c, S) /\ b \in S
    BY <1>1 DEF Written
  <2> HIDE DEF S, V, c
  <2>2. /\ Has(r, t, b) <=> Has(V, t, b) \/ (t = t /\ b \in S)
        /\ Has(r, t, b) => r[<<t, b>>] = IF t = t /\ b \in S THEN c[b] ELSE V[<<t, b>>]
    BY <2>1, OverRecords DEF Has
  <2>3. QED
    BY <2>1, <2>2 DEF Has
<1>5. \A b : Fetch(ix, t, b, FALSE) = IF Has(r, t, b) THEN r[<<t, b>>] ELSE NoBlock
  BY <1>1, FetchWritten
<1>6. fetched.body = old
  <2>1. CASE new
    <3>1. ~Has(r, t, lh) /\ lh \notin DOMAIN c
      BY <1>4, <2>1
    <3>2. fetched = NoBlock
      BY <2>1, <3>1 DEF Fetch, Cached
    <3>3. QED
      BY <3>1, <3>2 DEF NoBlock
  <2>2. CASE ~new
    <3>1. new = FALSE /\ Has(r, t, lh)
      BY <1>1, <2>2
    <3>2. QED
      BY <1>5, <3>1
  <2>3. QED
    BY <2>1, <2>2
<1>7. d[lh].hdr = hdr /\ d[lh].body = old \o code /\ lh \in DOMAIN d
  <2>1. lh \in DOMAIN d /\ d[lh] = AppendedTo(fetched, lh, hdr, code)
    BY <1>1, <1>3
  <2> HIDE DEF fetched, old, d
  <2>2. QED
    BY <1>6, <2>1 DEF AppendedTo
<1>8. CountIn(r, t) \in Nat
  <2>1. Sound(r)
    BY <1>1, SoundWritten DEF SoundIndex
  <2>2. QED
    BY <2>1 DEF Sound, CountsAreNat
<1>9. first => Has(r, t, 1) /\ d[1].hdr = r[<<t, 1>>].hdr /\ d[1].body = r[<<t, 1>>].body
  <2> SUFFICES ASSUME first
               PROVE  Has(r, t, 1) /\ d[1].hdr = r[<<t, 1>>].hdr /\ d[1].body = r[<<t, 1>>].body
    OBVIOUS
  <2>1. n # 0
    BY <1>1, <1>8
  <2>2. Has(r, t, 1)
    BY <2>1 DEF CountIn
  <2> DEFINE o == Fetch(ix, t, 1, FALSE)
  <2>3. d[1] = [o EXCEPT !.lh = lh] /\ o \in BlockRecords
    BY <1>1, <1>3, FetchType
  <2>4. o = r[<<t, 1>>]
    BY <1>5, <2>2
  <2> HIDE DEF o
  <2>5. d[1].body = o.body /\ d[1].hdr = o.hdr
    BY <2>3 DEF BlockRecords
  <2>6. QED
    BY <2>2, <2>4, <2>5
<1> HIDE DEF fetched, old, n, c, d, w
<1>10. ASSUME NEW b \in DOMAIN d, b # lh
       PROVE  Has(r, t, b) /\ d[b].hdr = r[<<t, b>>].hdr /\ d[b].body = r[<<t, b>>].body
  <2>1. CASE first /\ b = 1
    BY <1>9, <2>1
  <2>2. CASE ~(first /\ b = 1)
    <3>1. b \in DOMAIN c /\ d[b] = c[b]
      BY <1>1, <1>3, <1>10, <2>2
    <3>2. QED
      BY <1>4, <3>1
  <2>3. QED
    BY <2>1, <2>2
<1>11. \A u, b : /\ Has(w, u, b) <=> Has(r, u, b) \/ (u = t /\ b \in DOMAIN d)
                 /\ Has(w, u, b) => w[<<u, b>>] = IF u = t /\ b \in DOMAIN d THEN d[b] ELSE r[<<u, b>>]
  <2>1. ASSUME NEW u, NEW b
        PROVE  /\ Has(w, u, b) <=> Has(r, u, b) \/ (u = t /\ b \in DOMAIN d)
               /\ Has(w, u, b) => w[<<u, b>>] = IF u = t /\ b \in DOMAIN d THEN d[b] ELSE r[<<u, b>>]
    <3> DEFINE S == DOMAIN d
    <3>1. w = Over(r, t, d, S)
      BY <1>2
    <3> HIDE DEF S
    <3>2. /\ Has(w, u, b) <=> Has(r, u, b) \/ (u = t /\ b \in S)
          /\ Has(w, u, b) => w[<<u, b>>] = IF u = t /\ b \in S THEN d[b] ELSE r[<<u, b>>]
      BY <3>1, OverRecords DEF Has
    <3>3. QED
      BY <3>2 DEF S, Has
  <2>2. QED
    BY <2>1
<1>12. \A b : Has(w, t, b) <=> Has(r, t, b) \/ b = lh
  BY <1>7, <1>10, <1>11 DEF Has
<1>13. w[<<t, lh>>].hdr = hdr /\ w[<<t, lh>>].body = old \o code
  BY <1>7, <1>11 DEF Has
<1>14. ASSUME NEW b, Has(r, t, b), b # lh
       PROVE  w[<<t, b>>].hdr = r[<<t, b>>].hdr /\ w[<<t, b>>].body = r[<<t, b>>].body
  <2>1. CASE b \in DOMAIN d
    BY <1>10, <1>11, <1>14, <2>1 DEF Has
  <2>2. CASE b \notin DOMAIN d
    BY <1>11, <1>14, <2>2 DEF Has
  <2>3. QED
    BY <2>1, <2>2
<1>15. ASSUME NEW u, NEW b, u # t
       PROVE  (Has(w, u, b) <=> Has(r, u, b)) /\ (Has(r, u, b) => w[<<u, b>>] = r[<<u, b>>])
  BY <1>11, <1>15 DEF Has
<1>16. Decode(old \o code) = Decode(old) \o chunk
  BY <1>1, <1>6
<1>17. Extended(r, w, t, lh, hdr, code, chunk)
  BY <1>2, <1>12, <1>13, <1>14, <1>15, <1>16 DEF Extended, old
<1>18. QED
  BY <1>2, <1>17 DEF w

-----------------------------------------------------------------------------
(* The records of an index, as they are read and as they would be written. *)

\* A record that is there: it has a body, good and of numbers.
FullRecord(G, t, b, r) ==
  r \in BlockRecords /\ r.body # <<>> /\ GoodRecord(G, <<t, b>>, r)

\* What the process reads.
LEMMA ViewRecords ==
  ASSUME NEW G, NEW ix, IsIndex(ix), GoodIndex(G, ix), SoundIndex(ix)
  PROVE  /\ CountsAreNat(View(ix)) /\ \A t : Coded(View(ix), t)
         /\ \A t, b : Has(View(ix), t, b) => FullRecord(G, t, b, View(ix)[<<t, b>>])
<1> DEFINE V == View(ix)
<1>1. GoodRecords(G, V) /\ AreRecords(V, Keys)
  BY ReadGood, OverlayType DEF IsIndex, View
<1>2. Sound(V)
  BY SoundWritten
<1> HIDE DEF V
<1>3. ASSUME NEW t, NEW b, Has(V, t, b) PROVE FullRecord(G, t, b, V[<<t, b>>])
  BY <1>1, <1>2, <1>3 DEF FullRecord, GoodRecords, AreRecords, Sound, Has
<1>4. \A t : Coded(V, t)
  BY <1>3 DEF Coded, FullRecord, BlockRecords
<1>5. QED
  BY <1>2, <1>3, <1>4 DEF Sound, V

\* What would be written: it is what a chunk is appended to.
LEMMA WrittenRecords ==
  ASSUME NEW G, NEW ix, IsIndex(ix), GoodIndex(G, ix), SoundIndex(ix), NEW w, w = Written(ix)
  PROVE  /\ CountsAreNat(w) /\ \A t : Coded(w, t)
         /\ \A t, b : Current(ix, t, b) = IF Has(w, t, b) THEN w[<<t, b>>] ELSE NoBlock
         /\ \A t, b : Has(w, t, b) => FullRecord(G, t, b, w[<<t, b>>])
<1>1. Sound(w)
  BY SoundWritten
<1>2. ASSUME NEW t, NEW b
      PROVE  Current(ix, t, b) = IF Has(w, t, b) THEN w[<<t, b>>] ELSE NoBlock
  <2>1. CASE t = ix.clist
    BY <2>1, FetchWritten DEF Current
  <2>2. CASE t # ix.clist
    <3> DEFINE V == View(ix)
               u == ix.clist
               c == ix.cache
               S == DOMAIN c
    <3>1. w = Over(V, u, c, S)
      BY DEF Written
    <3>2. Current(ix, t, b) = IF Has(V, t, b) THEN V[<<t, b>>] ELSE NoBlock
      BY <2>2 DEF Current, ReadBlock, Has
    <3>3. t # u
      BY <2>2
    <3> HIDE DEF V, u, c, S
    <3>4. /\ Has(w, t, b) <=> Has(V, t, b) \/ (t = u /\ b \in S)
          /\ Has(w, t, b) => w[<<t, b>>] = IF t = u /\ b \in S THEN c[b] ELSE V[<<t, b>>]
      BY <3>1, OverRecords DEF Has
    <3>5. CASE Has(w, t, b)
      BY <3>2, <3>3, <3>4, <3>5 DEF Has
    <3>6. CASE ~Has(w, t, b)
      BY <3>2, <3>3, <3>4, <3>6 DEF Has
    <3>7. QED
      BY <3>5, <3>6
  <2>3. QED
    BY <2>1, <2>2
<1>3. ASSUME NEW t, NEW b, Has(w, t, b) PROVE FullRecord(G, t, b, w[<<t, b>>])
  <2>1. w[<<t, b>>] = Current(ix, t, b)
    BY <1>2, <1>3
  <2>2. Current(ix, t, b) \in BlockRecords /\ GoodRecord(G, <<t, b>>, Current(ix, t, b))
    BY FetchType, FetchGood, ReadType, ReadGood DEF Current
  <2>3. w[<<t, b>>].body # <<>>
    BY <1>1, <1>3 DEF Sound, Has
  <2>4. QED
    BY <2>1, <2>2, <2>3 DEF FullRecord
<1>4. \A t : Coded(w, t)
  BY <1>3 DEF Coded, FullRecord, BlockRecords
<1>5. QED
  BY <1>1, <1>2, <1>3, <1>4 DEF Sound

\* The list under way: its header is that of the last block that counts, and
\* tells the last posting of the list.
LEMMA JobLast ==
  ASSUME TypeInv, GenuineInv, KeptInv, job # NoJob, job.hdr # NullHdr, NEW w, w = Written(main)
  PROVE  LET last == w[<<job.term, job.lh>>]
         IN  /\ job.lh = CountIn(w, job.term) /\ job.lh # 0 /\ Has(w, job.term, job.lh)
             /\ last.hdr = job.hdr /\ job.hdr.FIDmax = Last(Decode(last.body))
             /\ Decode(last.body) \in Seq(FIDs32) /\ Decode(last.body) # <<>>
<1> DEFINE t == job.term
           last == w[<<t, job.lh>>]
<1>1. IsIndex(main) /\ GoodIndex(Genuine, main) /\ SoundIndex(main)
  BY DEF TypeInv, TypeOK, GenuineInv, KeptInv
<1>2. job.hdr.ID = job.lh /\ job.lh = CountIn(w, t)
  BY DEF KeptInv, JobKnows
<1>3. job.lh # 0 /\ Current(main, t, job.lh).hdr = job.hdr
  BY <1>2 DEF GenuineInv, JobTrue
<1>4. Current(main, t, job.lh) = IF Has(w, t, job.lh) THEN last ELSE NoBlock
  BY <1>1, WrittenRecords
<1>5. NoBlock.hdr = NullHdr
  BY DEF NoBlock
<1>6. Has(w, t, job.lh) /\ last.hdr = job.hdr
  BY <1>3, <1>4, <1>5
<1>7. FullRecord(Genuine, t, job.lh, last)
  BY <1>1, <1>6, WrittenRecords
<1> HIDE DEF last
<1>8. job.hdr.FIDmax = Last(Decode(last.body)) /\ last.body \in Seq(Nat) /\ last.body # <<>>
  BY <1>6, <1>7 DEF FullRecord, GoodRecord, BlockRecords
<1>9. Decode(last.body) \in Seq(FIDs32) /\ Decode(last.body) # <<>>
  <2>1. SumsOf(Decode(last.body), last.body) /\ Len(last.body) # 0
    BY <1>8, DecodeSums, EmptySeq
  <2>2. QED
    BY <2>1 DEF SumsOf
<1>10. QED
  BY <1>2, <1>3, <1>6, <1>8, <1>9 DEF last

-----------------------------------------------------------------------------
(* The invariant.                                                          *)

TidyLists == \A t \in Terms : Tidy(View(main), t) /\ Tidy(Written(main), t)

\* A recording is numbered above those before it.
CacheRises ==
  open => \A t \in Terms : Rising(cache[t]) /\ \A f \in ToSet(cache[t]) : f <= currFID

\* A flush of a store opened for reading gets to no list.
GetWaits == op = "GET" /\ pc = "flush" => \A t \in Terms : cache[t] # <<>> => t \in todo

\* A careful client numbers above what is in the index, so what is cached is
\* above what is read, and in a flush above what would be written.
JobRises ==
  job # NoJob =>
    /\ Rising(job.rest)
    /\ CarefulFIDs => \A f \in ToSet(job.rest) : Before(Written(main), job.term, f)

CacheAhead ==
  CarefulFIDs /\ open =>
    \A t \in Terms : \A f \in ToSet(cache[t]) :
      /\ pc # "flush" => Before(View(main), t, f)
      /\ pc = "flush" /\ t \in todo => Before(Written(main), t, f)

TidyInv == crashes = 0 /\ TidyLists /\ CacheRises /\ GetWaits /\ JobRises /\ CacheAhead

-----------------------------------------------------------------------------
(* A chunk is appended.                                                    *)

\* The chunk and what is left after it.
LEMMA ChunkRises ==
  ASSUME TypeInv, job # NoJob, Rising(job.rest),
         NEW rest, rest = SubSeq(job.rest, Len(Chunk) + 1, Len(job.rest))
  PROVE  /\ Rising(Chunk) /\ Rising(rest) /\ Below(ToSet(Chunk), ToSet(rest))
         /\ ChunkLimit = 1 => ToSet(Chunk) = {Last(Chunk)}
<1>1. Chunk \in Seq(1..MaxFID) /\ Len(Chunk) \in 1..Len(job.rest) /\ job.rest \in Seq(1..MaxFID)
  BY ChunkType DEF TypeInv, TypeOK
<1> DEFINE s == job.rest
           m == IF Len(s) < ChunkLimit THEN Len(s) ELSE ChunkLimit
<1>2. Chunk = SubSeq(s, 1, m) /\ Len(s) \in Nat /\ ChunkLimit \in Nat \ {0} /\ m \in 1..Len(s)
  <2>1. s # <<>> /\ s \in Seq(1..MaxFID)
    BY <1>1 DEF TypeInv, JobHasPostings
  <2>2. Chunk = SubSeq(s, 1, m)
    BY DEF Chunk
  <2> HIDE DEF s
  <2>3. Len(s) \in Nat \ {0} /\ ChunkLimit \in Nat \ {0}
    BY <2>1, SessionAssumption
  <2>4. m \in 1..Len(s)
    BY <2>3
  <2>5. QED
    BY <2>2, <2>3, <2>4
<1>3. Len(Chunk) = m
  <2>1. \A i \in 1..m : s[i] \in 1..MaxFID
    BY <1>1, <1>2, FIDsType
  <2>2. m \in Nat /\ 1 <= m
    BY <1>2
  <2>3. Len(SubSeq(s, 1, m)) = IF 1 <= m THEN m - 1 + 1 ELSE 0
    <3> HIDE DEF m, s
    <3>1. QED
      BY <2>1, <2>2, SubSeqProperties
  <2>4. QED
    BY <1>2, <2>2, <2>3
<1>4. Chunk = SubSeq(s, 1, Len(Chunk))
  BY <1>2, <1>3
<1>5. Rising(Chunk) /\ Rising(rest) /\ Below(ToSet(Chunk), ToSet(rest))
  <2> DEFINE c == Chunk
             n == Len(c)
  <2>1. c = SubSeq(s, 1, n) /\ n \in 1..Len(s) /\ rest = SubSeq(s, n + 1, Len(s))
    BY <1>1, <1>4
  <2>2. s \in Seq(1..MaxFID) /\ Rising(s)
    BY <1>1
  <2> HIDE DEF c, n, s
  <2>3. Rising(c) /\ Rising(rest) /\ Below(ToSet(c), ToSet(rest))
    <3>1. 1..MaxFID \in SUBSET Int
      OBVIOUS
    <3>2. QED
      BY <2>1, <2>2, <3>1, RisingPieces
  <2>4. QED
    BY <2>3 DEF c
<1>6. ASSUME ChunkLimit = 1 PROVE ToSet(Chunk) = {Last(Chunk)}
  <2> DEFINE c == Chunk
  <2>1. c \in Seq(1..MaxFID) /\ Len(c) = 1
    BY <1>1, <1>2, <1>3, <1>6
  <2> HIDE DEF c
  <2>2. DOMAIN c = {1} /\ Last(c) = c[1]
    BY <2>1 DEF Last
  <2>3. ToSet(c) = {Last(c)}
    BY <2>2 DEF ToSet
  <2>4. QED
    BY <2>3 DEF c
<1>7. QED
  BY <1>5, <1>6

\* The list under way has nothing above what its header tells, and has that.
LEMMA LastBefore ==
  ASSUME TypeInv, GenuineInv, KeptInv, job # NoJob, NEW w, w = Written(main),
         Tidy(w, job.term), NEW f \in 1..MaxFID
  PROVE  Before(w, job.term, f) <=> f > job.hdr.FIDmax
<1> DEFINE t == job.term
           n == job.lh
<1>1. n = CountIn(w, t) /\ n \in Nat /\ f \in Nat /\ f > 0
  BY SessionAssumption DEF KeptInv, JobKnows, TypeInv, TypeOK
<1>2. CASE job.hdr = NullHdr
  <2>1. job.hdr.FIDmax = 0 /\ n = 0
    BY <1>2 DEF NullHdr, KeptInv, JobKnows
  <2>2. QED
    BY <1>1, <2>1 DEF Before
<1>3. CASE job.hdr # NullHdr
  <2> DEFINE s == Decode(w[<<t, n>>].body)
             max == job.hdr.FIDmax
  <2>1. n # 0 /\ max = Last(s) /\ s \in Seq(FIDs32) /\ s # <<>>
    BY <1>3, JobLast
  <2>2. n \in 1..n /\ Rising(s) /\ FIDsOf(w[<<t, n>>]) = ToSet(s)
    BY <1>1, <2>1 DEF Tidy, InOrder, FIDsOf
  <2>3. FIDs32 \in SUBSET Int
    BY FidModAssumption DEF FIDs32
  <2> HIDE DEF s
  <2>4. max \in ToSet(s) /\ (\A g \in ToSet(s) : g <= max) /\ ToSet(s) \subseteq FIDs32
    <3>1. max \in ToSet(s) /\ \A g \in ToSet(s) : g <= max
      BY <2>1, <2>2, <2>3, RisingLast
    <3>2. ToSet(s) \subseteq FIDs32
      BY <2>1 DEF ToSet
    <3>3. QED
      BY <3>1, <3>2
  <2> HIDE DEF max
  <2>5. \A x \in FIDs32 : x \in Int
    BY <2>3
  <2>6. max \in Int
    BY <2>4, <2>5
  <2>7. Before(w, t, f) => max < f
    BY <1>1, <2>2, <2>4 DEF Before
  <2>8. ASSUME max < f, NEW b \in 1..n, NEW g \in FIDsOf(w[<<t, b>>]) PROVE g < f
    <3>1. CASE b = n
      <4>1. g <= max /\ g \in Int
        BY <2>2, <2>4, <2>5, <2>8, <3>1
      <4>2. QED
        BY <1>1, <2>6, <2>8, <4>1
    <3>2. CASE b # n
      <4>1. b < n
        BY <1>1, <3>2
      <4>2. Below(FIDsOf(w[<<t, b>>]), FIDsOf(w[<<t, n>>]))
        BY <1>1, <2>2, <4>1 DEF Tidy
      <4>3. g < max
        BY <2>2, <2>4, <2>8, <4>2 DEF Below
      <4>4. g \in Int
        <5>1. Has(w, t, b)
          BY <1>1 DEF Tidy
        <5>2. w[<<t, b>>].body \in Seq(Nat)
          BY <5>1, WrittenRecords DEF TypeInv, TypeOK, GenuineInv, KeptInv, Coded
        <5> DEFINE d == Decode(w[<<t, b>>].body)
        <5>3. d \in Seq(FIDs32)
          BY <5>2, DecodeSums DEF SumsOf
        <5>4. g \in ToSet(d)
          BY <2>8 DEF FIDsOf
        <5> HIDE DEF d
        <5>5. QED
          BY <2>5, <5>3, <5>4 DEF ToSet
      <4>5. QED
        BY <1>1, <2>6, <2>8, <4>3, <4>4
    <3>3. QED
      BY <3>1, <3>2
  <2>9. max < f => Before(w, t, f)
    BY <1>1, <2>8 DEF Before
  <2>10. QED
    BY <2>6, <2>7, <2>9, <1>1 DEF max
<1>4. QED
  BY <1>2, <1>3

\* The chunk is above all that would be written before it.
LEMMA ChunkAhead ==
  ASSUME ChunkLimit = 1 \/ CarefulFIDs, TypeInv, GenuineInv, KeptInv, TidyInv,
         job # NoJob, main.clist = job.term, ValidChunk
  PROVE  \A f \in ToSet(Chunk) : Before(Written(main), job.term, f)
<1>1. CASE CarefulFIDs
  <2>1. ToSet(Chunk) \subseteq ToSet(job.rest)
    BY ChunkCoded
  <2>2. QED
    BY <1>1, <2>1 DEF TidyInv, JobRises
<1>2. CASE ChunkLimit = 1
  <2>1. ToSet(Chunk) = {Last(Chunk)}
    BY <1>2, ChunkRises DEF TidyInv, JobRises
  <2>2. Last(Chunk) \in 1..MaxFID /\ Last(Chunk) > job.hdr.FIDmax
    BY ChunkType DEF ValidChunk
  <2>3. Tidy(Written(main), job.term)
    BY DEF TidyInv, TidyLists, TypeInv, JobHasPostings
  <2>4. Before(Written(main), job.term, Last(Chunk))
    BY <2>2, <2>3, LastBefore
  <2>5. QED
    BY <2>1, <2>4
<1>3. QED
  BY <1>1, <1>2

\* A chunk goes to the end of a list.
LEMMA EmitExtends ==
  ASSUME TypeInv, TypeInv', GenuineInv, KeptInv, TidyInv, op # "BUILD_MERGE", EmitChunk,
         NEW lh, lh = IF Fits THEN job.lh ELSE job.lh + 1,
         NEW r, r = Written(main), NEW w, w = Written(main')
  PROVE  LET n == CountIn(r, job.term)
         IN  /\ View(main') = View(main)
             /\ Extended(r, w, job.term, lh, ChunkHeader, Encode(Chunk, Base), Chunk)
             /\ Encode(Chunk, Base) \in Seq(Nat) /\ Chunk \in Seq(FIDs32)
             /\ lh \in {n, n + 1} /\ lh # 0
             /\ ChunkHeader.BodySize = Len(Encode(Chunk, Base)) +
                  IF lh = n THEN r[<<job.term, lh>>].hdr.BodySize ELSE 0
<1> DEFINE t    == job.term
           n    == CountIn(r, t)
           code == Encode(Chunk, Base)
           new  == ~Fits
           hdr  == ChunkHeader
           chunk == Chunk
<1>1. /\ main' = AppendChunk(main, t, lh, hdr, code, new)
      /\ main.clist = t /\ job # NoJob
  BY DEF EmitChunk, Target, SetTarget
<1>2. IsIndex(main) /\ IsIndex(main') /\ SoundIndex(main)
  BY DEF TypeInv, TypeOK, KeptInv
<1>3. job.lh \in Nat /\ job.hdr \in [ID : Nat, BodySize : Nat, FIDmax : Nat] /\ t \in Terms
  BY <1>1 DEF TypeInv, TypeOK, JobHasPostings
<1>4. /\ ChunkFor(main, t, lh, hdr, code, chunk, new)
      /\ Len(code) = Len(chunk) /\ job.lh = n
  BY <1>1, ChunkGoes
<1>5. code \in Seq(Nat) /\ chunk \in Seq(FIDs32)
  BY <1>4, Zenon DEF ChunkFor
<1>6. lh \in {n, n + 1} /\ (lh = n <=> Fits)
  BY <1>3, <1>4
<1>7. lh # 0
  <2>1. CASE Fits
    BY <1>1, <1>6, <1>4, <2>1, JobLast DEF Fits
  <2>2. CASE ~Fits
    BY <1>3, <2>2
  <2>3. QED
    BY <2>1, <2>2
<1>8. new => ~Has(r, t, lh)
  <2>1. Has(r, t, lh) <=> lh \in 1..n
    BY <1>3 DEF TidyInv, TidyLists, Tidy
  <2>2. QED
    BY <1>3, <1>4, <2>1
<1>9. hdr.BodySize = Len(code) + IF lh = n THEN r[<<t, lh>>].hdr.BodySize ELSE 0
  <2>1. Len(chunk) \in Nat /\ Len(code) = Len(chunk)
    BY <1>4, <1>5
  <2>2. CASE Fits
    <3>1. job.hdr # NullHdr /\ lh = job.lh
      BY <2>2, Zenon DEF Fits
    <3>2. r[<<t, lh>>].hdr = job.hdr
      BY <1>1, <3>1, JobLast
    <3>3. hdr = [job.hdr EXCEPT !.BodySize = @ + Len(chunk), !.FIDmax = Last(chunk)]
      BY <2>2 DEF ChunkHeader
    <3>4. hdr.BodySize = job.hdr.BodySize + Len(chunk)
      <4> HIDE DEF hdr, chunk
      <4>1. QED
        BY <1>3, <3>3
    <3>5. lh = n /\ job.hdr.BodySize \in Nat
      BY <1>3, <1>6, <2>2
    <3> HIDE DEF hdr, chunk, code, n, t
    <3>6. QED
      BY <2>1, <3>2, <3>4, <3>5
  <2>3. CASE ~Fits
    <3>1. hdr.BodySize = Len(chunk) /\ lh # n
      BY <1>6, <2>3 DEF ChunkHeader
    <3> HIDE DEF hdr, chunk, code, n, t
    <3>2. QED
      BY <2>1, <3>1
  <2>4. QED
    BY <2>2, <2>3
<1> HIDE DEF t, code, new, hdr, chunk, n
<1>10. View(main') = View(main) /\ Extended(r, w, t, lh, hdr, code, chunk)
  BY <1>1, <1>2, <1>4, <1>8, AppendExtended
<1>11. QED
  BY <1>5, <1>6, <1>7, <1>9, <1>10 DEF t, code, hdr, chunk, n

\* The lists stay tidy, and below what is still to come.
LEMMA EmitTidy ==
  ASSUME ChunkLimit = 1 \/ CarefulFIDs, TypeInv, TypeInv', GenuineInv, KeptInv, TidyInv,
         op # "BUILD_MERGE", EmitChunk
  PROVE  TidyLists' /\ JobRises' /\ CacheAhead'
<1> DEFINE t    == job.term
           lh   == IF Fits THEN job.lh ELSE job.lh + 1
           rest == SubSeq(job.rest, Len(Chunk) + 1, Len(job.rest))
           r    == Written(main)
           w    == Written(main')
           code == Encode(Chunk, Base)
           hdr  == ChunkHeader
           chunk == Chunk
<1>1. /\ job # NoJob /\ main.clist = t /\ pc = "flush" /\ pc' = pc /\ ValidChunk
      /\ job' = IF rest = <<>> THEN NoJob
                ELSE [job EXCEPT !.lh = lh, !.hdr = hdr, !.rest = rest]
      /\ UNCHANGED <<todo, cache, open>>
  BY DEF EmitChunk, Target, indexer
<1>2. /\ IsIndex(main) /\ GoodIndex(Genuine, main) /\ SoundIndex(main) /\ t \in Terms
      /\ job \in [term : Terms \cup {NoTerm}, lh : Nat,
                  hdr : [ID : Nat, BodySize : Nat, FIDmax : Nat], rest : Seq(1..MaxFID)]
  BY <1>1 DEF TypeInv, TypeOK, JobHasPostings, GenuineInv, KeptInv
<1>3. /\ View(main') = View(main) /\ Extended(r, w, t, lh, hdr, code, chunk)
      /\ code \in Seq(Nat) /\ chunk \in Seq(FIDs32)
      /\ lh \in {CountIn(r, t), CountIn(r, t) + 1} /\ lh # 0
      /\ hdr.BodySize = Len(code) + IF lh = CountIn(r, t) THEN r[<<t, lh>>].hdr.BodySize ELSE 0
  BY EmitExtends
<1>4. CountsAreNat(r) /\ Coded(r, t) /\ Tidy(r, t)
  BY <1>2, WrittenRecords DEF TidyInv, TidyLists
<1>5. /\ Rising(chunk) /\ Rising(rest) /\ Below(ToSet(chunk), ToSet(rest))
      /\ ToSet(job.rest) = ToSet(chunk) \cup ToSet(rest)
  BY <1>1, ChunkRises, ChunkCoded DEF TidyInv, JobRises
<1>6. \A f \in ToSet(chunk) : Before(r, t, f)
  BY <1>1, ChunkAhead
<1>7. lh \in Nat
  BY <1>2
<1>8. CarefulFIDs => \A f \in ToSet(job.rest) : Before(r, t, f)
  BY <1>1 DEF TidyInv, JobRises
<1>9. t \notin todo
  BY <1>1 DEF GenuineInv, JobTrue
<1>10. TidyInv /\ r = Written(main) /\ w = Written(main')
  OBVIOUS
<1> HIDE DEF t, lh, code, hdr, chunk, r, w
<1>11. /\ Tidy(w, t)
       /\ \A f : Before(r, t, f) /\ (\A g \in ToSet(chunk) : g < f) => Before(w, t, f)
  BY <1>3, <1>4, <1>5, <1>6, <1>7, ExtendedTidy
<1>12. \A u : u # t => /\ Tidy(r, u) => Tidy(w, u)
                       /\ Tidy(r, u) => \A f : Before(r, u, f) => Before(w, u, f)
  <2>1. ASSUME NEW u, u # t
        PROVE  /\ Tidy(r, u) => Tidy(w, u)
               /\ Tidy(r, u) => \A f : Before(r, u, f) => Before(w, u, f)
    BY <1>3, <2>1, OthersTidy
  <2>2. QED
    BY <2>1
<1>13. \A u \in Terms : Tidy(r, u) /\ Tidy(View(main), u)
  BY <1>10 DEF TidyInv, TidyLists
<1>14. TidyLists'
  BY <1>3, <1>10, <1>11, <1>12, <1>13 DEF TidyLists
<1>15. JobRises'
  <2>1. CASE rest = <<>>
    BY <1>1, <2>1 DEF JobRises
  <2>2. CASE rest # <<>>
    <3>1. job'.term = t /\ job'.rest = rest
      BY <1>1, <1>2, <2>2 DEF t
    <3>2. ASSUME CarefulFIDs, NEW f \in ToSet(rest) PROVE Before(w, t, f)
      <4>1. Before(r, t, f)
        BY <1>5, <1>8, <3>2
      <4>2. \A g \in ToSet(chunk) : g < f
        BY <1>5, <3>2 DEF Below
      <4>3. QED
        BY <1>11, <4>1, <4>2
    <3>3. QED
      BY <1>5, <1>10, <3>1, <3>2 DEF JobRises
  <2>3. QED
    BY <2>1, <2>2
<1>16. CacheAhead'
  <2>1. ASSUME CarefulFIDs, open, NEW u \in Terms, NEW f \in ToSet(cache[u]), u \in todo
        PROVE  Before(w, u, f)
    <3>1. Before(r, u, f) /\ u # t
      BY <1>1, <1>9, <1>10, <2>1 DEF TidyInv, CacheAhead
    <3>2. QED
      BY <1>12, <1>13, <3>1
  <2>2. QED
    BY <1>1, <1>10, <2>1 DEF CacheAhead
<1>17. QED
  BY <1>14, <1>15, <1>16

-----------------------------------------------------------------------------
(* The other steps.                                                        *)

\* What is read, and what would be written, is what was.
LEMMA SameLists ==
  ASSUME TidyInv, View(main') \in {View(main), Written(main)},
         Written(main') \in {View(main), Written(main)}
  PROVE  TidyLists'
BY DEF TidyInv, TidyLists

\* What is in what is read is in what would be written.
LEMMA ReadBefore ==
  ASSUME TypeInv, KeptInv, TidyInv, NEW t \in Terms, NEW f, Before(Written(main), t, f)
  PROVE  Before(View(main), t, f)
<1> DEFINE v == View(main)
           w == Written(main)
<1>1. Keeps(v, w)
  BY SoundWritten DEF TypeInv, TypeOK, KeptInv
<1>2. \A b : Has(v, t, b) <=> b \in 1..CountIn(v, t)
  BY DEF TidyInv, TidyLists, Tidy
<1>3. CountsAreNat(v)
  BY SoundWritten DEF TypeInv, TypeOK, KeptInv, Sound
<1> HIDE DEF v, w
<1>4. ASSUME NEW b \in 1..CountIn(v, t), NEW g \in FIDsOf(v[<<t, b>>]) PROVE g < f
  <2>1. \A n \in 1..b : Has(v, t, n)
    BY <1>2, <1>3, <1>4 DEF CountsAreNat
  <2>2. Here(v, t, g)
    BY <1>4, <2>1 DEF Here, Holds
  <2>3. Here(w, t, g)
    BY <1>1, <2>2 DEF Keeps
  <2>4. QED
    BY <2>3 DEF Here, Holds, Before, w
<1>5. QED
  BY <1>4 DEF Before, v

\* A flush begins over the cache that is flushed.
LEMMA BeginFlushTidy ==
  ASSUME TypeInv, KeptInv, TidyInv, job = NoJob, NEW after, BeginFlush(cache', after),
         cache' \in [Terms -> Seq(1..MaxFID)],
         CarefulFIDs /\ open' =>
           \A t \in Terms : \A f \in ToSet(cache'[t]) : Before(View(main), t, f)
  PROVE  TidyLists' /\ GetWaits' /\ JobRises' /\ CacheAhead'
<1>1. /\ main' = ClearCache(main) /\ job' = NoJob /\ pc' = "flush"
      /\ todo' = {t \in Terms : cache'[t] # <<>>}
  BY DEF BeginFlush
<1>2. View(main') = View(main) /\ Written(main') = View(main)
  <2>1. IsIndex(main) /\ SoundIndex(main)
    BY DEF TypeInv, TypeOK, KeptInv
  <2>2. ClearCache(main).disk = main.disk /\ ClearCache(main).pool = main.pool
    BY <2>1 DEF IsIndex, ClearCache
  <2>3. QED
    BY <1>1, <2>1, <2>2, ClearContinues DEF View
<1>3. QED
  BY <1>1, <1>2, SameLists DEF GetWaits, JobRises, CacheAhead

\* A list is begun.  In a store opened for reading the flush fails there, and
\* what was cached stays cached; else the block its header counts is there.
LEMMA BeginTidy ==
  ASSUME TypeInv, GenuineInv, KeptInv, TidyInv, op # "BUILD_MERGE", NEW t \in Terms, BeginList(t)
  PROVE  TidyLists' /\ GetWaits' /\ JobRises' /\ CacheAhead'
<1> DEFINE lh  == GetPListHeader(main, t)
           hdr == IF lh = 0 THEN NullHdr ELSE GetPListBlockHeader(main, t, lh)
           v   == View(main)
<1>1. /\ t \in todo /\ pc = "flush" /\ job = NoJob /\ open
      /\ UNCHANGED <<cache, open, op>>
  BY DEF BeginList, indexer, GenuineInv, Phases
<1>2. IsIndex(main) /\ GoodIndex(Genuine, main) /\ SoundIndex(main)
  BY DEF TypeInv, TypeOK, GenuineInv, KeptInv
<1>3. View(main') = View(main) /\ Written(main') = Written(main)
  <2>1. main' = IF op # "GET" /\ ReadsMain(t) THEN Sync(main) ELSE main
    BY Zenon DEF BeginList
  <2>2. QED
    BY <1>2, <2>1, SyncContinues, SyncView
<1>4. TidyLists'
  BY <1>3, SameLists
<1>5. lh # 0 => hdr # NullHdr
  <2> SUFFICES ASSUME lh # 0 PROVE hdr # NullHdr
    OBVIOUS
  <2>1. lh = CountIn(v, t) /\ lh \in Nat
    <3>1. NoBlock.lh = 0
      BY DEF NoBlock
    <3>2. lh \in Nat
      BY <1>2, ReadType
    <3>3. QED
      BY <3>1, <3>2 DEF GetPListHeader, ReadBlock, CountIn, Has
  <2>2. Tidy(v, t)
    BY DEF TidyInv, TidyLists
  <2> HIDE DEF lh, v
  <2>3. Has(v, t, lh)
    BY <2>1, <2>2 DEF Tidy
  <2>4. FullRecord(Genuine, t, lh, v[<<t, lh>>])
    BY <1>2, <2>3, ViewRecords DEF v
  <2>5. hdr = v[<<t, lh>>].hdr
    BY <2>3 DEF GetPListBlockHeader, ReadBlock, Has, v
  <2>6. hdr.ID = lh
    BY <2>4, <2>5 DEF FullRecord, GoodRecord
  <2>7. NullHdr.ID = 0
    BY DEF NullHdr
  <2>8. QED
    BY <2>6, <2>7
<1>6. ListHeader(t) = lh /\ BlockHeader(t, lh) = GetPListBlockHeader(main, t, lh)
  BY DEF ListHeader, BlockHeader, DeltaFirst
<1>7. CASE op = "GET"
  <2>1. pc' = "idle" /\ job' = NoJob
    BY <1>7 DEF BeginList, Fail
  <2>2. ASSUME CarefulFIDs, NEW u \in Terms, NEW f \in ToSet(cache[u]) PROVE Before(v, u, f)
    <3>1. u \in todo
      BY <1>1, <1>7, <2>2 DEF TidyInv, GetWaits, ToSet
    <3>2. Before(Written(main), u, f)
      BY <1>1, <2>2, <3>1 DEF TidyInv, CacheAhead
    <3>3. QED
      BY <3>2, ReadBefore
  <2>3. QED
    BY <1>1, <1>3, <1>4, <2>1, <2>2 DEF GetWaits, JobRises, CacheAhead
<1>8. CASE op # "GET"
  <2>1. /\ job' = [term |-> t, lh |-> lh, hdr |-> hdr, rest |-> cache[t]]
        /\ todo' = todo \ {t} /\ pc' = pc
    BY <1>5, <1>6, <1>8, Zenon DEF BeginList
  <2>2. job'.term = t /\ job'.rest = cache[t]
    BY <2>1
  <2>3. JobRises'
    BY <1>1, <1>3, <2>2 DEF TidyInv, CacheRises, CacheAhead, JobRises
  <2>4. CacheAhead'
    BY <1>1, <1>3, <2>1 DEF TidyInv, CacheAhead
  <2>5. QED
    BY <1>1, <1>4, <1>8, <2>3, <2>4 DEF GetWaits
<1>9. QED
  BY <1>7, <1>8

\* A chunk is refused only of a client that is not careful.
LEMMA CarefulValid ==
  ASSUME TypeInv, GenuineInv, KeptInv, TidyInv, job # NoJob, CarefulFIDs
  PROVE  ValidChunk
<1>1. Last(Chunk) \in ToSet(job.rest) /\ Last(Chunk) \in 1..MaxFID
  <2> DEFINE c == Chunk
             s == job.rest
  <2>1. c \in Seq(1..MaxFID) /\ Len(c) \in 1..Len(s) /\ s \in Seq(1..MaxFID) /\ s # <<>>
    BY ChunkType DEF TypeInv, TypeOK, JobHasPostings
  <2>2. \E m \in 1..Len(s) : c = SubSeq(s, 1, m)
    <3>1. Len(s) \in Nat \ {0} /\ ChunkLimit \in Nat \ {0}
      BY <2>1, SessionAssumption
    <3>2. QED
      BY <3>1 DEF Chunk
  <2> HIDE DEF c, s
  <2>3. 1 \in 1..Len(s) + 1 /\ 1..Len(s) \subseteq 0..Len(s)
    BY <2>1
  <2>4. ToSet(c) \subseteq ToSet(s)
    BY <2>1, <2>2, <2>3, PieceElements
  <2>5. Last(c) \in ToSet(c)
    <3>1. Len(s) \in Nat /\ DOMAIN c = 1..Len(c)
      BY <2>1
    <3>2. Len(c) \in 1..Len(c)
      BY <2>1, <3>1
    <3>3. Last(c) = c[Len(c)]
      BY DEF Last
    <3>4. QED
      BY <3>1, <3>2, <3>3 DEF ToSet
  <2>6. Last(Chunk) \in 1..MaxFID
    BY ChunkType
  <2>7. QED
    BY <2>4, <2>5, <2>6 DEF c, s
<1>2. Tidy(Written(main), job.term) /\ Before(Written(main), job.term, Last(Chunk))
  BY <1>1 DEF TidyInv, TidyLists, JobRises, TypeInv, JobHasPostings
<1>3. QED
  BY <1>1, <1>2, LastBefore DEF ValidChunk

\* A careful client numbers above what is read.
LEMMA ClientAhead ==
  ASSUME TypeInv, GenuineInv, KeptInv, TidyInv, CarefulFIDs, NEW f \in ClientFIDs, NEW t \in Terms
  PROVE  Before(View(main), t, f)
<1> DEFINE v == View(main)
<1>1. IsIndex(main) /\ GoodIndex(Genuine, main) /\ SoundIndex(main)
  BY DEF TypeInv, TypeOK, GenuineInv, KeptInv
<1>2. CountsAreNat(v) /\ \A b : Has(v, t, b) <=> b \in 1..CountIn(v, t)
  BY <1>1, ViewRecords DEF TidyInv, TidyLists, Tidy
<1>3. ASSUME NEW b \in 1..CountIn(v, t), NEW g \in FIDsOf(v[<<t, b>>]) PROVE g < f
  <2>1. ReadIn(v, t, g)
    <3> HIDE DEF v
    <3>1. CountIn(v, t) \in Nat
      BY <1>2 DEF CountsAreNat
    <3>2. b \in Nat \ {0} /\ \A n \in 1..b : Has(v, t, n)
      BY <1>2, <3>1
    <3>3. QED
      BY <1>3, <3>2 DEF ReadIn, Holds
  <2>2. g \in ToSet(Postings(main, t))
    BY <1>1, <2>1, ReaderFinds
  <2>3. <<t, g>> \in PostingSet(main)
    BY <2>2 DEF PostingSet
  <2>4. \A p \in PostingSet(main) : p[2] < f
    BY DEF ClientFIDs
  <2>5. QED
    BY <2>3, <2>4
<1>4. QED
  BY <1>3 DEF Before

\* A recording is indexed: it is above all that is cached, and of a careful
\* client above all that is read.
LEMMA IndexTidy ==
  ASSUME TypeInv, TypeInv', GenuineInv, KeptInv, TidyInv,
         NEW f \in 1..MaxFID, NEW ts \in Recordings, NEW emit \in BOOLEAN, Index(f, ts, emit)
  PROVE  TidyLists' /\ CacheRises' /\ GetWaits' /\ JobRises' /\ CacheAhead'
<1>1. /\ pc = "idle" /\ open /\ open' = open /\ f \in ClientFIDs /\ f > currFID /\ currFID' = f
      /\ cache' = [t \in Terms |-> IF t \in ts THEN Append(cache[t], f) ELSE cache[t]]
  BY DEF Index
<1>2. /\ cache \in [Terms -> Seq(1..MaxFID)] /\ cache' \in [Terms -> Seq(1..MaxFID)]
      /\ currFID \in Nat /\ f \in Nat
  <2>1. cache \in [Terms -> Seq(1..MaxFID)] /\ cache' \in [Terms -> Seq(1..MaxFID)]
    BY DEF TypeInv, TypeOK
  <2>2. currFID \in 0..MaxFID
    BY DEF TypeInv, TypeOK
  <2>3. QED
    BY <2>1, <2>2, SessionAssumption
<1>3. job = NoJob
  BY <1>1 DEF GenuineInv, Phases
<1>4. ASSUME NEW t \in Terms
      PROVE  /\ Rising(cache[t]) /\ \A g \in ToSet(cache[t]) : g <= currFID
             /\ Rising(cache'[t])
             /\ \A g \in ToSet(cache'[t]) : g \in ToSet(cache[t]) \/ g = f
  <2> DEFINE s == cache[t]
             d == Append(s, f)
  <2>1. s \in Seq(1..MaxFID) /\ Rising(s) /\ \A g \in ToSet(s) : g <= currFID
    BY <1>1, <1>2 DEF TidyInv, CacheRises
  <2>2. cache'[t] = IF t \in ts THEN d ELSE s
    BY <1>1
  <2> HIDE DEF s
  <2>3. ToSet(d) = ToSet(s) \cup {f}
    BY <2>1, PieceElements
  <2>4. Rising(d)
    <3> DEFINE n == Len(s)
    <3>1. n \in Nat /\ Len(d) = n + 1 /\ d[n + 1] = f /\ \A i \in 1..n : d[i] = s[i]
      BY <2>1
    <3>2. \A i \in 1..n : s[i] \in ToSet(s) /\ s[i] \in Nat
      <4>1. DOMAIN s = 1..n
        BY <2>1
      <4>2. QED
        BY <2>1, <4>1, FIDsType DEF ToSet
    <3> HIDE DEF n, d
    <3>3. ASSUME NEW i \in 1..(n + 1), NEW j \in 1..(n + 1), i < j PROVE d[i] < d[j]
      <4>1. i \in 1..n
        BY <3>1, <3>3
      <4>2. CASE j \in 1..n
        BY <2>1, <3>1, <3>3, <4>1, <4>2 DEF Rising, n
      <4>3. CASE j = n + 1
        <5>1. s[i] <= currFID /\ s[i] \in Nat
          BY <2>1, <3>2, <4>1
        <5>2. s[i] < f
          BY <1>1, <1>2, <5>1
        <5>3. QED
          BY <3>1, <4>1, <4>3, <5>2
      <4>4. QED
        BY <3>1, <3>3, <4>2, <4>3
    <3>4. QED
      BY <3>1, <3>3 DEF Rising
  <2>5. QED
    BY <2>1, <2>2, <2>3, <2>4 DEF s
<1>5. CacheRises'
  <2>1. ASSUME NEW t \in Terms, NEW g \in ToSet(cache'[t]) PROVE g <= f
    <3>1. g = f \/ (g \in ToSet(cache[t]) /\ g <= currFID)
      BY <1>4, <2>1
    <3>2. g \in ToSet(cache[t]) => g \in Nat
      <4> DEFINE s == cache[t]
      <4>1. s \in Seq(1..MaxFID)
        BY <1>2
      <4> HIDE DEF s
      <4>2. g \in ToSet(s) => g \in Nat
        BY <4>1, FIDsType DEF ToSet
      <4>3. QED
        BY <4>2 DEF s
    <3>3. QED
      BY <1>1, <1>2, <3>1, <3>2
  <2>2. QED
    BY <1>1, <1>4, <2>1 DEF CacheRises
<1>6. ASSUME CarefulFIDs, NEW t \in Terms, NEW g \in ToSet(cache'[t]) PROVE Before(View(main), t, g)
  <2>1. CASE g = f
    BY <1>1, <1>6, <2>1, ClientAhead
  <2>2. CASE g \in ToSet(cache[t])
    BY <1>1, <1>6, <2>2 DEF TidyInv, CacheAhead
  <2>3. QED
    BY <1>4, <1>6, <2>1, <2>2
<1>7. CASE BeginFlush(cache', "idle")
  BY <1>2, <1>3, <1>5, <1>6, <1>7, BeginFlushTidy
<1>8. CASE UNCHANGED <<run, main, delta, call>>
  <2>1. main' = main /\ pc' = "idle" /\ job' = NoJob
    BY <1>1, <1>3, <1>8 DEF call
  <2>2. QED
    BY <1>5, <1>6, <2>1, SameLists DEF GetWaits, JobRises, CacheAhead
<1>9. QED
  BY <1>7, <1>8, Zenon DEF Index

\* The first state: there are no lists.
LEMMA TidyInit == Init => TidyInv
<1> SUFFICES ASSUME Init PROVE TidyInv
  OBVIOUS
<1>1. main = EmptyIndex /\ pc = "idle" /\ job = NoJob /\ ~open /\ crashes = 0
  BY DEF Init
<1>2. DOMAIN View(main) = {} /\ Written(main) = View(main)
  <2>1. /\ DOMAIN View(main) = DOMAIN main.disk \cup {main.pool[i][1] : i \in DOMAIN main.pool}
        /\ main.disk = NoRecords /\ main.pool = <<>> /\ main.cache = NoRecords
    BY <1>1, Zenon DEF View, Overlay, EmptyIndex
  <2>2. DOMAIN NoRecords = {} /\ DOMAIN <<>> = {}
    BY DEF NoRecords
  <2>3. QED
    BY <2>1, <2>2, WrittenEmpty
<1>3. \A t : Tidy(View(main), t)
  BY <1>2 DEF Tidy, Has, CountIn
<1>4. TidyLists
  BY <1>2, <1>3 DEF TidyLists
<1>5. QED
  BY <1>1, <1>4 DEF TidyInv, CacheRises, GetWaits, JobRises, CacheAhead

\* Every step keeps the lists tidy.
LEMMA TidyNext ==
  ASSUME "BUILD_MERGE" \notin Ops, MaxCrashes = 0, ChunkLimit = 1 \/ CarefulFIDs,
         TypeInv, GenuineInv, KeptInv, TidyInv, [Next]_vars
  PROVE  TidyInv'
<1>1. /\ op # "BUILD_MERGE" /\ pc # "merge" /\ IsIndex(main) /\ SoundIndex(main) /\ TypeInv'
      /\ pc # "flush" => job = NoJob
      /\ cache \in [Terms -> Seq(1..MaxFID)] /\ cache' \in [Terms -> Seq(1..MaxFID)]
  BY NextType DEF TypeInv, TypeOK, GenuineInv, KeptInv, Phases
<1>2. TidyLists /\ CacheRises /\ GetWaits /\ JobRises /\ CacheAhead /\ crashes = 0
  BY DEF TidyInv
<1>3. ~Crash
  BY <1>2 DEF Crash
<1>4. crashes' = 0
  BY <1>2, <1>3 DEF Next, vars, bounds, OpenStore, CloseStore, Start, Index, IndexAudioError,
     Flush, End, BeginList, RejectChunk, MoveCache, EmitChunk, EndFlush, EndSession,
     MergeRecord, EndMerge
<1>5. ASSUME TidyLists', CacheRises', GetWaits', JobRises', CacheAhead' PROVE TidyInv'
  BY <1>4, <1>5 DEF TidyInv
<1>6. ASSUME UNCHANGED <<open, cache, currFID>> PROVE CacheRises'
  BY <1>2, <1>6 DEF CacheRises
<1>7. ASSUME pc' # "flush", job' = NoJob PROVE GetWaits' /\ JobRises'
  BY <1>7 DEF GetWaits, JobRises
<1>8. ASSUME cache' = EmptyCache PROVE CacheRises' /\ GetWaits' /\ CacheAhead'
  <2>1. \A t \in Terms : cache'[t] = <<>> /\ Rising(<<>>)
    BY <1>8 DEF EmptyCache, Rising
  <2>2. ToSet(<<>>) = {}
    BY DEF ToSet
  <2>3. QED
    BY <2>1, <2>2 DEF CacheRises, GetWaits, CacheAhead
<1>9. ASSUME ~open' PROVE CacheRises' /\ CacheAhead'
  BY <1>9 DEF CacheRises, CacheAhead
<1>10. ASSUME NEW mode \in Ops, OpenStore(mode) PROVE TidyInv'
  <2>1. ~dbOpen /\ UNCHANGED <<main, open, pc, job>>
    BY <1>10 DEF OpenStore, indexer, call
  <2>2. ~open /\ pc # "flush"
    BY <2>1 DEF GenuineInv, Phases
  <2>3. TidyLists'
    BY <1>2, <2>1 DEF TidyLists
  <2>4. QED
    BY <1>1, <1>5, <1>7, <1>9, <2>1, <2>2, <2>3
<1>11. CASE CloseStore
  <2>1. main' = Sync(main) /\ ~open /\ pc = "idle" /\ UNCHANGED <<open, pc, job>>
    BY <1>11 DEF CloseStore, indexer, call
  <2>2. TidyLists'
    BY <1>1, <2>1, SyncContinues, SyncView, SameLists
  <2>3. QED
    BY <1>1, <1>5, <1>7, <1>9, <2>1, <2>2
<1>12. CASE Start
  <2>1. cache' = EmptyCache /\ pc = "idle" /\ UNCHANGED <<main, pc, job>>
    BY <1>12 DEF Start, call
  <2>2. TidyLists'
    BY <1>2, <2>1 DEF TidyLists
  <2>3. QED
    BY <1>1, <1>5, <1>7, <1>8, <2>1, <2>2
<1>13. ASSUME NEW f \in 1..MaxFID, NEW ts \in Recordings, NEW emit \in BOOLEAN, Index(f, ts, emit)
       PROVE  TidyInv'
  BY <1>1, <1>5, <1>13, IndexTidy
<1>14. CASE IndexAudioError
  <2>1. cache' = EmptyCache /\ pc = "idle" /\ UNCHANGED <<main, pc, job>>
    BY <1>14 DEF IndexAudioError, store, call
  <2>2. TidyLists'
    BY <1>2, <2>1 DEF TidyLists
  <2>3. QED
    BY <1>1, <1>5, <1>7, <1>8, <2>1, <2>2
<1>15. CASE Flush
  <2>1. pc = "idle" /\ BeginFlush(cache', "idle") /\ UNCHANGED <<open, cache, currFID>>
    BY <1>15 DEF Flush, indexer
  <2>2. CarefulFIDs /\ open' => \A t \in Terms : \A f \in ToSet(cache'[t]) : Before(View(main), t, f)
    BY <1>2, <2>1 DEF CacheAhead
  <2>3. QED
    BY <1>1, <1>5, <1>6, <2>1, <2>2, BeginFlushTidy
<1>16. ASSUME NEW flush \in BOOLEAN, End(flush) PROVE TidyInv'
  <2>1. pc = "idle" /\ UNCHANGED <<open, cache, currFID>>
    BY <1>16 DEF End, indexer
  <2>2. CarefulFIDs /\ open' => \A t \in Terms : \A f \in ToSet(cache'[t]) : Before(View(main), t, f)
    BY <1>2, <2>1 DEF CacheAhead
  <2>3. CASE BeginFlush(cache', "end")
    BY <1>1, <1>5, <1>6, <2>1, <2>2, <2>3, BeginFlushTidy
  <2>4. CASE pc' = "end" /\ UNCHANGED <<run, main, delta, ret, todo, job, mtodo, mbuf>>
    <3>1. TidyLists'
      BY <1>2, <2>4 DEF TidyLists
    <3>2. CacheAhead'
      BY <2>2, <2>4 DEF CacheAhead
    <3>3. QED
      BY <1>1, <1>5, <1>6, <1>7, <2>1, <2>4, <3>1, <3>2
  <2>5. QED
    BY <1>16, <2>1, <2>3, <2>4 DEF End
<1>17. ASSUME NEW t \in Terms, BeginList(t) PROVE TidyInv'
  <2>1. UNCHANGED <<open, cache, currFID>>
    BY <1>17 DEF BeginList, indexer
  <2>2. QED
    BY <1>1, <1>5, <1>6, <1>17, <2>1, BeginTidy
<1>18. CASE RejectChunk
  <2>1. /\ job # NoJob /\ ~ValidChunk /\ pc' = "idle" /\ job' = NoJob
        /\ UNCHANGED <<open, cache, currFID, main>>
    BY <1>18 DEF RejectChunk, Fail, indexer, store
  <2>2. ~CarefulFIDs
    BY <2>1, CarefulValid
  <2>3. TidyLists' /\ CacheAhead'
    BY <1>2, <2>1, <2>2 DEF TidyLists, CacheAhead
  <2>4. QED
    BY <1>5, <1>6, <1>7, <2>1, <2>3
<1>19. CASE MoveCache
  <2>1. UNCHANGED <<open, cache, currFID, op, pc, job, todo>> /\ pc = "flush"
    BY <1>19 DEF MoveCache, indexer, call
  <2>2. Written(main') = Written(main) /\ View(main') = Written(main)
    BY <1>1, <1>19, WriteKept
  <2>3. TidyLists'
    BY <2>2, SameLists
  <2>4. GetWaits' /\ JobRises' /\ CacheAhead'
    BY <1>2, <2>1, <2>2 DEF GetWaits, JobRises, CacheAhead
  <2>5. QED
    BY <1>5, <1>6, <2>1, <2>3, <2>4
<1>20. CASE EmitChunk
  <2>1. TidyLists' /\ JobRises' /\ CacheAhead'
    BY <1>1, <1>20, EmitTidy
  <2>2. UNCHANGED <<open, cache, currFID, op, pc, todo>>
    BY <1>20 DEF EmitChunk, indexer
  <2>3. GetWaits'
    BY <1>2, <2>2 DEF GetWaits
  <2>4. QED
    BY <1>5, <1>6, <2>1, <2>2, <2>3
<1>21. CASE EndFlush
  <2>1. cache' = EmptyCache /\ job' = NoJob
    BY <1>21 DEF EndFlush
  <2>2. TidyLists'
    BY <1>1, <1>21, WriteKept, SameLists
  <2>3. JobRises'
    BY <2>1 DEF JobRises
  <2>4. QED
    BY <1>5, <1>8, <2>1, <2>2, <2>3
<1>22. CASE EndSession
  <2>1. ~open' /\ pc = "end" /\ pc' = "idle" /\ UNCHANGED <<main, job>>
    BY <1>1, <1>22 DEF EndSession
  <2>2. TidyLists'
    BY <1>2, <2>1 DEF TidyLists
  <2>3. QED
    BY <1>1, <1>5, <1>7, <1>9, <2>1, <2>2
<1>23. ~(\E k \in mtodo : MergeRecord(k)) /\ ~EndMerge
  BY <1>1 DEF MergeRecord, EndMerge
<1>24. CASE UNCHANGED vars
  <2>1. UNCHANGED <<open, cache, currFID, op, pc, job, todo, main>>
    BY <1>24 DEF vars, indexer, store, call
  <2>2. TidyLists' /\ GetWaits' /\ JobRises' /\ CacheAhead'
    BY <1>2, <2>1 DEF TidyLists, GetWaits, JobRises, CacheAhead
  <2>3. QED
    BY <1>5, <1>6, <2>1, <2>2
<1>25. QED
  BY <1>3, <1>10, <1>11, <1>12, <1>13, <1>14, <1>15, <1>16, <1>17, <1>18, <1>19, <1>20, <1>21,
     <1>22, <1>23, <1>24 DEF Next

-----------------------------------------------------------------------------
(* What a reader relies on.                                                *)

\* The blocks of a tidy list: those its header counts, with true headers and
\* postings that increase.
LEMMA TidySound ==
  ASSUME NEW G, NEW ix, IsIndex(ix), GoodIndex(G, ix), SoundIndex(ix),
         NEW t \in Terms, Tidy(View(ix), t)
  PROVE  /\ LET blocks == BlocksOf(View(ix), t)
            IN  /\ DOMAIN blocks = 1..GetPListHeader(ix, t)
                /\ \A b \in DOMAIN blocks : blocks[b].hdr.ID = b /\ BlockHeaderExact(blocks[b])
         /\ StrictlyIncreasing(Postings(ix, t))
<1> DEFINE V == View(ix)
           blocks == BlocksOf(V, t)
           n      == CountIn(V, t)
<1>1. AreRecords(V, Keys) /\ IsFiniteSet(DOMAIN V)
  BY ReadGood, OverlayType DEF IsIndex, View
<1>2. \A b : Has(V, t, b) => FullRecord(G, t, b, V[<<t, b>>])
  BY ViewRecords
<1>3. GetPListHeader(ix, t) = n
  <2>1. NoBlock.lh = 0
    BY DEF NoBlock
  <2>2. QED
    BY <2>1 DEF GetPListHeader, ReadBlock, CountIn, Has
<1>4. Postings(ix, t) = ListOf(blocks)
  BY DEF Postings
<1> HIDE DEF V
<1>5. BlocksIn(V, t, blocks) /\ IsFiniteSet(DOMAIN blocks)
  BY <1>1, ListBlocks
<1>6. /\ \A b : Has(V, t, b) <=> b \in 1..n
      /\ \A b \in 1..n : InOrder(V[<<t, b>>])
      /\ \A b, c \in 1..n : b < c => Below(FIDsOf(V[<<t, b>>]), FIDsOf(V[<<t, c>>]))
  BY DEF Tidy, V
<1> HIDE DEF blocks, n
<1>7. /\ DOMAIN blocks = 1..n
      /\ \A b \in 1..n : /\ blocks[b] = V[<<t, b>>] /\ FullRecord(G, t, b, blocks[b])
                         /\ InOrder(blocks[b])
  BY <1>2, <1>5, <1>6 DEF BlocksIn
<1>8. ASSUME NEW b \in 1..n PROVE blocks[b].hdr.ID = b /\ BlockHeaderExact(blocks[b])
  <2>1. FullRecord(G, t, b, blocks[b]) /\ InOrder(blocks[b]) /\ <<t, b>>[2] = b
    BY <1>7
  <2>2. QED
    BY <2>1 DEF FullRecord, GoodRecord, InOrder, BlockHeaderExact
<1>9. StrictlyIncreasing(ListOf(blocks))
  <2>1. \A b : Has(V, t, b) =>
           V[<<t, b>>].body \in Seq(Nat) /\ Rising(Decode(V[<<t, b>>].body))
    BY <1>2, <1>6 DEF FullRecord, BlockRecords, InOrder
  <2>2. \A b, c : Has(V, t, b) /\ Has(V, t, c) /\ b < c =>
           Below(FIDsOf(V[<<t, b>>]), FIDsOf(V[<<t, c>>]))
    BY <1>6
  <2>3. QED
    BY <1>5, <2>1, <2>2, BlocksRise
<1>10. QED
  BY <1>3, <1>4, <1>7, <1>8, <1>9 DEF V, blocks

\* Every header tells the truth and every list increases, so a reader that
\* trusts the headers gets each list whole and in order: for any number of
\* sessions of any lists and any block and cache limits, whatever calls fail;
\* in a store that is opened for reading and for building and whose process
\* does not die, if clients number recordings above what is in the index or
\* each chunk is of one posting.  Of a longer chunk the indexer checks the
\* last FID only.
THEOREM SoundLists ==
  ASSUME "BUILD_MERGE" \notin Ops, MaxCrashes = 0, ChunkLimit = 1 \/ CarefulFIDs
  PROVE  Spec => []ListsSound
<1> DEFINE Inv == TypeInv /\ GenuineInv /\ KeptInv /\ TidyInv
<1>1. Inv /\ [Next]_vars => Inv'
  BY NextType, GenuineNext, KeptNext, TidyNext
<1>2. Init => Inv
  BY InitType, GenuineInit, KeptInit, TidyInit
<1>3. Inv => ListsSound
  <2> SUFFICES ASSUME Inv PROVE ListsSound
    OBVIOUS
  <2>1. IsIndex(main) /\ GoodIndex(Genuine, main) /\ SoundIndex(main)
    BY DEF TypeInv, TypeOK, GenuineInv, KeptInv
  <2>2. \A t \in Terms : Tidy(View(main), t)
    BY DEF TidyInv, TidyLists
  <2>3. QED
    BY <2>1, <2>2, TidySound DEF ListsSound, HeadersExact, ListsIncrease
<1>4. QED
  BY <1>1, <1>2, <1>3, PTL DEF Spec
=============================================================================
