-------------------------- MODULE IndexingSession --------------------------
(***************************************************************************)
(* Indexing sessions: IndexerImpl over a TCDataStore.  A client opens the  *)
(* store, starts a session, indexes recordings, flushes, ends the session  *)
(* and closes the store; the process may die at any point and the store    *)
(* be opened again.                                                        *)
(*                                                                         *)
(* A call of the client is atomic except where it touches the database:    *)
(* a flush is one step per list and per emitted chunk, a merge is one step *)
(* per delta record, so that a crash falls between any two writes.         *)
(***************************************************************************)
EXTENDS TCIndex

CONSTANTS
  Ops,          \* the modes the store is opened in
  MaxFID,       \* bound: FIDs are 1..MaxFID
  MaxRecTerms,  \* bound: lists one recording has postings in
  ChunkLimit,   \* POSTINGSLIST_CHUNK_THRESHOLD, in postings
  BlockLimit,   \* POSTINGSLIST_BLOCK_THRESHOLD, in postings
  CacheLimit,   \* the cache's memory limit, in postings
  MergeBuffer,  \* the initial size of the merge buffer, in postings
  UrlIsCwd,     \* the database URL is the working directory
  CarefulFIDs,  \* clients number recordings above the FIDs of the index
  MaxCrashes,   \* bound: number of crashes
  MaxSessions   \* bound: number of sessions

ASSUME SessionAssumption ==
  /\ Ops \subseteq {"GET", "BUILD", "BUILD_MERGE"}
  /\ MaxFID \in Nat /\ MaxFID < FidMod
  /\ {MaxRecTerms, MaxCrashes, MaxSessions} \subseteq Nat
  /\ {ChunkLimit, BlockLimit, CacheLimit, MergeBuffer} \subseteq Nat \ {0}
  /\ {UrlIsCwd, CarefulFIDs} \subseteq BOOLEAN

VARIABLES
  open, currFID, cache,        \* the indexer: m_SessionOpen, m_CurrFID, m_Cache
  dbOpen, op, run,             \* the store: m_IsOpen, m_Op, m_Run
  main, delta, fps,            \* m_MainIndex, m_DeltaIndex, m_QFingerprints
  pc, ret, todo, job, mtodo,   \* the call in progress
  mbuf,                        \* size of the merge buffer, in postings
  crashes, sessions,           \* counters of the bounds
  accepted, session, acked, durable   \* history, see below

indexer == <<open, currFID, cache>>
store   == <<dbOpen, op, run, main, delta, fps>>
call    == <<pc, ret, todo, job, mtodo, mbuf>>
bounds  == <<crashes, sessions>>
\* Postings <<list, FID>>: accepted by some Index call; accepted in this
\* session and not dropped; of sessions whose End returned; acked when the
\* store was last closed.
history == <<accepted, session, acked, durable>>
vars    == <<indexer, store, call, bounds, history>>

NoJob == [term |-> NoTerm, lh |-> 0, hdr |-> NullHdr, rest |-> <<>>]

EmptyCache == [t \in Terms |-> <<>>]

PostingSet(ix) == UNION {{<<t, f>> : f \in ToSet(Postings(ix, t))} : t \in Terms}

Init ==
  /\ open = FALSE /\ currFID = 0 /\ cache = EmptyCache
  /\ dbOpen = FALSE /\ op = "GET" /\ run = 0
  /\ main = EmptyIndex /\ delta = EmptyIndex /\ fps = {}
  /\ pc = "idle" /\ ret = "idle" /\ todo = {} /\ job = NoJob
  /\ mtodo = {} /\ mbuf = MergeBuffer
  /\ crashes = 0 /\ sessions = 0
  /\ accepted = {} /\ session = {} /\ acked = {} /\ durable = {}

-----------------------------------------------------------------------------
(* The store's calls outside a flush.                                      *)

OpenStore(mode) ==
  /\ ~dbOpen
  /\ dbOpen' = TRUE /\ op' = mode
  /\ UNCHANGED <<indexer, run, main, delta, fps, call, bounds, history>>

CloseStore ==
  /\ dbOpen /\ pc = "idle" /\ ~open
  /\ dbOpen' = FALSE
  /\ main' = Sync(main) /\ delta' = Sync(delta)
  /\ durable' = acked
  /\ UNCHANGED <<indexer, op, run, fps, call, bounds, accepted, session, acked>>

\* The process dies; the files keep a prefix of the pending writes.
Crash ==
  /\ dbOpen /\ crashes < MaxCrashes
  /\ crashes' = crashes + 1
  /\ \E n \in 0..Len(main.pool) : main' = Survivor(main, n)
  /\ \E n \in 0..Len(delta.pool) : delta' = Survivor(delta, n)
  /\ open' = FALSE /\ currFID' = 0 /\ cache' = EmptyCache
  /\ dbOpen' = FALSE /\ run' = 0
  /\ pc' = "idle" /\ ret' = "idle" /\ todo' = {} /\ job' = NoJob
  /\ mtodo' = {} /\ mbuf' = MergeBuffer
  /\ session' = {} /\ acked' = durable
  /\ UNCHANGED <<op, fps, sessions, accepted, durable>>

-----------------------------------------------------------------------------
(* Start, Index, Flush and End.                                            *)

\* Start marks the session open before it tells the store, which refuses
\* in GET mode: the call fails and the session stays open.
Start ==
  /\ dbOpen /\ pc = "idle" /\ ~open
  /\ sessions < MaxSessions /\ sessions' = sessions + 1
  /\ open' = TRUE /\ currFID' = 0 /\ cache' = EmptyCache
  /\ run' = IF op = "GET" THEN run ELSE 0
  /\ session' = {}
  /\ UNCHANGED <<dbOpen, op, main, delta, fps, call, crashes, accepted, acked, durable>>

CacheSize(c) == FoldFunction(LAMBDA l, n : Len(l) + n, 0, c)

\* Flush up to the loop of DoFlush: a new run over the lists of c.  Runs are
\* counted up to the second: the code compares the counter with 1 only.
BeginFlush(c, after) ==
  /\ run' = IF run = 0 THEN 1 ELSE 2
  /\ main' = ClearCache(main) /\ delta' = ClearCache(delta)
  /\ todo' = {t \in Terms : c[t] # <<>>}
  /\ pc' = "flush" /\ ret' = after
  /\ UNCHANGED <<job, mtodo, mbuf>>

\* The FIDs a client may give to its next recording.
ClientFIDs ==
  {f \in 1..MaxFID : CarefulFIDs => \A p \in PostingSet(main) : p[2] < f}

Recordings == {ts \in SUBSET Terms : ts # {} /\ Cardinality(ts) <= MaxRecTerms}

\* The fingerprint is stored under the FID of the recording before.
Bug_FingerprintOfPrevious(f, emit) == IF emit THEN fps \cup {currFID} ELSE fps

\* OnIndexerFingerprint, for a recording that comes as audio.
Fingerprints(f, emit) == IF emit /\ op # "GET" THEN fps \cup {f} ELSE fps

\* Index: the recording has postings in the lists ts.  emit: the recording
\* comes as audio, and its fingerprint is stored; in GET mode that fails and
\* ends the call.  A FID not above m_CurrFID is refused and changes nothing.
Index(f, ts, emit) ==
  /\ pc = "idle" /\ open
  /\ f \in ClientFIDs /\ f > currFID
  /\ ~emit => f \in fps
  /\ currFID' = f
  /\ cache' = [t \in Terms |-> IF t \in ts THEN Append(cache[t], f) ELSE cache[t]]
  /\ fps' = Fingerprints(f, emit)
  /\ accepted' = accepted \cup (ts \X {f})
  /\ session' = session \cup (ts \X {f})
  /\ IF CacheSize(cache') >= CacheLimit /\ ~(emit /\ op = "GET")
     THEN BeginFlush(cache', "idle")
     ELSE UNCHANGED <<run, main, delta, call>>
  /\ UNCHANGED <<open, dbOpen, op, bounds, acked, durable>>

\* OnAudioData reports an error: the whole cache is dropped, the recordings
\* indexed before this one included.
IndexAudioError ==
  /\ pc = "idle" /\ open /\ cache # EmptyCache
  /\ cache' = EmptyCache
  /\ session' = {p \in session : p[2] \notin ToSet(cache[p[1]])}
  /\ UNCHANGED <<open, currFID, store, call, bounds, accepted, acked, durable>>

Flush ==
  /\ pc = "idle" /\ open
  /\ BeginFlush(cache, "idle")
  /\ UNCHANGED <<indexer, dbOpen, op, fps, bounds, history>>

End(flush) ==
  /\ pc = "idle" /\ open
  /\ IF cache # EmptyCache /\ flush
     THEN BeginFlush(cache, "end") /\ UNCHANGED session
     ELSE /\ pc' = "end"
          /\ session' = {p \in session : p[2] \notin ToSet(cache[p[1]])}
          /\ UNCHANGED <<run, main, delta, ret, todo, job, mtodo, mbuf>>
  /\ UNCHANGED <<indexer, dbOpen, op, fps, bounds, accepted, acked, durable>>

\* A call ends in an exception: the session, the cache and the blocks
\* already emitted stay as they are.
Fail ==
  /\ pc' = "idle" /\ ret' = "idle" /\ todo' = {} /\ job' = NoJob
  /\ UNCHANGED <<mtodo, mbuf>>

-----------------------------------------------------------------------------
(* DoFlush.                                                                *)

\* OnIndexerListHeader and OnIndexerBlockHeader: the delta is preferred
\* from the second run on.
DeltaFirst == op = "BUILD_MERGE" /\ run # 1

ListHeader(t) ==
  IF DeltaFirst /\ GetPListHeader(delta, t) # 0 THEN GetPListHeader(delta, t)
  ELSE GetPListHeader(main, t)

\* The last block's header always comes from the live index.
Bug_BlockHeaderOfMain(t, b) == GetPListBlockHeader(main, t, b)

BlockHeader(t, b) ==
  IF DeltaFirst /\ GetPListBlockHeader(delta, t, b) # NullHdr
  THEN GetPListBlockHeader(delta, t, b) ELSE GetPListBlockHeader(main, t, b)

\* The header reads of list t write the pools of the databases they visit.
ReadsMain(t) ==
  \/ ~DeltaFirst \/ GetPListHeader(delta, t) = 0
  \/ GetPListBlockHeader(delta, t, ListHeader(t)) = NullHdr

BeginList(t) ==
  /\ pc = "flush" /\ job = NoJob /\ t \in todo
  /\ LET lh  == ListHeader(t)
         hdr == IF lh = 0 THEN NullHdr ELSE BlockHeader(t, lh)
     IN  IF op = "GET" \/ (lh # 0 /\ hdr = NullHdr)
         THEN Fail
         ELSE /\ job' = [term |-> t, lh |-> lh, hdr |-> hdr, rest |-> cache[t]]
              /\ todo' = todo \ {t}
              /\ UNCHANGED <<pc, ret, mtodo, mbuf>>
  /\ main' = IF op # "GET" /\ ReadsMain(t) THEN Sync(main) ELSE main
  /\ delta' = IF DeltaFirst THEN Sync(delta) ELSE delta
  /\ UNCHANGED <<indexer, dbOpen, op, run, fps, bounds, history>>

Target == IF op = "BUILD_MERGE" THEN delta ELSE main

\* A build-and-merge writes to the live index.
Bug_SetMain(ix) == main' = ix /\ UNCHANGED delta

SetTarget(ix) ==
  IF op = "BUILD_MERGE" THEN delta' = ix /\ UNCHANGED main ELSE main' = ix /\ UNCHANGED delta

\* The next chunk: the postings up to the chunk limit.
Chunk == SubSeq(job.rest, 1, IF Len(job.rest) < ChunkLimit THEN Len(job.rest) ELSE ChunkLimit)

\* A FID equal to the maximum passes.
Bug_EqualFIDValid == Last(Chunk) >= job.hdr.FIDmax

\* Only the last FID is compared with the maximum of the list.
ValidChunk == Last(Chunk) > job.hdr.FIDmax

RejectChunk ==
  /\ pc = "flush" /\ job # NoJob /\ ~ValidChunk
  /\ Fail
  /\ UNCHANGED <<indexer, store, bounds, history>>

MoveCache ==
  /\ pc = "flush" /\ job # NoJob /\ ValidChunk
  /\ Target.clist # job.term
  /\ \E order \in WriteOrders(Target) : SetTarget(SwitchList(Target, job.term, order))
  /\ UNCHANGED <<indexer, dbOpen, op, run, fps, call, bounds, history>>

\* The chunk is appended to the last block, or starts a new one.
Fits == job.hdr # NullHdr /\ job.hdr.BodySize < BlockLimit

\* Every chunk is coded as the first of its block.
Bug_BaseZero == 0

\* The FID a chunk is coded against.
Base == IF Fits THEN job.hdr.FIDmax ELSE 0

ChunkHeader ==
  IF Fits
  THEN [job.hdr EXCEPT !.BodySize = @ + Len(Chunk), !.FIDmax = Last(Chunk)]
  ELSE [ID |-> job.hdr.ID + 1, BodySize |-> Len(Chunk), FIDmax |-> Last(Chunk)]

EmitChunk ==
  /\ pc = "flush" /\ job # NoJob /\ ValidChunk
  /\ Target.clist = job.term
  /\ LET lh   == IF Fits THEN job.lh ELSE job.lh + 1
         code == Encode(Chunk, Base)
         rest == SubSeq(job.rest, Len(Chunk) + 1, Len(job.rest))
     IN  /\ SetTarget(AppendChunk(Target, job.term, lh, ChunkHeader, code, ~Fits))
         /\ job' = IF rest = <<>> THEN NoJob
                   ELSE [job EXCEPT !.lh = lh, !.hdr = ChunkHeader, !.rest = rest]
  /\ UNCHANGED <<indexer, dbOpen, op, run, fps, pc, ret, todo, mtodo, mbuf, bounds, history>>

\* OnIndexerFlushEnd, and back to the call that flushed.
EndFlush ==
  /\ pc = "flush" /\ job = NoJob /\ todo = {}
  /\ cache' = EmptyCache
  /\ \E order \in WriteOrders(Target) : SetTarget(FlushBlockCache(Target, order))
  /\ pc' = ret /\ ret' = "idle"
  /\ UNCHANGED <<open, currFID, dbOpen, op, run, fps, todo, job, mtodo, mbuf, bounds, history>>

-----------------------------------------------------------------------------
(* OnIndexerEnd.                                                           *)

Acknowledge == acked' = acked \cup session /\ session' = {}

EndSession ==
  /\ pc = "end"
  /\ open' = FALSE
  /\ IF op = "BUILD_MERGE"
     THEN /\ delta' = Sync(delta) /\ mtodo' = DOMAIN View(delta)
          /\ pc' = "merge" /\ UNCHANGED <<session, acked>>
     ELSE /\ pc' = "idle" /\ Acknowledge /\ UNCHANGED <<delta, mtodo>>
  /\ UNCHANGED <<currFID, cache, dbOpen, op, run, main, fps, ret, todo, job, mbuf,
                 bounds, accepted, durable>>

Larger(m, n) == IF m < n THEN n ELSE m

\* Merge, one record of the delta: read the live block, write the merged
\* one.  When the buffer must grow the headers may miss the record.
MergeRecord(k) ==
  /\ pc = "merge" /\ k \in mtodo
  /\ LET live == ReadBlock(main, k[1], k[2])
         d    == ReadBlock(delta, k[1], k[2])
         read == Larger(mbuf, Len(live.body))
         size == Larger(read, Len(live.body) + Len(d.body))
     IN  /\ \E stale \in IF size > read THEN BOOLEAN ELSE {FALSE} :
              main' = WriteBlock(Sync(main), k[1], k[2], MergedBlock(live, d, k[2], stale))
         /\ mbuf' = size
  /\ mtodo' = mtodo \ {k}
  /\ UNCHANGED <<indexer, dbOpen, op, run, delta, fps, pc, ret, todo, job, bounds, history>>

\* The merged delta stays.
Bug_DeltaStays == Sync(delta)

\* The delta file is removed by its bare name, so only from the working
\* directory.
MergedDelta == IF UrlIsCwd THEN EmptyIndex ELSE Sync(delta)

EndMerge ==
  /\ pc = "merge" /\ mtodo = {}
  /\ delta' = MergedDelta
  /\ pc' = "idle" /\ Acknowledge
  /\ UNCHANGED <<indexer, dbOpen, op, run, main, fps, ret, todo, job, mtodo, mbuf,
                 bounds, accepted, durable>>

-----------------------------------------------------------------------------
Next ==
  \/ \E mode \in Ops : OpenStore(mode)
  \/ CloseStore
  \/ Crash
  \/ Start
  \/ \E f \in 1..MaxFID, ts \in Recordings, emit \in BOOLEAN : Index(f, ts, emit)
  \/ IndexAudioError
  \/ Flush
  \/ \E flush \in BOOLEAN : End(flush)
  \/ \E t \in Terms : BeginList(t)
  \/ RejectChunk
  \/ MoveCache
  \/ EmitChunk
  \/ EndFlush
  \/ EndSession
  \/ \E k \in mtodo : MergeRecord(k)
  \/ EndMerge

Spec == Init /\ [][Next]_vars

-----------------------------------------------------------------------------
(* Properties.                                                             *)

\* The type of every variable: the indexer's and the store's members, the
\* call in progress, and the history.
TypeOK ==
  /\ open \in BOOLEAN /\ currFID \in 0..MaxFID /\ cache \in [Terms -> Seq(1..MaxFID)]
  /\ dbOpen \in BOOLEAN /\ op \in {"GET"} \cup Ops /\ run \in 0..2
  /\ IsIndex(main) /\ IsIndex(delta) /\ fps \subseteq 1..MaxFID
  /\ pc \in {"idle", "flush", "end", "merge"} /\ ret \in {"idle", "end"}
  /\ todo \subseteq Terms /\ mtodo \subseteq Terms \X Nat /\ mbuf \in Nat
  /\ job \in [term : Terms \cup {NoTerm}, lh : Nat,
              hdr : [ID : Nat, BodySize : Nat, FIDmax : Nat], rest : Seq(1..MaxFID)]
  /\ {accepted, session, acked, durable} \subseteq SUBSET (Terms \X (1..MaxFID))

\* The postings of a list are strictly increasing across its blocks: the
\* document-at-a-time matcher walks the lists in FID order (Matcher.cpp),
\* and a delta-coded body depends on the base it was coded against.
ListsIncrease == \A t \in Terms : StrictlyIncreasing(Postings(main, t))

\* No list names a recording that was never indexed in it, whatever mix of
\* chunks, new blocks, runs, merges and crashes wrote it.
NoPhantomPosting == PostingSet(main) \subseteq accepted

\* The blocks a list header counts are all there.  A crash while the cache
\* writes three new blocks of a list, in no particular order, may keep the
\* first, which has the list header, and the third without the second.
Whole(ix, t) == 1..GetPListHeader(ix, t) \subseteq DOMAIN BlocksOf(View(ix), t)

\* A reader finds the posting p.
Finds(ix, p) == p[2] \in ToSet(Postings(ix, p[1]))

\* What was indexed in a session is found once End has returned, if the
\* blocks of its list are all there: a reader stops at a missing block, and
\* the indexer appends after it.  And what is found stays: no later session
\* takes it back, and a crash only if the store was not closed since.
AckedKept ==
  [][\A p \in acked' :
       /\ Whole(main', p[1]) => Finds(main', p)
       /\ p \in acked /\ Finds(main, p) => Finds(main', p)]_vars

\* A block header tells the size of the body and the FID the next chunk is
\* coded against, and the list header the number of the block to append to;
\* the indexer trusts them without reading the bodies.  (A merge updates the
\* records of a list one at a time.)
BlockHeaderExact(r) == r.hdr.BodySize = Len(r.body) /\ r.hdr.FIDmax = Last(Decode(r.body))

HeadersExact ==
  pc # "merge" =>
    \A t \in Terms :
      LET blocks == BlocksOf(View(main), t)
      IN  /\ DOMAIN blocks = 1..GetPListHeader(main, t)
          /\ \A b \in DOMAIN blocks : blocks[b].hdr.ID = b /\ BlockHeaderExact(blocks[b])

\* What a reader relies on: the headers lead it through the blocks, and the
\* lists increase.
ListsSound == HeadersExact /\ ListsIncrease

\* A delta record extends exactly the live record it is merged into (the
\* assertion of TCIndex::Merge, TCDataStore.cpp:690).
DeltaExtendsLive ==
  pc = "merge" =>
    \A k \in mtodo :
      LET d == ReadBlock(delta, k[1], k[2])
      IN  d.hdr # NullHdr =>
            d.hdr.BodySize = Len(ReadBlock(main, k[1], k[2]).body) + Len(d.body)

\* Every recording in the index has its fingerprint in the store: the
\* matcher reads it when it reranks (Matcher.cpp), and the two are written
\* to different databases at different times.
IndexedHaveFingerprints == \A p \in PostingSet(main) : p[2] \in fps

\* What is found in the index was indexed, and can be reranked.
IndexGenuine == NoPhantomPosting /\ IndexedHaveFingerprints

\* A build-and-merge session leaves the live index alone until it merges.
LiveUntouchedBeforeMerge ==
  [][op = "BUILD_MERGE" /\ pc # "merge" /\ dbOpen' => View(main') = View(main)]_vars

\* The whole, without crashes: sessions over the store implement the live
\* index, a list being what a reader gets from the main index.
Live == INSTANCE LiveIndex WITH
  FIDs <- 1..MaxFID, lists <- [t \in Terms |-> Postings(main, t)]

ImplementsLiveIndex == Live!Spec
=============================================================================
