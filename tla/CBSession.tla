----------------------------- MODULE CBSession ------------------------------
(***************************************************************************)
(* Indexing sessions over a Couchbase server: IndexerImpl over a           *)
(* CBDataStore.  As in IndexingSession a call of the client is atomic      *)
(* except where it touches the database; here the server may also fail a   *)
(* request ("transient error, may retry"), and nothing stored is on the    *)
(* server before the next wait.                                            *)
(*                                                                         *)
(* A trouble is the death of the process, a wait with a failed request,    *)
(* the read itself ("get") or some of the stores it executes ("store"), or *)
(* a merge whose buffer grows and moves ("moved") from under the pointers  *)
(* that the headers are then written through.                              *)
(***************************************************************************)
EXTENDS CBIndex

CONSTANTS
  Ops,           \* the modes a store may be opened in
  MaxFID,        \* bound: FIDs are 1..MaxFID
  MaxRecTerms,   \* bound: lists one recording has postings in
  ChunkLimit,    \* POSTINGSLIST_CHUNK_THRESHOLD, in postings
  BlockLimit,    \* POSTINGSLIST_BLOCK_THRESHOLD, in postings
  CacheLimit,    \* the cache's memory limit, in postings
  MergeBuffer,   \* the initial size of the merge buffer, in postings
  RetriesFlush,  \* the client goes on with a session that failed
  ReadsLast,     \* the client reads the index before it closes the store
  MaxTroubles,   \* bound: number of troubles
  MaxSessions    \* bound: number of sessions

ASSUME CBSessionAssumption ==
  /\ Ops \subseteq {"BUILD", "BUILD_MERGE"}
  /\ MaxFID \in Nat /\ MaxFID < FidMod
  /\ {MaxRecTerms, MaxTroubles, MaxSessions} \subseteq Nat
  /\ {ChunkLimit, BlockLimit, CacheLimit, MergeBuffer} \subseteq Nat \ {0}
  /\ {RetriesFlush, ReadsLast} \subseteq BOOLEAN

VARIABLES
  open, currFID, cache,        \* the indexer: m_SessionOpen, m_CurrFID, m_Cache
  dbOpen, op, run,             \* the store: m_IsOpen, m_Op, m_Run
  main, delta, fps,            \* m_MainIndex, m_DeltaIndex, the fingerprints
  pc, ret, todo, job, mkeys, mbuf,   \* the call in progress
  failed,                      \* a call of this session ended in an exception
  troubles, sessions,          \* counters of the bounds
  accepted, session, acked     \* history, as in IndexingSession

indexer == <<open, currFID, cache>>
store   == <<dbOpen, op, run, main, delta, fps>>
call    == <<pc, ret, todo, job, mkeys, mbuf, failed>>
history == <<accepted, session, acked>>
vars    == <<indexer, store, call, troubles, sessions, history>>

NoJob == [term |-> NoTerm, lh |-> 0, hdr |-> NullHdr, rest |-> <<>>]

EmptyCache == [t \in Terms |-> <<>>]

PostingSet(ix) == UNION {{<<t, f>> : f \in ToSet(Postings(ix, t))} : t \in Terms}

\* A store is opened in one mode throughout.
Init ==
  /\ open = FALSE /\ currFID = 0 /\ cache = EmptyCache
  /\ dbOpen = FALSE /\ op \in Ops /\ run = 0
  /\ main = NewIndex /\ delta = NewIndex /\ fps = {}
  /\ pc = "idle" /\ ret = "idle" /\ todo = {} /\ job = NoJob
  /\ mkeys = <<>> /\ mbuf = MergeBuffer /\ failed = FALSE
  /\ troubles = 0 /\ sessions = 0
  /\ accepted = {} /\ session = {} /\ acked = {}

\* A call ends in an exception: the session, the cache and the blocks
\* already emitted stay as they are.
Fail ==
  /\ pc' = "idle" /\ ret' = "idle" /\ todo' = {} /\ job' = NoJob /\ failed' = TRUE
  /\ UNCHANGED <<mkeys, mbuf>>

\* The next call of the client; one that does not retry goes no further.
Idle == pc = "idle" /\ (failed => RetriesFlush)

Faults == {"none"} \cup (IF troubles < MaxTroubles THEN {"get", "store"} ELSE {})

Count(fault) == troubles' = IF fault = "none" THEN troubles ELSE troubles + 1

\* What a wait may leave of an index.
Waits(ix, fault) ==
  UNION {Wait(ix, lost) : lost \in IF fault = "store" THEN SUBSET DOMAIN ix.sched ELSE {{}}}

-----------------------------------------------------------------------------
(* The store's calls outside a flush.                                      *)

\* The handles are new, the caches of the collections are not.
OpenStore ==
  /\ ~dbOpen
  /\ dbOpen' = TRUE
  /\ UNCHANGED <<indexer, op, run, main, delta, fps, call, troubles, sessions, history>>

\* GetPListBlock, from outside a session.
ReadList ==
  /\ dbOpen /\ pc = "idle" /\ ~open
  /\ \E fault \in Faults : Count(fault) /\ main' \in Waits(main, fault)
  /\ UNCHANGED <<indexer, dbOpen, op, run, delta, fps, call, sessions, history>>

CloseStore ==
  /\ dbOpen /\ pc = "idle" /\ ~open
  /\ ReadsLast => main.sched = <<>>
  /\ dbOpen' = FALSE /\ main' = Close(main) /\ delta' = Close(delta)
  /\ UNCHANGED <<indexer, op, run, fps, call, troubles, sessions, history>>

\* Clear, of a store with something in it: the delta is not among what is
\* dropped.  The client starts over.
ClearStore ==
  /\ dbOpen /\ pc = "idle" /\ ~open
  /\ main.server # NoRecords
  /\ main' = Drop(main) /\ fps' = {} /\ accepted' = {} /\ acked' = {}
  /\ UNCHANGED <<indexer, dbOpen, op, run, delta, call, troubles, sessions, session>>

\* The process is no more; of the scheduled stores any were executed.
Gone ==
  /\ \E lost \in SUBSET DOMAIN main.sched : main' = [NewIndex EXCEPT !.server = Stored(main, lost)]
  /\ \E lost \in SUBSET DOMAIN delta.sched : delta' = [NewIndex EXCEPT !.server = Stored(delta, lost)]
  /\ open' = FALSE /\ currFID' = 0 /\ cache' = EmptyCache
  /\ dbOpen' = FALSE /\ run' = 0
  /\ pc' = "idle" /\ ret' = "idle" /\ todo' = {} /\ job' = NoJob
  /\ mkeys' = <<>> /\ mbuf' = MergeBuffer /\ failed' = FALSE
  /\ session' = {}
  /\ UNCHANGED <<op, fps, sessions, accepted, acked>>

Crash == dbOpen /\ troubles < MaxTroubles /\ troubles' = troubles + 1 /\ Gone

\* A client that does not retry drops the indexer and the store.
Abandon == failed /\ ~RetriesFlush /\ Gone /\ UNCHANGED troubles

-----------------------------------------------------------------------------
(* Start, Index, Flush and End.                                            *)

\* A build-and-merge opens the delta bucket anew.
Start ==
  /\ dbOpen /\ Idle /\ ~open
  /\ sessions < MaxSessions /\ sessions' = sessions + 1
  /\ open' = TRUE /\ currFID' = 0 /\ cache' = EmptyCache /\ session' = {}
  /\ run' = 0 /\ main' = ResetCaches(main)
  /\ delta' = ResetCaches(IF op = "BUILD_MERGE" THEN Close(delta) ELSE delta)
  /\ UNCHANGED <<dbOpen, op, fps, call, troubles, accepted, acked>>

CacheSize(c) == FoldFunction(LAMBDA l, n : Len(l) + n, 0, c)

\* Flush up to the loop of DoFlush.  Runs are counted up to the second: the
\* code compares the counter with 1 only.
BeginFlush(c, after) ==
  /\ run' = IF run = 0 THEN 1 ELSE 2
  /\ todo' = {t \in Terms : c[t] # <<>>}
  /\ pc' = "flush" /\ ret' = after
  /\ UNCHANGED <<job, mkeys, mbuf, failed>>

\* New recordings are numbered above the FIDs handed out before.
ClientFIDs == {f \in 1..MaxFID : \A p \in accepted : p[2] < f}

Recordings == {ts \in SUBSET Terms : ts # {} /\ Cardinality(ts) <= MaxRecTerms}

\* Index, a recording that comes as audio: its postings are cached, then its
\* fingerprint is stored and waited for.  A failure ends the call there.
Index(f, ts) ==
  /\ Idle /\ open
  /\ f \in ClientFIDs /\ f > currFID
  /\ currFID' = f
  /\ cache' = [t \in Terms |-> IF t \in ts THEN Append(cache[t], f) ELSE cache[t]]
  /\ accepted' = accepted \cup (ts \X {f})
  /\ session' = session \cup (ts \X {f})
  /\ \E fault \in Faults \ {"get"} :
       /\ Count(fault)
       /\ fps' = IF fault = "store" THEN fps ELSE fps \cup {f}
       /\ IF fault = "store" THEN Fail /\ UNCHANGED run
          ELSE IF CacheSize(cache') >= CacheLimit THEN BeginFlush(cache', "idle")
          ELSE UNCHANGED <<run, call>>
  /\ UNCHANGED <<open, dbOpen, op, main, delta, sessions, acked>>

Flush ==
  /\ Idle /\ open
  /\ BeginFlush(cache, "idle")
  /\ UNCHANGED <<indexer, dbOpen, op, main, delta, fps, troubles, sessions, history>>

End(flush) ==
  /\ Idle /\ open
  /\ IF cache # EmptyCache /\ flush
     THEN BeginFlush(cache, "end") /\ UNCHANGED session
     ELSE /\ pc' = "end"
          /\ session' = {p \in session : p[2] \notin ToSet(cache[p[1]])}
          /\ UNCHANGED <<run, ret, todo, job, mkeys, mbuf, failed>>
  /\ UNCHANGED <<indexer, dbOpen, op, main, delta, fps, troubles, sessions, accepted, acked>>

-----------------------------------------------------------------------------
(* DoFlush.                                                                *)

\* The run is not looked at.
Bug_DeltaNever == FALSE

\* OnIndexerListHeader and OnIndexerBlockHeader: the delta is preferred
\* from the second run on.
DeltaFirst == op = "BUILD_MERGE" /\ run # 1

ListHeader(t) ==
  IF DeltaFirst /\ GetPListHeader(delta, t) # 0 THEN GetPListHeader(delta, t)
  ELSE GetPListHeader(main, t)

BlockHeader(t, b) ==
  IF DeltaFirst /\ GetPListBlockHeader(delta, t, b) # NullHdr
  THEN GetPListBlockHeader(delta, t, b) ELSE GetPListBlockHeader(main, t, b)

ReadsMain(t) ==
  \/ ~DeltaFirst \/ GetPListHeader(delta, t) = 0
  \/ GetPListBlockHeader(delta, t, ListHeader(t)) = NullHdr

\* The headers of a list are read, which executes what was scheduled.
BeginList(t) ==
  /\ pc = "flush" /\ job = NoJob /\ t \in todo
  /\ \E fault \in Faults :
       /\ Count(fault)
       /\ main' \in IF ReadsMain(t) THEN Waits(main, fault) ELSE {main}
       /\ delta' \in IF DeltaFirst THEN Waits(delta, fault) ELSE {delta}
       /\ LET lh  == ListHeader(t)
              hdr == IF lh = 0 THEN NullHdr ELSE BlockHeader(t, lh)
          IN  IF fault = "get" \/ (lh # 0 /\ hdr = NullHdr)
              THEN Fail
              ELSE /\ job' = [term |-> t, lh |-> lh, hdr |-> hdr, rest |-> cache[t]]
                   /\ todo' = todo \ {t}
                   /\ UNCHANGED <<pc, ret, mkeys, mbuf, failed>>
  /\ UNCHANGED <<indexer, dbOpen, op, run, fps, sessions, history>>

Target == IF op = "BUILD_MERGE" THEN delta ELSE main

SetTarget(S) ==
  IF op = "BUILD_MERGE" THEN delta' \in S /\ UNCHANGED main ELSE main' \in S /\ UNCHANGED delta

Chunk == SubSeq(job.rest, 1, IF Len(job.rest) < ChunkLimit THEN Len(job.rest) ELSE ChunkLimit)

\* Only the last FID is compared with the maximum of the list.
ValidChunk == Last(Chunk) > job.hdr.FIDmax

RejectChunk ==
  /\ pc = "flush" /\ job # NoJob /\ ~ValidChunk
  /\ Fail
  /\ UNCHANGED <<indexer, store, troubles, sessions, history>>

\* AppendChunk for another list: the cached blocks are scheduled, and a
\* large batch is executed at once.
BatchDue == Target.accum >= BatchLimit

MoveCache ==
  /\ pc = "flush" /\ job # NoJob /\ ValidChunk /\ Target.clist # job.term
  /\ IF BatchDue
     THEN SetTarget({WriteCached(Target)}) /\ pc' = "batch"
     ELSE SetTarget({SwitchList(WriteCached(Target), job.term)}) /\ UNCHANGED pc
  /\ UNCHANGED <<indexer, dbOpen, op, run, fps, ret, todo, job, mkeys, mbuf, failed,
                 troubles, sessions, history>>

\* The batch fails by the status of its last answer.
ExecuteBatch ==
  /\ pc = "batch"
  /\ \E fault \in Faults \ {"get"} : \E ix \in Waits(Target, fault) :
       /\ Count(fault)
       /\ IF ix.status = "failed" THEN SetTarget({ix}) /\ Fail
          ELSE /\ SetTarget({SwitchList([ix EXCEPT !.accum = 0], job.term)})
               /\ pc' = "flush" /\ UNCHANGED <<ret, todo, job, mkeys, mbuf, failed>>
  /\ UNCHANGED <<indexer, dbOpen, op, run, fps, sessions, history>>

\* The chunk is appended to the last block, or starts a new one.
Fits == job.hdr # NullHdr /\ job.hdr.BodySize < BlockLimit

\* A new block goes on from the FIDs of the one before.
Bug_BaseOfOldBlock == job.hdr.FIDmax

Base == IF Fits THEN job.hdr.FIDmax ELSE 0

ChunkHeader ==
  IF Fits
  THEN [job.hdr EXCEPT !.BodySize = @ + Len(Chunk), !.FIDmax = Last(Chunk)]
  ELSE [ID |-> job.hdr.ID + 1, BodySize |-> Len(Chunk), FIDmax |-> Last(Chunk)]

EmitChunk ==
  /\ pc = "flush" /\ job # NoJob /\ ValidChunk /\ Target.clist = job.term
  /\ LET lh    == IF Fits THEN job.lh ELSE job.lh + 1
         code  == Encode(Chunk, Base)
         rest  == SubSeq(job.rest, Len(Chunk) + 1, Len(job.rest))
         reads == Reads(Target, ChunkHeader, ~Fits)
     IN  \E fault \in IF reads THEN Faults ELSE {"none"} :
           /\ Count(fault)
           /\ \E ix \in IF reads THEN Waits(Target, fault) ELSE {Target} :
                IF fault = "get"
                THEN /\ SetTarget({AppendFails(ix, job.term, lh, ChunkHeader, code, ~Fits)})
                     /\ Fail
                ELSE /\ SetTarget({AppendChunk(ix, job.term, lh, ChunkHeader, code, ~Fits)})
                     /\ job' = IF rest = <<>> THEN NoJob
                               ELSE [job EXCEPT !.lh = lh, !.hdr = ChunkHeader, !.rest = rest]
                     /\ UNCHANGED <<pc, ret, todo, mkeys, mbuf, failed>>
  /\ UNCHANGED <<indexer, dbOpen, op, run, fps, sessions, history>>

\* m_Cache.Reset and OnIndexerFlushEnd: the cached blocks are scheduled and
\* executed, and stay cached if the status of the last answer is an error.
EndFlush ==
  /\ pc = "flush" /\ job = NoJob /\ todo = {}
  /\ cache' = EmptyCache
  /\ IF DOMAIN Target.cache = {}
     THEN SetTarget({Target}) /\ pc' = ret /\ ret' = "idle" /\ UNCHANGED <<troubles, failed>>
     ELSE \E fault \in Faults \ {"get"} : \E ix \in Waits(WriteCached(Target), fault) :
            /\ Count(fault)
            /\ IF ix.status = "failed"
               THEN SetTarget({ix}) /\ pc' = "idle" /\ ret' = "idle" /\ failed' = TRUE
               ELSE SetTarget({FlushedCache(ix)}) /\ pc' = ret /\ ret' = "idle" /\ UNCHANGED failed
  /\ UNCHANGED <<open, currFID, dbOpen, op, run, fps, todo, job, mkeys, mbuf, sessions, history>>

-----------------------------------------------------------------------------
(* OnIndexerEnd.                                                           *)

Acknowledge == acked' = acked \cup session /\ session' = {}

\* OnIndexerEnd flushes the delta's block cache, which the flushes before it
\* left empty unless one of them failed, and merges with a buffer of its own.
EndSession ==
  /\ pc = "end"
  /\ open' = FALSE
  /\ IF op = "BUILD" THEN pc' = "idle" /\ Acknowledge /\ UNCHANGED <<delta, mkeys, mbuf, failed, troubles>>
     ELSE \E fault \in Faults \ {"get"} : \E ix \in Waits(WriteCached(delta), fault) :
            /\ Count(fault)
            /\ IF ix.status = "failed" /\ DOMAIN delta.cache # {}
               THEN delta' = ix /\ pc' = "idle" /\ failed' = TRUE /\ UNCHANGED <<mkeys, mbuf>>
               ELSE /\ delta' = IF DOMAIN delta.cache = {} THEN delta ELSE FlushedCache(ix)
                    /\ mkeys' = delta.keys /\ mbuf' = MergeBuffer /\ pc' = "merge" /\ UNCHANGED failed
            /\ UNCHANGED <<session, acked>>
  /\ UNCHANGED <<currFID, cache, dbOpen, op, run, main, fps, ret, todo, job, sessions, accepted>>

Larger(m, n) == IF m < n THEN n ELSE m

MergeFaults == Faults \cup (IF troubles < MaxTroubles THEN {"moved"} ELSE {})

BufferMoves(fault) == fault = "moved"

\* Merge, the next remembered key: the delta and the live block are read
\* and the merged one is scheduled.  The read makes room for the live block,
\* and the buffer grows once more if what is merged into it needs that.
MergeRecord ==
  /\ pc = "merge" /\ mkeys # <<>>
  /\ \E fault \in MergeFaults :
       /\ Count(fault)
       /\ delta' \in Waits(delta, "none")
       /\ \E ix \in Waits(main, fault) :
            IF fault = "get" THEN main' = ix /\ Fail
            ELSE LET k    == Head(mkeys)
                     live == ReadBlock(ix, k[1], k[2])
                     d    == ReadBlock(delta, k[1], k[2])
                     read == Larger(mbuf, Len(live.body))
                     size == Larger(read, Len(live.body) + Len(d.body))
                 IN  /\ BufferMoves(fault) => size > read
                     /\ main' = WriteBlock(ix, k[1], k[2], MergedBlock(live, d, k[2], BufferMoves(fault)))
                     /\ mkeys' = Tail(mkeys) /\ mbuf' = size
                     /\ UNCHANGED <<pc, ret, todo, job, failed>>
  /\ UNCHANGED <<indexer, dbOpen, op, run, fps, sessions, history>>

\* The delta is emptied on the server.  The last store of the merge has not
\* been waited for.
EndMerge ==
  /\ pc = "merge" /\ mkeys = <<>>
  /\ \E fault \in Faults \ {"store"} :
       /\ Count(fault)
       /\ IF fault = "get" THEN Fail /\ UNCHANGED <<delta, session, acked>>
          ELSE /\ delta' = Drop(delta) /\ Acknowledge
               /\ pc' = "idle" /\ UNCHANGED <<ret, todo, job, mkeys, mbuf, failed>>
  /\ UNCHANGED <<indexer, dbOpen, op, run, main, fps, sessions, accepted>>

-----------------------------------------------------------------------------
Next ==
  \/ OpenStore
  \/ ReadList
  \/ CloseStore
  \/ ClearStore
  \/ Crash
  \/ Abandon
  \/ Start
  \/ \E f \in 1..MaxFID, ts \in Recordings : Index(f, ts)
  \/ Flush
  \/ \E flush \in BOOLEAN : End(flush)
  \/ \E t \in Terms : BeginList(t)
  \/ RejectChunk
  \/ MoveCache
  \/ ExecuteBatch
  \/ EmitChunk
  \/ EndFlush
  \/ EndSession
  \/ MergeRecord
  \/ EndMerge

Spec == Init /\ [][Next]_vars

-----------------------------------------------------------------------------
(* Properties.                                                             *)

\* The type of the call in progress, of the counters and of the history.
TypeOK ==
  /\ {open, dbOpen, failed} \subseteq BOOLEAN /\ op \in Ops /\ run \in 0..2
  /\ currFID \in 0..MaxFID /\ cache \in [Terms -> Seq(1..MaxFID)]
  /\ pc \in {"idle", "flush", "batch", "end", "merge"} /\ ret \in {"idle", "end"}
  /\ todo \subseteq Terms /\ mbuf \in Nat
  /\ \A ix \in {main, delta} :
       /\ ix.status \in {"ok", "failed"} /\ ix.clist \in Terms \cup {NoTerm} /\ ix.accum \in Nat
       /\ DOMAIN ix.server \subseteq Terms \X Nat /\ ix.keys \in Seq(Terms \X Nat)
       /\ \A k \in DOMAIN ix.server : ix.server[k] \in BlockRecords
  /\ {accepted, session, acked} \subseteq SUBSET (Terms \X (1..MaxFID)) /\ fps \subseteq 1..MaxFID

Untroubled == troubles = 0 /\ ~failed

\* The keys remembered for the merge are the records of the delta, each of
\* them once, wherever the record is: on the server, scheduled or cached.
\* The merge has no other way to find them ("Couchbase does not provide such
\* iterators", CBDataStore.cpp): a missing key loses postings, a key twice
\* appends them twice.
DeltaKeys ==
  DOMAIN View(delta) \cup {<<delta.clist, b>> : b \in DOMAIN delta.cache}

KeysCoverDelta ==
  Untroubled /\ op = "BUILD_MERGE" /\ (open \/ pc = "merge") =>
    ToSet(delta.keys) = DeltaKeys /\ IsInjective(delta.keys)

\* The headers tell the truth about the bodies, as a reader of the live index
\* finds them between two calls.
BlockHeaderExact(r) == r.hdr.BodySize = Len(r.body) /\ r.hdr.FIDmax = Last(Decode(r.body))

HeadersExact ==
  Untroubled /\ pc \notin {"merge"} =>
    \A t \in Terms :
      LET blocks == BlocksOf(View(main), t)
      IN  /\ DOMAIN blocks = 1..GetPListHeader(main, t)
          /\ \A b \in DOMAIN blocks : blocks[b].hdr.ID = b /\ BlockHeaderExact(blocks[b])

\* The lists increase strictly, across blocks, runs and merges.
ListsIncrease == Untroubled => \A t \in Terms : StrictlyIncreasing(Postings(main, t))

\* What a reader relies on: the headers lead it through the blocks, and the
\* lists increase.
ListsSound == TypeOK /\ HeadersExact /\ ListsIncrease

\* A list holds nothing that was not indexed, even when the server lost a
\* part of a batch or the process died between two stores of it.
NoPhantomPosting == Untroubled \/ op = "BUILD" => PostingSet(main) \subseteq accepted

\* A client that numbers its recordings upwards, from the start again once it
\* cleared the store, is never refused a chunk.  A build-and-merge after a
\* crash may be: Clear leaves the delta, and its headers, where they are.
NeverRefused ==
  Untroubled \/ op = "BUILD" => ~(pc = "flush" /\ job # NoJob /\ ~ValidChunk)

\* What a session indexed is in the live index once End has returned.
AckedKept == Untroubled => acked \subseteq PostingSet(main)

\* A session never leaves more than the one store of its last merged record
\* unsent.
OneStoreUnsent == Untroubled /\ pc = "idle" /\ ~open => Len(main.sched) <= 1 /\ delta.sched = <<>>

\* What a session indexed can be read when it has ended, and all but one of
\* its stores have been sent.
AckedSafe == AckedKept /\ OneStoreUnsent

-----------------------------------------------------------------------------
(* Statements the code does not keep (README, section 5): no run has them.  *)

\* What a session indexed is on the server once the store is closed: nothing
\* waits in a pipe ("Write operations are just scheduled (buffered) and must
\* be flushed to the server by calling lcb_wait()", CBDataStore.cpp:823).
AckedStored == Untroubled /\ ~dbOpen => acked \subseteq PostingSet([main EXCEPT !.sched = <<>>])

\* What a merge writes without any other trouble has the size its header says
\* ("assert(dblk.Header->BodySize == lblk.BodySize + dblk.BodySize)",
\* CBDataStore.cpp:1018), also if the buffer moved in between.
MergedExact ==
  [][Untroubled /\ pc = "merge" /\ pc' = "merge" /\ Len(mkeys') < Len(mkeys) /\ main'.status = "ok" =>
       LET r == Last(main'.sched)[2] IN r.hdr.BodySize = Len(r.body)]_vars
=============================================================================
