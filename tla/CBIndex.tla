------------------------------ MODULE CBIndex -------------------------------
(***************************************************************************)
(* CBIndex: a postings-list collection kept in a Couchbase bucket.         *)
(*                                                                         *)
(* Stores are only scheduled; they reach the server with the next lcb_wait *)
(* on the same handle, which every read makes, and are lost if the handle  *)
(* is destroyed before it.  All the stores of a handle answer into one     *)
(* status.  A bucket cannot be enumerated: the keys written in a session   *)
(* are remembered for its merge.                                           *)
(*                                                                         *)
(* An index is a record:                                                   *)
(*   server  the bucket, <<list, block>> -> block record                   *)
(*   sched   stores scheduled and not yet sent                             *)
(*   status  m_StoreResp.status, the last store that was answered          *)
(*   keys    m_KeyCache                                                    *)
(*   clist, accum, cache   m_BlocksCache: its list, the postings put in it *)
(*           since the last batch, block number -> block record            *)
(*                                                                         *)
(* libcouchbase is not part of the repository; it is modelled from how it  *)
(* is called here.                                                         *)
(***************************************************************************)
EXTENDS PostingsList, FiniteSets

CONSTANTS
  Terms,      \* the lists of an index
  NoTerm,     \* the block cache is of no list yet
  BatchLimit  \* the batch threshold, in postings (4096 bytes in the code)

ASSUME CBIndexAssumption == NoTerm \notin Terms /\ BatchLimit \in Nat \ {0}

NoRecords == [k \in {} |-> NoBlock]

NewIndex == [server |-> NoRecords, sched |-> <<>>, status |-> "ok", keys |-> <<>>,
             clist |-> NoTerm, accum |-> 0, cache |-> NoRecords]

\* The bucket once the scheduled stores were executed, those in lost failing.
StoresOn(ix, k, lost) == {i \in DOMAIN ix.sched \ lost : ix.sched[i][1] = k}

Stored(ix, lost) ==
  [k \in DOMAIN ix.server \cup {ix.sched[i][1] : i \in DOMAIN ix.sched \ lost} |->
     IF StoresOn(ix, k, lost) = {} THEN ix.server[k]
     ELSE ix.sched[Max(StoresOn(ix, k, lost))][2]]

\* The status after the stores answered: of whichever answered last.
Statuses(ix, lost) ==
  IF ix.sched = <<>> THEN {ix.status}
  ELSE {s \in {"ok", "failed"} : IF s = "ok" THEN lost # DOMAIN ix.sched ELSE lost # {}}

\* Nothing is waited for.
Bug_NoWait(ix, lost) == {ix}

\* lcb_wait: the states it may leave the index in.
Wait(ix, lost) ==
  {[ix EXCEPT !.server = Stored(ix, lost), !.sched = <<>>, !.status = s] : s \in Statuses(ix, lost)}

\* lcb_destroy: the scheduled stores are gone.
Close(ix) == [ix EXCEPT !.sched = <<>>]

\* What a read finds, for the stores before it are executed first.
View(ix) == Stored(ix, {})

ReadBlock(ix, list, id) ==
  IF <<list, id>> \in DOMAIN View(ix) THEN View(ix)[<<list, id>>] ELSE NoBlock

GetPListHeader(ix, list) == ReadBlock(ix, list, 1).lh

GetPListBlockHeader(ix, list, id) == ReadBlock(ix, list, id).hdr

WriteBlock(ix, list, id, block) ==
  [ix EXCEPT !.sched = Append(@, <<<<list, id>>, block>>)]

\* The cached blocks are scheduled (in any order: their keys differ).
WriteCached(ix) ==
  LET ids == SetToSeq(DOMAIN ix.cache)
  IN  [ix EXCEPT !.sched = @ \o [i \in 1..Len(ids) |-> <<<<ix.clist, ids[i]>>, ix.cache[ids[i]]>>]]

\* AppendChunk, first half: the cache, scheduled, moves to another list.
SwitchList(ix, list) == [ix EXCEPT !.clist = list, !.cache = NoRecords]

Put(blocks, id, block) ==
  [b \in DOMAIN blocks \cup {id} |-> IF b = id THEN block ELSE blocks[b]]

\* A block the cache has: a failed read leaves an empty one behind.
Cached(ix, id) == id \in DOMAIN ix.cache /\ ix.cache[id] # NoBlock

ReadsBlock(ix, hdr, new) == ~new /\ ~Cached(ix, hdr.ID)

Fetch(ix, list, id, new) ==
  IF Cached(ix, id) THEN ix.cache[id] ELSE IF new THEN NoBlock ELSE ReadBlock(ix, list, id)

\* A key is remembered when its block is created.
Bug_KeyOfNewBlocksOnly(ix, list, id, old) == IF old = NoBlock /\ id # 1 THEN Append(ix.keys, <<list, id>>) ELSE ix.keys

Keys(ix, list, id, old) == IF old = NoBlock THEN Append(ix.keys, <<list, id>>) ELSE ix.keys

\* UpdateListHeader: the list header lives in block 1.
UpdateListHeader(ix, list, lh) ==
  LET first == Fetch(ix, list, 1, FALSE)
  IN  [ix EXCEPT !.cache = Put(@, 1, [first EXCEPT !.lh = lh]), !.keys = Keys(ix, list, 1, first)]

\* New blocks do not reach the list header.
Bug_ListHeaderStays(ix, list, lh, hdr, chunk, new) ==
  LET old == Fetch(ix, list, hdr.ID, new)
  IN  [ix EXCEPT !.accum = @ + Len(chunk),
                 !.cache = Put(@, hdr.ID, [lh |-> IF hdr.ID = 1 THEN lh ELSE 0, hdr |-> hdr,
                                           body |-> old.body \o chunk]),
                 !.keys = Keys(ix, list, hdr.ID, old)]

\* AppendChunk, second half: the list is the cached one.
AppendChunk(ix, list, lh, hdr, chunk, new) ==
  LET old   == Fetch(ix, list, hdr.ID, new)
      block == [lh |-> IF hdr.ID = 1 THEN lh ELSE 0, hdr |-> hdr, body |-> old.body \o chunk]
      i1    == [ix EXCEPT !.accum = @ + Len(chunk), !.cache = Put(@, hdr.ID, block),
                          !.keys = Keys(ix, list, hdr.ID, old)]
  IN  IF new /\ hdr.ID # 1 THEN UpdateListHeader(i1, list, lh) ELSE i1

\* AppendChunk reads the block, or the first one for its list header.
Reads(ix, hdr, new) == ReadsBlock(ix, hdr, new) \/ (new /\ hdr.ID # 1 /\ ~Cached(ix, 1))

\* The read fails: the block asked for is left empty in the cache.
AppendFails(ix, list, lh, hdr, chunk, new) ==
  IF ReadsBlock(ix, hdr, new)
  THEN [ix EXCEPT !.accum = @ + Len(chunk), !.cache = Put(@, hdr.ID, NoBlock)]
  ELSE [ix EXCEPT !.accum = @ + Len(chunk),
                  !.cache = Put(Put(@, hdr.ID, [lh |-> 0, hdr |-> hdr, body |-> chunk]), 1, NoBlock),
                  !.keys = Keys(ix, list, hdr.ID, NoBlock)]

\* The flushed blocks stay cached.
Bug_FlushKeepsBlocks(ix) == [ix EXCEPT !.clist = NoTerm, !.accum = 0]

FlushedCache(ix) == [ix EXCEPT !.clist = NoTerm, !.accum = 0, !.cache = NoRecords]

ResetCaches(ix) == [ix EXCEPT !.accum = 0, !.cache = NoRecords, !.keys = <<>>]

\* The delta replaces the live block.
Bug_MergeReplaces(l, d, id, stale) == d

\* Merge, one delta record d into the live record l.  stale: the headers
\* were written where the live block was before its buffer moved.
MergedBlock(l, d, id, stale) ==
  [lh   |-> IF id = 1 /\ ~stale THEN d.lh ELSE l.lh,
   hdr  |-> IF d.hdr # NullHdr /\ ~stale THEN d.hdr ELSE l.hdr,
   body |-> l.body \o d.body]

\* Nothing is dropped.
Bug_DropNothing(ix) == ix

\* Drop: the bucket is emptied, of what the wait for it sends as well.
Drop(ix) ==
  [ix EXCEPT !.server = NoRecords, !.sched = <<>>,
             !.status = IF ix.sched = <<>> THEN @ ELSE "ok"]

BlocksOf(records, list) ==
  [id \in {k[2] : k \in {q \in DOMAIN records : q[1] = list}} |-> records[<<list, id>>]]

\* The postings a reader finds in a list.
Postings(ix, list) == ListOf(BlocksOf(View(ix), list))
=============================================================================
