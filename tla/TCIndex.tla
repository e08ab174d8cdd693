------------------------------ MODULE TCIndex -------------------------------
(***************************************************************************)
(* TCIndex: a postings-list collection kept in one TokyoCabinet hash       *)
(* database, behind a cache of the blocks of one list.  The main (live)    *)
(* index and the delta index of a build-and-merge are two of them.         *)
(*                                                                         *)
(* An index is a record:                                                   *)
(*   disk   records that survive a crash, <<list, block>> -> block record  *)
(*   pool   records handed to tchdbputasync and not yet written through;   *)
(*          the process reads them, a crash loses a suffix of them         *)
(*   clist  m_BlocksCache.list_id                                          *)
(*   cache  m_BlocksCache.buffer, block number -> block record             *)
(*                                                                         *)
(* tchdbget and tchdbiterinit write the pool through before they read      *)
(* (TokyoCabinet is not part of the repository; this is how its async      *)
(* records behave for the calls made here).                                *)
(***************************************************************************)
EXTENDS PostingsList

CONSTANTS
  Terms,   \* the lists of an index
  NoTerm   \* the empty block cache is of no list

ASSUME TermAssumption == NoTerm \notin Terms

\* Records, block number or <<list, block>> -> block record.
NoRecords == [k \in {} |-> NoBlock]

EmptyIndex == [disk |-> NoRecords, pool |-> <<>>, clist |-> NoTerm, cache |-> NoRecords]

Keys == Terms \X Nat

AreRecords(f, K) == DOMAIN f \subseteq K /\ f \in [DOMAIN f -> BlockRecords]

IsIndex(ix) ==
  /\ ix \in [disk : {ix.disk}, pool : Seq(Keys \X BlockRecords),
             clist : Terms \cup {NoTerm}, cache : {ix.cache}]
  /\ AreRecords(ix.disk, Keys)
  /\ AreRecords(ix.cache, Nat) /\ IsFiniteSet(DOMAIN ix.cache)
  /\ ix.clist = NoTerm => DOMAIN ix.cache = {}

\* The pending writes of a key, and the records with the last of them on top.
PendingOn(pool, k) == {i \in DOMAIN pool : pool[i][1] = k}

Overlay(disk, pool) ==
  [k \in DOMAIN disk \cup {pool[i][1] : i \in DOMAIN pool} |->
     IF PendingOn(pool, k) = {} THEN disk[k] ELSE pool[Max(PendingOn(pool, k))][2]]

\* The records the process reads.
View(ix) == Overlay(ix.disk, ix.pool)

Sync(ix) == [ix EXCEPT !.disk = View(ix), !.pool = <<>>]

\* What is left of an index when the process dies: the first n pending
\* writes reached the file.
Survivor(ix, n) == [EmptyIndex EXCEPT !.disk = Overlay(ix.disk, SubSeq(ix.pool, 1, n))]

ReadBlock(ix, list, id) ==
  IF <<list, id>> \in DOMAIN View(ix) THEN View(ix)[<<list, id>>] ELSE NoBlock

GetPListHeader(ix, list) == ReadBlock(ix, list, 1).lh

GetPListBlockHeader(ix, list, id) == ReadBlock(ix, list, id).hdr

WriteBlock(ix, list, id, block) ==
  [ix EXCEPT !.pool = Append(@, <<<<list, id>>, block>>)]

\* The orders in which the unordered block cache may be written out.
WriteOrders(ix) == SetToSeqs(DOMAIN ix.cache)

WriteCached(ix, order) ==
  [ix EXCEPT !.pool = @ \o [i \in 1..Len(order) |-> <<<<ix.clist, order[i]>>, ix.cache[order[i]]>>]]

ClearCache(ix) == [ix EXCEPT !.clist = NoTerm, !.cache = NoRecords]

\* The cache is cleared and not written.
Bug_FlushDropsCache(ix, order) == ClearCache(ix)

FlushBlockCache(ix, order) == ClearCache(WriteCached(ix, order))

\* AppendChunk, first half: the cache moves to another list.
SwitchList(ix, list, order) ==
  [WriteCached(ix, order) EXCEPT !.clist = list, !.cache = NoRecords]

\* A block is put in the cache.
Put(blocks, id, block) ==
  [b \in DOMAIN blocks \cup {id} |-> IF b = id THEN block ELSE blocks[b]]

\* A cached block, or the stored one (read unless it is new).
Cached(ix, id) == id \in DOMAIN ix.cache

Fetch(ix, list, id, new) ==
  IF Cached(ix, id) THEN ix.cache[id]
  ELSE IF new THEN NoBlock ELSE ReadBlock(ix, list, id)

\* A new block does not reach the list header.
Bug_ListHeaderNotUpdated(ix, list, lh) == ix.cache

\* UpdateListHeader: the list header lives in block 1.
UpdateListHeader(ix, list, lh) ==
  Put(ix.cache, 1, [Fetch(ix, list, 1, FALSE) EXCEPT !.lh = lh])

\* AppendChunk, second half: the list is the cached one.
AppendChunk(ix, list, lh, hdr, chunk, new) ==
  LET old   == Fetch(ix, list, hdr.ID, new)
      block == [lh |-> IF hdr.ID = 1 THEN lh ELSE 0, hdr |-> hdr, body |-> old.body \o chunk]
      i1    == [ix EXCEPT !.cache = Put(@, hdr.ID, block)]
      i2    == IF new /\ hdr.ID # 1
               THEN [i1 EXCEPT !.cache = UpdateListHeader(i1, list, lh)] ELSE i1
      reads == (~new /\ ~Cached(ix, hdr.ID)) \/ (new /\ hdr.ID # 1 /\ ~Cached(i1, 1))
  IN  IF reads THEN Sync(i2) ELSE i2

\* Merge, one delta record d into the live record l.  A header-only delta
\* record updates the list header alone.  stale: the headers were written
\* through pointers into the buffer lblock had before it was reallocated,
\* so the record keeps the headers it was read with (a new record: whatever
\* the buffer held, modelled as null headers).
MergedBlock(l, d, id, stale) ==
  [lh   |-> IF id = 1 /\ ~stale THEN d.lh ELSE l.lh,
   hdr  |-> IF d.hdr # NullHdr /\ ~stale THEN d.hdr ELSE l.hdr,
   body |-> l.body \o d.body]

\* The block records of one list.
BlocksOf(records, list) ==
  [id \in {k[2] : k \in {q \in DOMAIN records : q[1] = list}} |-> records[<<list, id>>]]

\* The postings a reader finds in a list (GetPListBlock over the blocks).
Postings(ix, list) == ListOf(BlocksOf(View(ix), list))
=============================================================================
