# Audioneex in TLA+

TLA+ modules, TLC configurations and TLAPS proofs about Audioneex, an audio
fingerprinting engine in C++.  The engine indexes recordings into postings lists
kept in a key-value store, and identifies audio by scanning those lists.  Paths
below are relative to the repository; `src/index/Indexer.cpp:443` is a line of a
source file.

1. [The system](#1-the-system)
2. [Modules](#2-modules)
3. [Runs](#3-runs)
4. [Proofs](#4-proofs)
5. [Disagreements between the code and what it says](#5-disagreements)
6. [What is not modelled](#6-what-is-not-modelled)
7. [Plan](#7-plan)

## 1. The system

| Component | State | Operations | Talks to |
|---|---|---|---|
| **Indexer** (`src/index/Indexer.cpp`) | session flag, current FID, cache of postings | `Start`, `Index` (audio or fingerprint), `Flush`, `End` | calls the store back (`OnIndexer...`), pulls audio from a provider |
| **TokyoCabinet store** (`src/dbdrivers/TCDataStore.cpp`) | main index, delta index, block cache of one list, run counter, fingerprints, metadata | open/close, the `OnIndexer...` callbacks, `Merge`, reading of blocks | Indexer, Matcher, the database library |
| **Block codec, postings iterator** (`src/index/BlockCodec.*`, `DataStore.h`) | decoded block, cursor | `Encode`, `Decode`, `next`, `get` | Indexer (writes), Matcher (reads) |
| **Couchbase store** (`src/dbdrivers/CBDataStore.cpp`) | as above, on a server, and the status of the last store operation | as above, with scheduled writes and `lcb_wait` | Indexer, Matcher, a server |
| **Matcher** (`src/ident/Matcher.cpp`) | query sequence, position, histogram, top-k, accumulated evidence | `Process`, `Flush`, `Reset` | reads the store through iterators |
| **Recognizer, fuzzy classifier** (`src/ident/Recognizer.cpp`) | identification time, accumulators, results | `Identify`, `Flush`, `GetResults`, `Reset` | Fingerprint, Matcher |
| **Fingerprint** (`src/ident/Fingerprint.cpp`) | carried samples, time offset, next number, spectrum, peaks | `Process`, `Reset` | Indexer, Recognizer |
| **Codebook, its training** (`src/quant`, `src/tools/BVQuantizer.cpp`) | clusters; points, labels and distances | `quantize`, `serialize`, `deserialize`; `addPoint`, `Kmedians` | Indexer, Recognizer; a file |
| **Ring buffer** (`src/audio/RingBuffer.h`) | two counters, a flag, blocks | `GetHead`, `Push`, `Pull` | capture and identification threads |
| **Audio capture** (`src/audio/AudioSource.cpp`) | pipe, stop flag, thread | `Open`, `StartCapture`, `StopCapture`, `Close` | a listener, called from its own thread |
| **Stream monitoring** (`examples/winux/example4.*`) | event loop, ring | `Run`, `DoIdentification`, `Terminate` | ring, capture, recognizer |
| **Example programs** (`examples/winux`), **tests** | next FID, read buffer, terminate flag | index files, index stored fingerprints again, identify files, clear | all of the above, one program after the other over one store |
| **Android services** (`examples/android/OTA`) | queue, session flags, message handlers | start, stop, messages | an audio thread and the UI |

### What is hard, and what correct means

*Indexing.*  The indexer never reads a block body: it decides where a chunk goes,
and against which FID it is coded, from two headers.  The list header (number of
blocks) lives in block 1; the block header (size, greatest FID) in the block to
append to.  A build-and-merge session keeps its blocks in a delta index which
holds *the continuation* of live blocks, so that headers are read from two
places depending on the run; at the end the delta is merged, record by record.
Writes are asynchronous, cached, and issued in the order of an unordered map;
the process can die between any two.  An exception leaves a session open with
its cache in place.  Correct means: the lists a reader gets increase strictly
(the matcher advances document by document and relies on it), contain only what
was indexed, keep what an ended session indexed, and their headers tell the
truth about their bodies.

*Streaming.*  Two threads share a ring with neither lock nor atomic; the consumer
keeps working on a block after `Pull` has returned it, and gives it back by the
*next* `Pull`.  The ring overflows and drops chunks.  A third thread terminates
the two others through a plain flag.  Correct means: the threads never touch the
same block, what the recogniser is given is a contiguous and ever later stretch
of the stream, a full ring drains, and termination terminates.

*A remote store.*  Couchbase answers later or not at all: stores are scheduled,
all of a batch share one status, and reads execute them.  There is no iterator,
so the keys to merge are remembered.  Correct means the same as above, and that
the remembered keys are the delta's.

*Coding.*  An occurrence reaches a reader through a packed key, a flat cache with
a repeated counter, chunks cut by integers, blocks cut by bytes, a variable-byte
code of three kinds of differences, and an iterator over blocks that grow.
Correct means: the reader gets what was indexed.

*Fingerprinting.*  Audio comes in blocks, of a minute or of seconds, each with
its own rest, peaks and neighbourhoods.  Correct means: blocks make no
difference, away from where they are cut, and numbers and times go on.

*Identification.*  The matcher scans lists document by document with one
histogram for all, keeps a table of ties, and adds up evidence over batches that
overlap.  Correct means: no list is left behind, a document has its own
evidence, once, and evidence only grows.  After each matching step a fuzzy
classifier turns the mean confidence of the best matches and the time into an
answer or "listening"; the classifier is also what ends an identification that
finds nothing.  A failed classification flushes the matcher, which may classify
again inside the first.  Correct means: an identification ends with results in
bounded time, an answer has the confidence and the time it claims, and it stands
until the reset.

*Programs over a store.*  Postings, fingerprints and metadata are written at
different times by programs that fail, are terminated or killed, and number
recordings anew.  Correct means: a FID names one recording in all three.

The hazards, each at its line and with the properties that watch it, are in
`PROJECT.json`.

## 2. Modules

| Module | Models | Uses |
|---|---|---|
| `PostingsList` | blocks, headers, delta coding of FIDs, the iterator's view of a list | |
| `TCIndex` | one index collection: database, pending writes, block cache, merge of a record | `PostingsList` |
| `IndexingSession` | `IndexerImpl` over `TCDataStore`: sessions, flushes, merges, crashes | `TCIndex`, `LiveIndex` |
| `LiveIndex` | abstract: what indexing promises a reader | |
| `MCIndexingSession` | the symmetry of the small instances | `IndexingSession` |
| `CBIndex` | one Couchbase bucket: server, scheduled stores, block cache, key cache | `PostingsList` |
| `CBSession` | `IndexerImpl` over `CBDataStore`, a server that fails requests, crashes | `CBIndex` |
| `Terms` | the terms of fingerprints and of pairs of them | |
| `TermCodes` | how a term is packed into the integer that keys its list | `Terms` |
| `PostingCodec` | a cached list, variable-byte code, encoder and decoder of blocks | |
| `OccurrenceIndex` | from recordings to what a reader finds: cache, chunks, blocks, iterator | `PostingCodec`, `TermCodes` |
| `Matcher` | `Matcher` over whole lists | `Terms` |
| `MatchFuzzyClassifier` | the fuzzy classifier, a pure function | |
| `ClassifierScan` | the classifier while a match is listened to | `MatchFuzzyClassifier` |
| `Recognizer` | `RecognizerImpl` over a matcher that may find anything | `MatchFuzzyClassifier` |
| `AudioBlocks` | `AudioBlock`: buffers of samples of limited capacity | |
| `Fingerprint` | `Fingerprint::Process` over successive blocks | `AudioBlocks` |
| `AudioStreams` | the indexer's chunks and the recognizer's snippets | `Fingerprint` |
| `Codebook` | quantization, the codebook's file | |
| `BVQuantizer` | training of a codebook, its saving and loading | `Codebook` |
| `Collections` | the fingerprint and metadata collections of both stores | |
| `Library` | the example programs and a test, one after the other over one store | `Collections` |
| `RingBuffer` | `GetHead`, `Push`, `Pull` | |
| `StreamMonitor` | capture, task and main threads over the ring | `RingBuffer` |
| `MC...` | the instances: symmetries, recordings, spectra | |
| `StreamMonitorProofs`, `TermCodesProofs` | theorems about the module of the name | |
| `RecognizerProofs` | theorems about `ClassifierScan` and `Recognizer` | `Recursion` |
| `Recursion` | lemmas: functions defined by recursion over the naturals | |
| `PostingsListProofs` | lemmas: coding, decoding and reading of a list, records and what they hold | `Recursion` |
| `IndexingSessionProofs` | theorems about `IndexingSession`: types, the live index, what is genuine, what is kept, lists increase | `PostingsListProofs` |
| `CBSessionProofs` | theorems about `CBSession` | `PostingsListProofs` |
| `AudioStreamsProofs` | theorems about `AudioStreams` | `Recursion` |

The modules meet at their interfaces.  What one leaves open another decides:
`IndexingSession` and `CBSession` know postings as FIDs, and `OccurrenceIndex` says
what a posting is; `Recognizer` lets the matcher find anything that keeps
`Matched`, which `Matcher` keeps (`BestOnlyGrows`); `OccurrenceIndex` and `Matcher`
share `Terms`, as the code of both is to be the same; `Library` takes the index as
one list that obeys the rule of FIDs, which the sessions' modules check.

### PostingsList and TCIndex

A posting is its FID; the occurrences it carries decide nothing here, and its
size is one unit.  `FidMod` is 2^32.  A record of the store is
`[lh, hdr, body]`: the list header (meaningful in block 1), the block header and
the coded body; a missing record reads as `NoBlock`, as the code's zeroed headers
do.  `Encode` and `Decode` do the unsigned arithmetic, so that a FID coded
against a greater one decodes to what the code would decode.

An index is a record `[disk, pool, clist, cache]`.  TokyoCabinet is external; it
is modelled from how it is called: `tchdbputasync` adds to a pool the process
reads through, `tchdbget` and the iterator write the pool out first, and a crash
keeps a prefix of the pool (`Survivor`).  `tchdbput` of fingerprints is
synchronous towards a process crash.  A crash is the death of the process: files
keep what was written to them.

### IndexingSession

Actions are the client's calls, cut where the code touches the database:

| Action | Code |
|---|---|
| `OpenStore`, `CloseStore` | `TCDataStore::Open`, `Close` |
| `Start` | `IndexerImpl::Start` + `OnIndexerStart`; in GET mode the store refuses after the session was marked open |
| `Index(f, ts, emit)` | both `Index`; `ts` the lists the recording has postings in, `emit` the audio form, which stores the fingerprint; starts a flush when the cache is full |
| `IndexAudioError` | the provider fails: `m_Cache.Reset()` |
| `Flush`, `End(flush)` | up to the loop of `DoFlush` |
| `BeginList`, `RejectChunk`, `MoveCache`, `EmitChunk` | the loop of `DoFlush`: headers of a list, the FID check, the block cache moving to another list, one chunk |
| `EndFlush`, `EndSession` | `OnIndexerFlushEnd`, `OnIndexerEnd` |
| `MergeRecord`, `EndMerge` | `TCIndex::Merge`, one record of the delta; removal of the delta |
| `Crash` | at any point |

`DoFlush` goes through the lists in the order of its map; the model takes any
order.  The run counter stops at 2, as the code only compares it with 1.  Four
history variables record the postings accepted, those of the session, those of
ended sessions and those of closed stores; no guard reads them.

Assumed of clients: one indexer per store; the store is not closed, and its mode
not changed, inside a session; with `CarefulFIDs`, new recordings are
numbered above the FIDs of the index, as the check in `DoFlush` demands; a
fingerprint given to `Index(FID, data, size)` is the one stored under that FID;
the fingerprint database is open.  Mixing the two `Index` calls in one session
is advised against in `audioneex.h`; the model allows it, as the code does.
Assertions are off, as in a release build: where one could fail, the model goes
on as the code does.

### CBIndex and CBSession

The same sessions over a server.  libcouchbase is external, and modelled from
how it is called: `lcb_store` schedules, the next `lcb_wait` on the handle executes
what was scheduled, any part of which may fail; the one status is that of
whichever store answered last (`Statuses`), so `Wait` is the *set* of indexes it may
leave.  A read waits, and so executes earlier stores.  `keys` is `m_KeyCache`.  So
does a drop: `Drop` executes what is scheduled, empties the bucket and keeps the
status of the last answer.

Beside the actions of `IndexingSession` there are `ExecuteBatch` (the block cache
moves on when its batch is due: a wait that may find a failure), `ClearStore`,
`ReadList` (the client reads the index through the store), `Abandon` (a client that
does not go on after an exception drops the store) and `Crash`, in which
scheduled stores are lost.  `mbuf` is the size of the merge's buffer, which begins
with `MergeBuffer` and grows to what a record needs; a growth may move it
(`BufferMoves`), which is undefined behaviour (section 5): the model then stores the
record with the headers it had.  Troubles (requests that fail, stores that are lost,
deaths, buffers that move) are counted (`MaxTroubles`).  `RetriesFlush` and `ReadsLast`
say what the client does; section 5 says what happens otherwise.

### Terms, TermCodes, PostingCodec and OccurrenceIndex

A fingerprint is `[T, F, W, E]`: time, frequency, word, distance.  Quotients of
floats are exact, but for the pairs of times in `RoundedDown`, whose difference
of quotients falls below an integer: `Vpt` there is one less.  A term is the
tuple of its parts; `TermCodes` has the integer the code packs them into, and
`TermCodesProofs` proves that it loses nothing.

`PostingCodec` has the cache layout (FID, count, occurrences, and the count again at
the end), and the variable-byte code with radix `Radix` for 128: a byte below it
goes on, others end a value.  `EncodeChunk` and `DecodeBlock` code the fields of a
posting as the code does: FIDs by difference, then all LIDs, times and errors of
a posting each in a row.

`OccurrenceIndex` puts them together: `Index` (`UpdateAll`: `IndexSTerms`,
`IndexBTerms`), `Flush` (`DoFlush`: `Chunks`, `AppendChunk`), `StartReading` and
`ReadNext` (`PListIterator`, between whose steps flushes may come).  The store here
keeps what it is given; stores that do not are the business of the sessions.

### Matcher

One action is a call or one round of the document loop: `Process` and `NextBatch`
(batches of `Nk`), `ScoreDocument` (`FindCandidatesSWords` or `...BWords` for one
`FIDcurr`: all terms whose iterator is at that document score it, then the
histogram is a candidate or not), `Accumulate` (`DoMatch` after the scan: reranking by
`GraphMatching`, evidence, ranking), `Flush`, `Reset`, `SetMaxRecordingDuration`, and
`ScanThrows`, `RerankThrows` for a store that throws, at any term of the round.
Weights are integers: a perfect match counts `Smax`, thirds and halves are scaled.  A
histogram touched beyond its size sets `out`, as what happens then is undefined: that of
the scan (`Grown`), or that of the reranking (`RerankFits`).

### StreamMonitor

`cpc`, `tpc` and `mpc` say where the capture, task and main threads are.  Each
access to the ring is a step.  The counters are plain integers of two threads:
the capture thread may read an old `mConsumed`, so `seen` is the last value it
read, and a read returns anything from there to the present.  `mProduced` is read
by the task thread after an event was posted by the capture thread: the event
loop's own lock orders them.  Audio chunks are numbered; a block is a sequence of
chunk numbers, long enough at `BlockChunks` at the latest, sooner if its chunks
are long.  `MaxChunks` are followed through the ring; the pipe does not end there: the
capture thread goes on reading (`ReadBeyond`, `NextTurn`) until it sees the flag
(`LeaveCapture`) or the pipe ends (`PipeEnds`), which it need not.

The stop flag is a plain bool too; the model lets its reads see the last write.
`StopCapture` comes at any time, also before the source is open; `OpenSource` then clears
the flag it has set.

### MatchFuzzyClassifier and Recognizer

Doubles become exact rationals: a confidence counts 1/25200ths (`One`), a time
tenths of a second, a membership degree 1/`Scale`ths, a multiple of every
slope's length.  `Truest` is the set of rules with the greatest degree, and
`Classify` the first class among them, which is what `std::max_element` picks.
Where the code compares doubles that differ by rounding only, the model sees
them equal.

The state of `Recognizer` is its members: type, mode, time, results of the matcher
(`results`: tied best matches, their confidence `top1 / (top1 + top2)`, a score near
the 32-bit limit), accumulators, results given to the client, and `lfs`, the
fingerprints the matcher has received but not matched.  A mean is rounded down.

| Action | Code |
|---|---|
| `Identify(n)` | `Identify` with audio that yields n fingerprints: matching steps when `Nk` are there, then `ProcessMatchResults` |
| `Flush` | `Flush`: matches two or more fingerprints left over |
| `Reset` | `Reset` |
| `Configure` | `SetIdentificationType`, `SetIdentificationMode`, between identifications |

`ProcessMatchResults`, `DoClassification` and `FillResults` are operators of the same
names from state to state.  What the matcher makes of a flush inside a
classification is their argument `fl`; `FlushTo` is that flush, and `ProcessFlushed`
the processing of its results, where another flush does nothing: the matcher has
no fingerprints left.  A matching step may
keep the results or replace them by any best matches: once there is a best match
there always is one, as accumulators are never removed.

### AudioBlocks, Fingerprint and AudioStreams

The spectrum is a table from windows of samples to bins with energy (`Energy`),
large enough to tell apart the windows of the instance; peaks, points of
interest, the neighbourhood a descriptor is made of, the numbering and the
carried rest are the code's.  A descriptor is the frames it is made from, which
says more than the bits computed from them.  `OSCapacity` is the size of the
overlap buffer and grows as in `Process`; a block that does not fit would be cut by
`AudioBlock::Append`, and is in the wrong form that the run refutes.

The points of interest are found as `ComputeDescriptors` does, by a scan of the
spectrum: frames in turn (`Row`) and the bins of each (`Column`), numbered through.  Of the
parameters it is assumed that the neighbourhood of a point reaches its own frame
(`ReachAssumption`), that half a second has a frame with a whole neighbourhood, and that
a chunk is at least half a second and fits the buffer with a block behind it.  Those of
`Parameters.h` and `Indexer.cpp:127-137` are so.

`AudioStreams` has both callers: `OnAudioData(n)` is one turn of `Indexer::Index` (the
provider gives n samples, a chunk is fingerprinted when it is complete, the
length is limited), `AudioFails`, and `Identify(n)`, `Reset` of the recognizer.

### Codebook and BVQuantizer

Vectors of `IDI` bits in blocks of `BlockBits`; a file is a sequence of numbers and
blocks.  `addPoint`, `FirstSeed`, `NextSeed` (`KmeansPP`), `Cluster` (one round of
`Kmedians`, which assigns points in parallel, each to its own fields), `Save(n)`,
which may be cut after n elements, and `Load`.  `SeedPastPoints` is the draw one past
the last point, which the random generator's inclusive bound allows; `NextSeed` may also
draw nothing, as rounded weights may add up to less than the number drawn.

### Collections and Library

`Collections` has what both drivers do with fingerprints and metadata, failures
included: TokyoCabinet reads an error as a missing record, Couchbase throws for
fingerprints and ignores it for metadata; one that is not open counts as empty.  `Library` runs `Example1` (index files
found in a directory), `Example2` (index stored fingerprints again), `Example3`
(identify files), `Example4` (identify what is heard) and `StartOver` (the indexing
test's clearing) over one store.  `Step` is the running program's next one;
`Abort` kills it, `Terminate` is the user's, `BucketEmptied` the server's.  The user
may `RemoveIndex` before example2.  An index is a sequence of postings `[FID, of]`,
which a flush extends or, if the last FID cached is not above the last of the
index, refuses.
Metadata is written only by programs built with it (`WithID3`).  `dirty` remembers a
clearing that began and was not seen to end: the test waits for it, and until then
nothing is claimed.  `stale` remembers the FIDs whose metadata the clearing left: the
test opens the store without metadata (`test_indexing.cpp:68`, `TCDataStore.h:243`), so
that it neither drops it nor waits for it.

## 3. Runs

| Run | Instance | Shows |
|---|---|---|
| `sessions` | 2 lists, FIDs to 3, every mode, 2 sessions, careless clients, a posting per chunk | headers tell the truth; the check of FIDs keeps lists increasing; deltas continue live blocks; the live index is left alone until the merge |
| `implements` | 1 list, FIDs to 4, chunks of 2, blocks of 3, build and build-and-merge | sessions implement `LiveIndex` |
| `crash` | 1 list, build, chunks and blocks of 2, FIDs to 6, a crash anywhere | nothing is read that nobody indexed, and everything in the index has a fingerprint; what an ended session stored is read unless a crash left a gap in its list, and no later step takes it back |
| `ring` | ring of 3 blocks of 1 or 2 chunks, 9 chunks through the ring and a pipe that goes on, `Terminate` at any time | no shared block, order, accounting, draining; the flag ends the capture and `Terminate` returns, unless opening the source clears the flag it set |
| `scan` | 101 confidences, each tenth of a second to 21 s, both modes | the classifier settles at the time limit; more confidence gives no worse answer |
| `identify` | 2 recordings, both types and modes, overflows, no ties | fuzzy identifications end in time, all do once there are results after the limit; answers have the confidence and listening time they claim, and stand |
| `bucket` | 2 lists, FIDs to 4, build and build-and-merge, 2 sessions, one death, failed request or moved buffer | the remembered keys are the delta's; headers are exact, lists increase, nothing that ended is lost while the server is well, nothing that was not indexed appears even when it is not |
| `codec` | 4 recordings of 1 to 5 fingerprints, both match types, 3 indexed, gaps of 1 and 10, bytes of 2 values, a reader at any time | terms are apart; a posting has an occurrence once; what is coded decodes; a reader in between flushes sees it in order |
| `match` | 5 recordings, 4 queries of 3 to 5, batches of 3, the two best scores with a tie limit, both match types, one throwing read | lists are read to the end; evidence is a document's own and counted once; it only grows |
| `audio` | 3 recordings of 13 to 34 samples, windows of 3, blocks of 1 to 14 | no sample lost or heard twice between blocks; numbers and times go on; what is found away from cuts does not depend on them |
| `codebook` | 6 points of 4 vectors of 5 bits, 3 clusters, files whole, cut after a record or inside one | seeds differ, errors never grow, statistics are of the last round; a file cut inside a record is refused, a loaded codebook is a prefix and quantizes as trained |
| `library` | 4 runs of any programs over either driver, 3 files, one without fingerprints, one death or error | FIDs name one recording in index, fingerprints and metadata, but for names that a clearing left; such a name is told only after a death or an error; no gaps, no refusals; runs end |

*Bounds.*  `ChunkLimit` and `BlockLimit` are in postings.  With chunks of one and
blocks of two, three FIDs in a list fill a block and start another, so that a
flush can append to a block, fill it, start a new one, and update the list header
in block 1 from outside it; in `crash`, with chunks of two, a flush of five writes
three blocks in any order, of which a crash keeps any, and a later session
appends behind the gap; two sessions let a second one begin on any of these,
over a merged delta; two lists make the block cache move, and lists flush in
either order with any of them refused.  `implements` uses chunks of two, so that
a chunk crosses the block limit, and four FIDs.  The runs without crashes and
those of build alone keep `MergeBuffer` at 100, out of reach of the merge's
reallocation (section 5); `bucket` has it at one, so that every merge into a block makes
the buffer grow, in place or by moving.  In `ring`, nine chunks go round a
ring of three blocks and overflow it; a read after that is not followed.  Lists are interchangeable (`Lists`, the
symmetry): nothing but equality is asked of them.

In the recognizer's runs a call brings 2.5 s of audio, the most `Identify` accepts,
and none or enough fingerprints for a matching step, one left over or two; eight
calls reach the limit of 20 s (`TimeBound`), and feeding goes on after an answer
for some calls (`LateBound`) only to see that it changes nothing.  Two
confidences, one that counts as low and one as high, make means of every level
in both modes.

`bucket` has the bounds of `sessions`, a FID more and chunks of two, so that a batch (two
postings) becomes due inside a list, between lists and not at all, and a block ends
above its limit.  In `codec` a chunk closes
at eight integers, inside a posting list of two recordings, and a block at 20
bytes, after one or two chunks; a radix of 2 makes every value above 1 take
several bytes, and gaps of 1 and 10 give lengths that differ; the recordings have
pairs that form one term twice, one too far, one of another band, with a
falling frequency.  In `match` three LFs a batch make queries of 3 to 5 LFs end at,
before and after a batch; the top-k holds two scores of one or two documents, so
that five documents overflow both; histograms of 11 and 30 bins are too small and
large enough for the long recording.  In `audio` a block of 14 is a chunk, 12 a
snippet which with the carried rest exceeds the fingerprinter's buffer; the
shortest recording is silent, the longest has two chunks and a last piece too
short or not.  In `codebook` six points over four vectors must repeat some, and ties
happen in training and quantizing; a record has six elements, and the file is written
as far as 6, 12 (the end of a record), 8 (inside one) or 18 (whole).  In `library` four runs
are one that indexes, one that clears the store, one that indexes other files and is
killed between its flush and its metadata, and one that identifies them.

*Fairness.*  `StreamMonitor` and `Library` have liveness.  In `Library` a program that can
go on does (`WF_vars(Step)`; it is one thread that waits for nothing but the
store), and a bucket that is being emptied is empty some day
(`WF_vars(BucketEmptied(c))`: the server's flush is asynchronous but finishes);
`Abort` and `Terminate` have none, and example4 need not end, for the user may never
stop it.  In `StreamMonitor`, weak fairness of `Capture` and
`Task`: a thread that can run does, and a blocked read of the pipe returns, since the
recorder at its other end writes.  `PipeEnds` has none and is no part of `Capture`: the
recorder need never stop, so that only the flag ends the capture.  Weak fairness of
`JoinCapture` and `JoinTask`: a join returns when the thread has ended.
`StopCapture`, the user's keypress, has none.  `FullRingDrains` needs a ring of
two or more (the program uses ten): in a ring of one block, the consumed block
is given back by a `Pull` that waits for the next `Push`, which waits for the
block.

*Mutants.*  `Bug_` operators stand before the definition they are a wrong form
of, at least one per property and, where a property is the conjunction of named
parts (`AnswersSound`, `EvidenceRight`, `CollectionsAgree`, ...), one per part; with
it the property fails.

## 4. Proofs

The runs check small instances; the following holds for every value of the
constants.  The assumptions are the named `ASSUME`s of the modules
(`SizeAssumption`, `MonitorAssumption`; `FidModAssumption`, `TermAssumption`,
`SessionAssumption`; `ScanAssumption`, `RecognizerAssumption`; `TermsAssumption`,
`TermCodesAssumption`), which TLC evaluates in the runs; a theorem that needs more
says so in its `ASSUME`, and below.

**`StreamMonitorProofs`**: any ring size, any block length, any staleness of the
consumer's counter.

| Theorem | States |
|---|---|
| `TypeCorrect` | `Spec => []TypeOK` |
| `EventsFindBlocks` | `Spec => []BacklogMatchesEvents`: as many events as blocks, never more blocks than the ring has |
| `NoRace` | `Spec => []NoSharedBlock`: the two threads never work on one block |
| `HeardOrder` | `Spec => []HeardInOrder`: a block given to the recogniser is one contiguous stretch of what was captured, later than all before it |

None is inductive alone.  `RingInv` strengthens them: the value of `mConsumed` the
producer has seen is never ahead of the real one and never a whole ring behind
what it produced (`produced <= seen + Size`), strictly so while it fills a block,
and the consumer has a block in hand only while it identifies.  That is why
`IsFull` may compare the difference of the counters with `==` although it reads
one of them unsynchronised: an old view (`StaleView`) errs on the side of
"full", and two counters less than a ring apart are at different slots
(`SlotsDiffer`).

`HeardOrder` needs `OrderInv` on top.  Number the blocks by the counters: block n
is in slot `n % Size`, and those of `InUse` (a ring's length from `consumed` on) are all
different.  `BlocksInOrder`: each is a stretch, those behind the head are empty, and
of two the later one begins after the earlier one ends.  `HeardIsEarlier`: what was
heard is before all of them, but for the block in hand.  `HeadGoesOn`: the block
being filled ends where the capture is.  That a full ring drops chunks leaves a
gap *between* blocks, never in one, because a block's first chunk is appended
only after `IsFull` said no, and the head does not move until it is pushed.

**`IndexingSessionProofs`**, its first part: any lists, FIDs, thresholds, buffer sizes, numbers of
sessions and crashes.

| Theorem | States |
|---|---|
| `TypeCorrect` | `Spec => []TypeOK`: in particular every record in a file, in the pool of pending writes or in the block cache is a block of a list, after any crash and any merge |
| `LiveUntouched` | `Spec => LiveUntouchedBeforeMerge`: until its merge begins, a build-and-merge session changes no record a reader of the live index can see |
| `GenuineIndex` | `Spec => []IndexGenuine`, if no session merges: a reader meets no posting that its recording does not have, and every recording it meets has its fingerprint |

`TypeInv` strengthens `TypeOK` by what makes `Last(Chunk)` exist: a list being
flushed has postings left (`JobHasPostings`), and a list still to flush has some in
the cache (`TodoIsCached`).  The rest is one lemma per operation of an index
(`SyncType`, `SurvivorType`, `AppendType`, ...): each maps indexes to indexes.  They
rest on `OverlayType`, that pending writes over stored records are records,
which needs that a bounded nonempty set of positions has its maximum
(`MaxInSet`, from the well-foundedness of `<`).  `LiveUntouched` uses that writing
the pool through and dropping the cache change nothing a reader sees
(`SyncView`, `ClearView`), and that every other step outside a merge leaves `main`
alone; its type invariant is what makes the two lemmas apply.

`GenuineIndex` is about code that decodes what it never reads.  A chunk is coded
against the FID in a header, and appended to a body of which the indexer knows
nothing else; that the postings read are those indexed needs that this FID *is* the
last one of the body, in every record, wherever it is: in a file, pending, or in
the block cache.  `GenuineInv` says so (`GoodIndex`: every such record is a
`GoodRecord`, its `FIDmax` the last of what `Decode` makes of its body and its postings
`Genuine`), and that the header the flush works with is that of the block the
next chunk goes to (`JobTrue`), with no later block in the cache.  Since records are
good one by one, whatever a crash keeps of them is.  The arithmetic is in
`PostingsListProofs`: a body decoded is the running sum modulo `FidMod`
(`DecodeSums`), so that a chunk coded against the last FID of a body decodes behind
it to itself (`DecodeAppend`), and what a reader gets from the blocks of a list is
their postings, in turn (`ListReads`, `ListElements`).  Both together are `ListGrows`: a
chunk that is put behind the last block, coded against its last FID, or in a block
of its own, coded against zero, makes the reader's list the old one followed by the
chunk, whatever the sizes of the blocks before.

The hypothesis `"BUILD_MERGE" \notin Ops` is needed: a crash inside a merge leaves the
delta, and the next one merges it again into records that have it; what is then
decoded was indexed by nobody (section 5).  The theorem is for stores opened for
building and reading, with crashes at any point.

**`IndexingSessionProofs`**, its second part: the same generality, and the same hypothesis.

| Theorem | States |
|---|---|
| `KeptAcknowledged` | `Spec => AckedKept`: when `End` has returned, what the session indexed is found in every list whose blocks are all there, and stays; a crash takes back only what was acknowledged after the store was last closed |

The plain claim, that an acknowledged posting is found, is false: a crash may
keep block 1 with a count of three and block 3 without block 2, and the indexer,
which reads only headers 1 and 3, goes on behind the gap, where no reader comes.
So a posting of an ended session is `Stored`: `Here`, in a block that counts and that
a reader comes to, or `Lost`, behind a gap of its list.  Both last, because an
operation on an index `Continues` it: it takes nothing that is `Here` or `Lost` to
anything else, neither in what the process reads (`View`) nor in any of what a
crash now would leave (`Remains`, one set of records for each prefix of the
pending writes).  The heart is `AppendExtends`: a chunk changes the last block that
counts by extending it, or adds the one behind it; so whatever part of the cache
is on the disk over the old records, the old postings are where they were
(`OverKeeps`).  `KeptInv` adds where a posting is before it is `Stored`: in the indexer's
cache, in a list to do, in what is left of the current one, or in the block cache
(`SessionStored`, `FlushStored`, `Written`), and that after `CloseStore` every crash would
keep it (`Safe`).

Its third part: any lists, limits, sessions and failing calls, but no crashes and no
merges, and clients or chunks as below.

| Theorem | States |
|---|---|
| `SoundLists` | `Spec => []ListsSound`, if `CarefulFIDs` or `ChunkLimit = 1`: every header a reader or the indexer goes by tells the size and the last FID of its block, the count is that of the blocks, and the list a reader gets increases strictly |

The records of a list are `Tidy` if exactly the blocks that count are there, each has
the size its header says and rises, and each is below those after it.  `TidyInv` says
so twice, of what the process reads and of what the files would be if the pending
writes and the block cache were written (`TidyLists`): a flush works with the second,
a later session with the first.  Behind a tidy list a chunk leaves a tidy list
(`ExtendedTidy`, over `AppendExtended`, the other half of `AppendExtends`) if it rises and is above all that is written.  It rises because the
client's numbers do (`CacheRises`) and a flush cuts a list from the front
(`RisingPieces`, `ChunkRises`).  It is above all that is written for one of two
reasons, and that is what the hypothesis is about:

- A careful client numbers above what is in the index.  Then what is cached was above
  what is read when it was indexed (`ClientAhead`), and stays so until it is flushed
  (`CacheAhead`, `JobRises`): a flush only ever writes another list or an earlier part
  of the same one.
- Otherwise there is `ValidChunk` alone, which compares the *last* FID of a chunk with
  the last one of the list (`LastBefore`).  With chunks of one posting this is enough
  (`ChunkAhead`); a longer chunk may begin below the end of the list, and its deltas
  are taken modulo 2^32.

A crash breaks tidiness, since it may keep the new count of a list without the block
that it counts (`KeptAcknowledged` says what remains true).  `GetWaits` is there
because an indexer takes postings for a store opened for reading as well; their
flush fails at the first list, so that all of them are still to do and none of the
promises about a list in work is due.

**`CBSessionProofs`**: any lists, FIDs, sessions, limits of chunks, blocks, batches, cache
and merge buffer, and whatever requests the server fails.

| Theorem | States |
|---|---|
| `TypeCorrect` | `Spec => []TypeOK`: what is on the server, scheduled or cached is a record of a list, whatever was lost |
| `KeysCovered` | `Spec /\ [][Abandon => troubles # 0]_vars => []KeysCoverDelta`: while nothing has failed, the keys remembered in a session are the records of the delta, each once |
| `BucketKeys` | `Spec => []KeysCoverDelta`, if `ReadsLast`: the same of any client that reads before it closes the store |
| `BucketLists` | `Spec => []ListsSound`, if `ReadsLast`: in both modes and for a merge buffer of any size, until the first trouble, headers are true and the lists of the live index increase |
| `BucketAcked` | `Spec => []AckedSafe`, if `ReadsLast`: what a session indexed is in the live index once `End` has returned, and at most one of its stores is unsent |
| `BuildSurvives` | `Spec => [](op = "BUILD" => ...)`, if `~RetriesFlush`: in a build, whatever requests fail and whenever the process dies, no list holds what was not indexed and no chunk of a client that numbers upwards is refused |
| `BucketNoPhantoms` | `Spec => []NoPhantomPosting`, if `ReadsLast` and `~RetriesFlush`: the same of the lists, and of a build-and-merge until the first trouble |
| `BucketAllowed` | `Spec => []NeverRefused`, with the same: and of the chunks |

A trouble is a request that fails or is lost, the death of the process, or a merge's
buffer that moves when it grows.

A bucket cannot be enumerated, so `Merge` is as complete as the list of remembered keys,
and appends a block twice if its key is there twice.  A key is remembered by the
way: when the block fetched to append to is `NoBlock`.  So the list is right as long
as what `Fetch` returns for a block is what is `Written` at its key, that is, what the
bucket will be once the cached blocks are scheduled and everything scheduled is
executed, last store last (`CachedView`, `WaitView`, `MovedView`).  `MergeInv` is what keeps
it so: records of `main` and of the written delta carry the ID of their key and are
not empty (`TrueIndex`, `DeltaRecords`); the cache is of the list in work and empty
between flushes (`CacheClean`); the delta is empty when a session starts
(`DeltaStarts`), for the last merge emptied it; and the header and list count a flush
works with are those of what is written (`JobCounts`), so that a chunk is *new*
exactly when there is no block for it.  `AppendCaches` carries this over a chunk,
with the two records that a new block touches, its own and the first of the list.

The hypothesis of `KeysCovered` is about the client: one that drops the indexer
(`Abandon`) leaves a delta of which nothing is remembered.  `BucketKeys` shows when the
hypothesis is true: while there is no trouble no call fails (`NoFailure` below), so that
there is nothing to drop the indexer for.  For `RetriesFlush` it is true of every
behaviour.

The other theorems are about the lists themselves, and in the build-and-merge mode a
list is in two places: in the live index, and behind it in the delta.  So their
invariant, `Clean`, is about `Whole`, the records as they will be once all that is
cached or in the delta is merged (`Plus`).  A flush extends `Whole` by a chunk and
nothing else does; a batch, a read, the end of a session and each record of a
merge leave it as it is (`PlusMoved`: a record merged now is one that need not be
merged any more), and when the merge is over it is the live index.  The parts of
`Clean`:

- `ListsTrue`: the lists of `Whole` are true (`TrueLists`: exactly the blocks that
  count are there, each has the size, the last FID and the number its header
  says, each rises and is below those after it), of accepted postings; and so are those
  a reader sees, outside a merge.  Within one the reader sees some records that are merged and
  others that are not: each is the beginning of what it will be (`Under`), so that
  lists increase (`UnderRead`), though counts and headers need not agree.
- `JobTrue`, `Ahead`: the header a flush works with is that of the last block of the
  list in `Whole`, and all that waits to be flushed is above it.  So no chunk is
  refused (`JobAllowed`), and a chunk extends its list (`ChunkPlaced`, `EmitExtends`).
- `SessionSafe`, `AckedRead`: what the session indexed waits or is in `Whole`; what
  was acknowledged is seen by the reader too.
- `NoFailure`, `Phases`, `LiveCache`, `Unsent`: what goes with the phases; which of the
  two indexes has blocks cached, and what is scheduled and not waited for.

It needs the keys (`MergeInv`): the merge is of every record of the delta because
they are remembered, each once.  It holds until the first trouble (`CleanInv`), and no
call fails before it.  The hypothesis is a defect of section 5: with
`ReadsLast = FALSE` the last store of a merge is lost without a trouble.  The merge's buffer
may be of any size and grow as often as it must: a merge in which it stays where it is
stores the record with the delta's headers (`MergeClean`), and one in which it moves is a
trouble, which ends what the theorems promise of a build-and-merge.

`BuildSurvives` cannot use `Clean`: of a batch the server executes any part, so the count
of a list may arrive without the block it counts, or a block without those before it,
and the lists are neither tidy nor, as a reader finds them, complete.  Its
invariant, `BuildInv`, is of what survives that.  A record that is ever read was stored
as it is, so what holds of each record for itself is never lost (`StoredGood`,
`WaitGood`): a `GoodRecord` has a header that tells the ID of its key and the last FID
of its body, postings that were indexed, and none above or equal to one that still
waits for its list (`Pending`).  The last part is what keeps a chunk from
being refused, whatever older header the server comes back with: it is of postings below.
The rest is about the lists in the middle of a flush.  The body that a chunk is
appended to must be the one whose header was read when the list was begun, though a
batch in between may lose stores; so nothing scheduled is of a list to do or under way
(`Sending`, `JobGood`; `Free`), and of such lists a wait changes nothing.  A session
that failed is given up (`Abandon`, or a crash) before the index is used again,
which is `~RetriesFlush`; a client that goes on appends chunks twice
(section 5), so that the hypothesis cannot be spared.

**`AudioStreamsProofs`**: recordings of any length, in pieces of any size; any
windows, hops, spectrum, bins and neighbourhoods.

| Theorem | States |
|---|---|
| `AudioAllKept` | `Spec => []AudioKept`: the frames of successive calls of `Process` are those of the audio in one piece, and an indexed recording is heard but for less than half a second at its end |
| `StreamInSequence` | `Spec => []LFsInSequence`: LFs are numbered without a gap, ordered, and at the time of their peak in the whole audio |
| `StreamAgrees` | `Spec => []InteriorAgree`: away from the ends of the blocks, the points and descriptors are those of the audio in one piece |

The first rests on one lemma about windows.  If `h` was heard and its incomplete
window is carried over to the audio `a`, the spectrum of the whole is that of `h`
followed by that of the rest of `h` with `a` (`Seam`), and what is left over is the same: the
windows end where the next begin, a hop apart (`FramesUnique`).  `AudioInv` says that the
fingerprinter is one that has heard what was fingerprinted (`HeardInv`), that this and
the indexer's buffer are the audio delivered (`Sound`), and of an indexed recording the
claim itself (`Whole`), since it is false between the last block and the end.  That
nothing overflows takes the overlap buffer's growth (`BufferHolds`) and that a block
fits behind what is no chunk yet (`BlockFits`).

For the second, the LFs of a block are the points of its spectrum in order
(`LFsFound`).  The scan is a recursive function, which after n points has the numbers of
the points of interest among them, each once and increasing (`Scanned`); the proof
goes by `Recursion`.  `StreamInv` places each LF in the spectrum of all the audio
heard, and with `Seam` the next block goes on behind (`NextInOrder`).

For the third, a point of interest and its descriptor depend on the frames within
`Margin` only (`Margins`, `PeaksAlike`, `PointsAlike`).  A frame that far from both ends of
every block is as far from the seam, so that what is around it in the whole spectrum is
what is around it in its block, `Len(X)` frames earlier (`AwayFromSeam`).  `AgreeInv` says
for the blocks so far that the stream and the whole audio have the same points there,
in both directions; the fingerprinter that hears the audio in one piece satisfies it as
well, and streams that do have the same points (`SamePoints`).  What the filter adds up
around a bin (`EnergySum`) does not matter here, only that it is a function of the nine
energies.

**`RecognizerProofs`**, its first part, about `ClassifierScan`: every confidence and
duration, and so grids of any step.

| Theorem | States |
|---|---|
| `Settled` | `ScanSpec => []SettledInTime`: from 20 s on the classifier answers, whatever the confidence, in both modes |
| `MoreIsNoWorse` | `ScanSpec => []ConfidenceHelps`: of two answers after equally long, the one for more confidence is no worse |

The degrees of membership are piecewise linear (`FallingSlope`, `RisingSlope`) and the
class is that of the strongest rule, the first of those that are equal
(`TruestRules`, `ClassOfTruest`).  A class is got rid of by a rule that beats all of its
own (`Beaten`); `IdentifiedClass` and `SettledClass` say in terms of corners and degrees when
an answer is given, and `MoreConfidence` that the degrees of "high" grow with the
confidence while those of "low" shrink.

Its second part, about `Recognizer`: any index and whatever the matcher finds in it, any number of
ties, audio in pieces of any length, flushes at any time.

| Theorem | States |
|---|---|
| `RecognizerTypes` | `Spec => []TypeOK`: means are confidences, or the 0/0 of a match without evidence |
| `AnswersInTime` | `Spec => []AnswerInTime`: a fuzzy identification has ended when its time is over |
| `AnswersOnce` | `Spec => AnsweredOnce`: with the first results after the limit both types end, and an answer does not change before the reset |
| `AnswersAreSound` | `Spec => []AnswersSound`, if nothing ties in fuzzy identifications (`MaxTies <= 1`, or no such type): an answer IDENTIFIED has the confidence and the listening time its mode asks for |

`RecInv` types the state and holds the limit: at `MaxIdTime` a fuzzy identification has
an answer, which is `SettledClass` again, since the limit is where the durations of the
classifier end; `StrongAnswer` is the strengthening for the last theorem.  A
processing of results walks over the best matches and a failed classification in
it flushes, which walks over those the flush finds (`FlushRun`, `FuzzyRun`); both are
recursive functions, and `RecursionStays` carries an invariant along them.  With ties
the theorem is false: the class of the last match classified is given to all
(section 5).

**`Recursion`** has what these need of functions defined by recursion over the
naturals: that they exist (`RecursiveFunction`) and keep what each step keeps
(`RecursionStays`).  The theorems on this in the library take an operator as a parameter,
which the provers here cannot instantiate.  Stated for a *set* of pairs or a
*function* F instead, they follow from the principle that a set of naturals with 0
and all successors is everything (`NatSet`).

**`TermCodesProofs`**: any codebook and any number of bands up to 1024 (the widths are
powers of two up to 2^10), any band width for which the mask `0x3F` is made (17 to
32 quanta), any `Tmax` that is no multiple of `qT`.

| Theorem | States |
|---|---|
| `XCodesApart` | `XCode(s) = XCode(t) => s = t` for the parts of any two pairs |
| `SCodesApart` | the same for single fingerprints |

A code is a number in a mixed radix (`XCodeDigits`) whose digits fit
(`XPartsFit`), so they are unique (`DigitsUnique`); the signed last part is told
apart by its six bits (`MaskUnique`).  `TermsApart` checks in the `codec` run that the
terms the loops form are of that kind, and the codes they get; the theorem says
that any are, beyond the terms of the instance.  It justifies that
`OccurrenceIndex` and `Matcher` key lists by tuples.

## 5. Disagreements

Where the code and its documentation, or a plain expectation, part.  No run
expects them; each was seen by changing the named constant or property of a run.  Statements of the documentation that fail are kept at the
end of their modules: add `INVARIANT <name>` (or `PROPERTY`, if it is one) to the cfg.

*TokyoCabinet sessions.*

- `OnIndexerEnd` removes the delta by its bare name (`TCDataStore.cpp:181`), but it was
  opened under the database URL (`:366`): with any other URL than the working
  directory it stays and is merged again (`UrlIsCwd = FALSE`).
- `Merge` takes pointers into its buffer, resizes it and writes the headers through
  the pointers (`:665-692`; in Couchbase `CBDataStore.cpp:995-1020`): if a record makes the
  buffer grow and move, it keeps its old headers (`MergeBuffer = 1` here;
  `MergedExact` there, in `bucket`).  The buffer begins with 32768 bytes
  (`CBDataStore.cpp:970`), exactly the threshold at which a block is closed
  (`DataStore.h:38`), so that a block that gets its last chunk just below the threshold
  is such a record.  The first growth always moves the buffer; a later one may find room
  behind it.
- Only the last FID of a chunk is compared with the list's maximum
  (`Indexer.cpp:443`): a chunk that starts with old FIDs and ends with a new one
  passes (`ChunkLimit = 2` with `CarefulFIDs = FALSE`).
- A merge is not a transaction, though a comment asks for one
  (`TCDataStore.cpp:166`): after a crash the delta is merged a second time into what
  has it.
- A crash while the block cache is written out can leave block 1 with a count
  that includes a block never written; the indexer then refuses the list for
  ever (`Indexer.cpp:408`; `HeadersExact` in the instance of `crash`).  If the block
  missing is not the last one, the indexer does not notice: it appends behind the
  gap, in sessions that end well and whose postings no reader finds (`acked`
  without `Whole` in `AckedKept`, in the same instance).
- An assertion (`TCDataStore.cpp:441`) denies what a comment (`:727`) allows: the
  first block of a delta may be a list header only, and is read again by the
  second flush of a build-and-merge.

*Couchbase sessions.*

- The last record of a merge is scheduled and never waited for
  (`CBDataStore.cpp:829`, against the note above it): a client that closes the store
  without reading loses it (`AckedStored`, `ReadsLast = FALSE`).
- A flush does not clear the block cache first (`:306`; TokyoCabinet's does): when a
  failed one is retried, chunks are appended twice (`RetriesFlush = TRUE`).
- `Clear`, "delete all contents" (`CBDataStore.h:283`), leaves the delta
  (`CBDataStore.cpp:233`).  A delta left by a crash has no remembered keys: it is
  not merged, but its headers are read, and a chunk of the next build-and-merge may be
  refused for them.
- One status serves all stores of a batch (`:829`, `:872`): a lost store goes
  unnoticed if a later one succeeds.

*Matching and identification.*

- `Matcher::Reset` does not clear the histogram (`Matcher.cpp:139`, against
  `Matcher.h:244`): after a read that threw, the first document of the next
  identification has evidence of another one (`OwnAfterReset`).  Candidates of the
  batch that threw are counted again.
- A histogram of fewer than ten bins does not grow enough (`Resize(bin * 1.1)`,
  `:425`; `HistoSizes = {2}` violates `BinInRange`).
- The histogram of the reranking is compared with the size of another one, that of the
  scan (`Matcher.cpp:805`), and is resized for each pair beyond that: a pair at an
  earlier bin than the one before makes it smaller, and loses what was counted
  behind (`RerankFits`).
- X-scale pairs reach across the end of a batch (`:367`), and a weight of order may
  exceed 1; tie lists hold ten documents in one search and eleven in the other
  (`:510`, `:654`).  `MatchResults_t::Reranked` is not initialised.
- The class of one best match is given to all that tie with it
  (`Recognizer.cpp:319-325`): one that has just tied has not been classified, and is
  reported as IDENTIFIED with a confidence of 0/0 (`MaxTies = 2`).
- In binary mode the time limit is checked only after a matching step
  (`Recognizer.cpp:232`): audio without fingerprints gets no results, against
  `audioneex.h:551` (`AlwaysAnswers`).
- `Open` clears the stop flag (`AudioSource.cpp:217`): a `Terminate` that set it just
  before waits for a thread nothing stops, against `example4.h:127` (`AlwaysReturns`).  One that
  comes before there is a thread to join at all goes through a null pointer instead.

*Fingerprints and codes.*

- "Skip points too close to spectrum boundaries to prevent incomplete
  descriptors" (`Fingerprint.cpp:168`): the margin is that of the neighbourhood, not
  of the scanning windows around it (`DescriptorsComplete`).
- The limit of a recording's length counts whole seconds of each block
  (`Indexer.cpp:158`): blocks that are not whole seconds pass it
  (`TooLongRefused`).
- The reallocation that "should never happen" (`Fingerprint.cpp:56`) happens for a
  full snippet of 2.5 s: the recognizer's fingerprinter is made for one
  (`Recognizer.cpp:41`) and `Process` needs a window more.
- "Ties are broken by choosing the cluster with minimum ME" (`Codebook.cpp:273`),
  but the greatest ID is chosen (`TiesByError`).  Training takes the lowest.
- A random point is drawn with an inclusive bound, one past the last
  (`SeedPastPoints`); with fewer different points than clusters all weights are
  zero and the draw is 0/0; a codebook file cut at the end of a record loads
  silently shorter (in `codebook`).  `BVQuantizer` is not in the CMake sources.
- `TermCodes` needs `Tmax % qT # 0`: `Vpt_max` is then the number of values, not the
  greatest.  The mask `0x3F` is written out instead of computed from `VPF_BITS`.

*Programs.*

- example1 starts from FID 1 unless told otherwise (`CarefulBase = FALSE`): run
  twice, it overwrites fingerprints and metadata before the flush is refused, and
  names no longer agree.
- A fingerprint is stored after the posting is cached and before it is flushed;
  a terminated run leaves fingerprints without postings.
- example2 takes FIDs from 1 to the count: gaps left by `-f` hide as many at the
  end.  A read error of TokyoCabinet looks like a gap.
- `Clear` is neither atomic nor complete: it drops the collections that are open,
  and the test opens the store without metadata, which survives it.  A FID is then of
  one file in the index and of an earlier one in the metadata between a flush of
  `Index` and the `PutMetadata` after it, and for good if example1 dies there, or is built
  without `WITH_ID3`: example3 tells the old name (`stale` in `ToldRight`;
  `OldNamesReplaced` says that nothing else leads there).

## 6. What is not modelled

- The arithmetic of signals: the FFT is a table, the bits of a descriptor are the
  frames they are made from.  The flag `flush` of `Fingerprint::Process` has no
  caller that sets it.
- The info record of a store (`GetInfo`, `PutInfo`), `SetOpMode`, which reopens a
  store's files, credentials and connections.
- Command lines, printing, pipes, wave files, ID3 tags, the listing of devices,
  plotting (`gnuplot`), the indexer tools under `ubin`: sequential and without state
  of their own.
- The Android example: Java services over the JNI.
- Seeding of the random generators; `KmeansPP` may draw any point with weight, or none.
- TokyoCabinet and libcouchbase themselves.  The first is modelled by what its
  calls do here.
- Weak memory beyond a stale `mConsumed`: torn 64-bit reads and reordering of the
  block's data with its counter are outside the model; the program's platforms
  (x86) do neither.

- The setters of the recognizer during an identification, and its numeric ones,
  which are constants of the model.

Model-checked only: everything live (`FullRingDrains`, `TerminateReturns`, `RunEnds`),
which is beyond the prover; `DeltaExtendsLive` and `ImplementsLiveIndex` of
`IndexingSession`, and its other properties where sessions merge; and all properties
of modules that section 4 does not name.  Recursive functions are in reach by way
of `Recursion`, folds over sequences and sets with an operator as a parameter
(`Codebook`, `Matcher`), and RECURSIVE operators, are not.

## 7. Plan

1. Merging: `DeltaExtendsLive`, the accounting between delta and live sizes, and with it
   the theorems above without crashes but with merges.
2. `RecognitionService`: the Android threads, handlers and session flag over the
   queue, which is reset while the capture runs.
3. `NumberedFromOne` of `Library`.
