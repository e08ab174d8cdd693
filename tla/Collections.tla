----------------------------- MODULE Collections -----------------------------
(***************************************************************************)
(* The fingerprint and metadata collections of a data store, as its two    *)
(* drivers read and write them: TCDataStore ("TC"), a file a collection,   *)
(* and CBDataStore ("CB"), a bucket a collection.                          *)
(*                                                                         *)
(* A collection is a function from FIDs; a fingerprint is the sequence of  *)
(* its LFs (the code counts bytes, always of whole LFs).  A read gives     *)
(* what was read and whether it ended in an exception; fault: the database *)
(* could not answer.                                                       *)
(***************************************************************************)
EXTENDS Integers, Sequences, FiniteSets, FiniteSetsExt

CONSTANT NoName   \* the empty metadata

Nothing == [f \in {} |-> <<>>]

Put(collection, FID, value) ==
  [f \in DOMAIN collection \cup {FID} |-> IF f = FID THEN value ELSE collection[f]]

\* get_callback: n LFs from the offset bo on, all of them if n is 0.
Piece(fp, n, bo) ==
  LET vsize == Len(fp) - bo
  IN  SubSeq(fp, bo + 1, bo + (IF n = 0 THEN vsize ELSE Min({n, vsize})))

\* An answer for a key that may not be there.
Answer(collection, FID, found, none, fault, failed) ==
  [value  |-> IF FID \in DOMAIN collection /\ ~fault THEN found ELSE none,
   failed |-> failed]

-----------------------------------------------------------------------------
(* TokyoCabinet: an error reads as a missing record.                       *)

TCReadFingerprintSize(fps, FID, fault) ==
  Answer(fps, FID, Len(fps[FID]), 0, fault, FALSE)

TCReadFingerprint(fps, FID, n, bo, fault) ==
  Answer(fps, FID, Piece(fps[FID], n, bo), <<>>, fault, FALSE)

TCReadMetadata(meta, FID, fault) == Answer(meta, FID, meta[FID], NoName, fault, FALSE)

TCWriteMetadata(meta, FID, name) == Put(meta, FID, name)

TCGetRecordsCount(collection, isOpen) == IF isOpen THEN Cardinality(DOMAIN collection) ELSE 0

-----------------------------------------------------------------------------
(* Couchbase: THROW_ON_FAIL passes over keys that do not exist.            *)

CBReadFingerprintSize(fps, FID, fault) ==
  Answer(fps, FID, Len(fps[FID]), 0, fault, fault)

CBReadFingerprint(fps, FID, n, bo, fault) ==
  Answer(fps, FID, Piece(fps[FID], n, bo), <<>>, fault, fault)

\* The status of the answer is not looked at.
CBReadMetadata(meta, FID, fault) == Answer(meta, FID, meta[FID], NoName, fault, FALSE)

\* Empty metadata is not stored, and leaves what was there.
CBWriteMetadata(meta, FID, name) == IF name = NoName THEN meta ELSE Put(meta, FID, name)

\* The items of the bucket, as the server's management interface tells.
CBGetRecordsCount(collection, isOpen) == IF isOpen THEN Cardinality(DOMAIN collection) ELSE 0

-----------------------------------------------------------------------------
(* m_ReadBuffer, which every read of a store goes through.                 *)

\* What is read goes behind what the buffer holds.
Bug_Filled(buffer, data) == buffer \o data

\* GetFingerprint: what is read covers the beginning of the buffer.
Filled(buffer, data) == data \o SubSeq(buffer, Len(data) + 1, Len(buffer))

\* What its caller takes from it, by the size it was told.
Taken(buffer, size) == SubSeq(buffer, 1, size)
=============================================================================
