----------------------------- MODULE AudioBlocks -----------------------------
(***************************************************************************)
(* AudioBlock: a block of audio of a fixed capacity.  A block is the       *)
(* sequence of its samples; what does not fit is dropped without a word.   *)
(***************************************************************************)
EXTENDS Integers, Sequences, FiniteSetsExt

\* A new block is silent: initSize samples of it, all it can hold if that
\* is negative.
Create(capacity, initSize) ==
  [i \in 1..(IF initSize < 0 THEN capacity ELSE Min({initSize, capacity})) |-> 0]

\* SetData replaces what is in the block.
SetData(capacity, data) == SubSeq(data, 1, Min({capacity, Len(data)}))

DoAppend(block, capacity, data) ==
  LET available == capacity - Len(block)
  IN  block \o SubSeq(data, 1, Min({available, Len(data)}))

\* Appending no data leaves the block, full or not.
AppendBlock(block, capacity, data) == IF data = <<>> THEN block ELSE DoAppend(block, capacity, data)

\* At most size samples from the offset start on; none from beyond the end.
GetSubBlock(block, start, size) ==
  IF start < Len(block) THEN SubSeq(block, start + 1, start + Min({size, Len(block) - start})) ELSE <<>>
==============================================================================
