----------------------------- MODULE RingBuffer -----------------------------
(***************************************************************************)
(* RingBuffer<T>: a ring of audio blocks with one producer and one         *)
(* consumer, synchronised by two counters and nothing else.                *)
(*                                                                         *)
(* The counters are plain integers shared by two threads.  The producer    *)
(* may read an old value of mConsumed: seen is the last one it read, and a *)
(* read returns any value from there to the present one.  The 64-bit       *)
(* counters do not wrap in the life of a process.                          *)
(***************************************************************************)
EXTENDS Integers, Sequences

CONSTANT Size   \* mSize

ASSUME SizeAssumption == Size \in Nat \ {0}

VARIABLES
  consumed, produced, consumeDone,   \* mConsumed, mProduced, mConsumeDone
  seen,                              \* the producer's view of mConsumed
  blocks                             \* mBuffer

ring == <<consumed, produced, consumeDone, seen, blocks>>

Slot(n) == n % Size

InitRing ==
  /\ consumed = 0 /\ produced = 0 /\ consumeDone = FALSE /\ seen = 0
  /\ blocks = [s \in 0..(Size - 1) |-> <<>>]

\* Bug_ operators are wrong forms of the definition after them, kept to show
\* that the properties notice: here the ring is full one block too late.
Bug_FullTooLate(c) == produced - c > Size

\* IsFull, as the producer evaluates it after it has read mConsumed.
IsFull(c) == produced - c = Size

IsEmpty(c) == produced - c = 0

\* GetHead: the producer asks for the block it may fill; full: none is free.
GetHead(full) ==
  /\ seen' \in seen..consumed
  /\ full <=> IsFull(seen')
  /\ UNCHANGED <<consumed, produced, consumeDone, blocks>>

\* Push: the head block goes to the consumer, unless the ring is full.
Push(pushed) ==
  /\ seen' \in seen..consumed
  /\ pushed <=> ~IsFull(seen')
  /\ produced' = IF pushed THEN produced + 1 ELSE produced
  /\ UNCHANGED <<consumed, consumeDone, blocks>>

\* The first call counts a block nobody pulled.
Bug_PullAlwaysCounts(starved) ==
  /\ consumed' = consumed + 1
  /\ starved <=> IsEmpty(consumed')
  /\ consumeDone' = ~starved
  /\ UNCHANGED <<produced, seen, blocks>>

\* Pull: the block pulled before is now consumed; the next one, if any, is
\* being consumed until the next call.
Pull(starved) ==
  /\ consumed' = IF consumeDone THEN consumed + 1 ELSE consumed
  /\ starved <=> IsEmpty(consumed')
  /\ consumeDone' = ~starved
  /\ UNCHANGED <<produced, seen, blocks>>
=============================================================================
