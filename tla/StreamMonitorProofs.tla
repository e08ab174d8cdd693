------------------------ MODULE StreamMonitorProofs ------------------------
(***************************************************************************)
(* Proofs about StreamMonitor, for a ring of any size, blocks of any       *)
(* number of chunks and a stream of any length.                            *)
(***************************************************************************)
EXTENDS StreamMonitor, TLAPS

\* Two counters less than a lap apart are in different slots: the slots are
\* reused in turn (GetHead, Push and Pull index mBuffer modulo mSize).
LEMMA SlotsDiffer ==
  ASSUME NEW a \in Nat, NEW b \in Nat, a < b, b - a < Size
  PROVE  Slot(a) # Slot(b)
<1> DEFINE qa == a \div Size
           qb == b \div Size
<1>1. Size \in Nat /\ Size > 0
  BY SizeAssumption
<1>2. a = Size * qa + Slot(a) /\ b = Size * qb + Slot(b)
  BY <1>1, SMT DEF Slot
<1>3. qa \in Int /\ qb \in Int /\ Slot(a) \in Int
  BY <1>1, SMT DEF Slot
<1>4. ASSUME NEW q \in Int PROVE ~(0 < Size * q /\ Size * q < Size)
  BY <1>1, <1>4, SMT
<1>5. Size * (qb - qa) = Size * qb - Size * qa
  BY <1>1, <1>3, SMT
<1>6. qb - qa \in Int
  BY <1>3, SMT
<1> HIDE DEF qa, qb
<1>7. SUFFICES ASSUME Slot(a) = Slot(b) PROVE FALSE
  OBVIOUS
<1>8. Size * (qb - qa) = b - a
  BY <1>1, <1>2, <1>3, <1>5, <1>7, SMT
<1>9. 0 < Size * (qb - qa) /\ Size * (qb - qa) < Size
  BY <1>8, <1>1, SMT
<1>10. QED
  BY <1>4, <1>6, <1>9

\* A slot is an index of the buffer.
LEMMA SlotInRange ==
  ASSUME NEW n \in Nat
  PROVE  Slot(n) \in 0..(Size - 1)
BY SizeAssumption, SMT DEF Slot

-----------------------------------------------------------------------------
\* Every variable keeps its type, for every size of ring and block.
THEOREM TypeCorrect == Spec => []TypeOK
<1>1. Init => TypeOK
  <2>1. <<>> \in Seq(Nat)
    OBVIOUS
  <2>2. [s \in 0..(Size - 1) |-> <<>>] \in [0..(Size - 1) -> Seq(Nat)]
    BY <2>1, Zenon
  <2>3. SUFFICES ASSUME Init PROVE TypeOK
    OBVIOUS
  <2>4. blocks \in [0..(Size - 1) -> Seq(Nat)]
    BY <2>2, <2>3 DEF Init, InitRing
  <2>5. QED
    BY <2>3, <2>4 DEF Init, InitRing, TypeOK
<1>2. TypeOK /\ [Next]_vars => TypeOK'
  <2> SUFFICES ASSUME TypeOK, [Next]_vars PROVE TypeOK'
    OBVIOUS
  <2> USE SizeAssumption DEF TypeOK, ring, control
  <2>a. ASSUME NEW s \in Seq(Nat), NEW n \in Nat
        PROVE  [blocks EXCEPT ![Slot(n)] = s] \in [0..(Size - 1) -> Seq(Nat)]
    BY SlotInRange
  <2>1. CASE ReadPipe
    BY <2>1 DEF ReadPipe
  <2>2. CASE ReadBeyond \/ NextTurn \/ LeaveCapture \/ PipeEnds
    BY <2>2 DEF ReadBeyond, NextTurn, LeaveCapture, PipeEnds
  <2>3. CASE \E full \in BOOLEAN : TakeHead(full)
    BY <2>3 DEF TakeHead, GetHead, IsFull
  <2>4. CASE \E long \in BOOLEAN : AppendChunk(long)
    <3>1. PICK long \in BOOLEAN : AppendChunk(long)
      BY <2>4
    <3>2. Append(blocks[HeadBlock], chunk) \in Seq(Nat)
      <4>1. blocks[HeadBlock] \in Seq(Nat)
        BY SlotInRange DEF HeadBlock
      <4>2. chunk \in Nat
        OBVIOUS
      <4> HIDE DEF TypeOK
      <4>3. QED
        BY <4>1, <4>2, SMT
    <3>3. blocks' \in [0..(Size - 1) -> Seq(Nat)]
      BY <2>a, <3>1, <3>2 DEF AppendChunk, HeadBlock
    <3>4. QED
      BY <3>1, <3>3 DEF AppendChunk
  <2>5. CASE \E pushed \in BOOLEAN : PushBlock(pushed)
    BY <2>5 DEF PushBlock, Push, Post, IsFull
  <2>6. CASE OpenSource
    BY <2>6 DEF OpenSource
  <2>7. CASE StartCapture
    BY <2>7 DEF StartCapture
  <2>8. CASE \E starved \in BOOLEAN : PullBlock(starved)
    BY <2>8 DEF PullBlock, Pull, HasEvent, IsEmpty
  <2>9. CASE Identify
    <3>1. blocks[PulledBlock] \in Seq(Nat)
      BY SlotInRange DEF PulledBlock
    <3>2. heard' \in Nat
      BY <2>9, <3>1 DEF Identify
    <3>3. QED
      BY <2>9, <3>2 DEF Identify
  <2>10. CASE EmptyBlock
    <3>1. <<>> \in Seq(Nat)
      OBVIOUS
    <3>2. blocks' \in [0..(Size - 1) -> Seq(Nat)]
      BY <2>a, <2>10, <3>1 DEF EmptyBlock, PulledBlock
    <3>3. QED
      BY <2>10, <3>2 DEF EmptyBlock
  <2>11. CASE LeaveLoop
    BY <2>11 DEF LeaveLoop
  <2>12. CASE StopCapture
    BY <2>12 DEF StopCapture
  <2>13. CASE JoinCapture
    BY <2>13 DEF JoinCapture
  <2>14. CASE JoinTask
    BY <2>14 DEF JoinTask
  <2>15. CASE Terminated
    BY <2>15 DEF Terminated, vars
  <2>16. CASE UNCHANGED vars
    BY <2>16 DEF vars, ring, control
  <2>17. QED
    BY <2>1, <2>2, <2>3, <2>4, <2>5, <2>6, <2>7, <2>8, <2>9, <2>10, <2>11, <2>12,
       <2>13, <2>14, <2>15, <2>16
    DEF Next, Capture, Task, Main
<1>3. QED
  BY <1>1, <1>2, PTL DEF Spec

-----------------------------------------------------------------------------
\* What makes the two counters a lock: the producer's view of mConsumed is
\* never ahead, and never more than a lap behind mProduced (IsFull compares
\* with ==, so a view further behind would look like a free block); a block
\* being consumed is still counted as in the ring; and the producer fills a
\* block only after it saw the ring not full.
RingInv ==
  /\ seen <= consumed /\ produced <= seen + Size
  /\ BacklogMatchesEvents
  /\ tpc \in {"identify", "empty"} => consumeDone
  /\ cpc \in {"append", "push"} => produced < seen + Size

\* A read of mConsumed that returns an old value.
LEMMA StaleView ==
  ASSUME NEW s \in Nat, NEW c \in Nat, NEW p \in Nat, NEW z \in Nat, NEW v \in s..c
  PROVE  /\ v \in Nat /\ s <= v /\ v <= c
         /\ p <= s + z => p <= v + z
         /\ p < s + z => p < v + z
         /\ p < v + z => p - v # z /\ p + 1 <= v + z /\ p + 1 <= c + z
         /\ p <= v + z /\ p - v # z => p < v + z
OBVIOUS

\* RingInv is inductive.
LEMMA RingInvariant == Spec => []RingInv
<1>1. Init => RingInv
  BY SizeAssumption DEF Init, InitRing, RingInv, BacklogMatchesEvents
<1>2. TypeOK /\ RingInv /\ [Next]_vars => RingInv'
  <2> SUFFICES ASSUME TypeOK, RingInv, [Next]_vars PROVE RingInv'
    OBVIOUS
  <2>t. /\ consumed \in Nat /\ produced \in Nat /\ seen \in Nat /\ Size \in Nat
        /\ consumeDone \in BOOLEAN /\ events \in Nat
    BY SizeAssumption DEF TypeOK
  <2> USE <2>t DEF RingInv, BacklogMatchesEvents, ring, control
  <2>1. CASE ReadPipe
    BY <2>1 DEF ReadPipe
  <2>2. CASE ReadBeyond \/ NextTurn \/ LeaveCapture \/ PipeEnds
    BY <2>2 DEF ReadBeyond, NextTurn, LeaveCapture, PipeEnds
  <2>3. CASE \E full \in BOOLEAN : TakeHead(full)
    <3>1. PICK full \in BOOLEAN : TakeHead(full)
      BY <2>3
    <3>2. /\ consumed' = consumed /\ produced' = produced /\ consumeDone' = consumeDone
          /\ events' = events /\ tpc' = tpc
          /\ seen' \in seen..consumed
      BY <3>1 DEF TakeHead, GetHead
    <3>a. /\ seen' \in Nat /\ seen <= seen' /\ seen' <= consumed
          /\ produced <= seen' + Size
      BY <3>2, StaleView
    <3>3. CASE full
      <4>1. cpc' = "read"
        BY <3>1, <3>3 DEF TakeHead
      <4>2. QED
        BY <3>2, <3>a, <4>1
    <3>4. CASE ~full
      <4>1. produced - seen' # Size
        BY <3>1, <3>4 DEF TakeHead, GetHead, IsFull
      <4>2. produced < seen' + Size
        BY <3>2, <3>a, <4>1, StaleView
      <4>3. QED
        BY <3>2, <3>a, <4>2
    <3>5. QED
      BY <3>3, <3>4
  <2>4. CASE \E long \in BOOLEAN : AppendChunk(long)
    BY <2>4 DEF AppendChunk
  <2>5. CASE \E pushed \in BOOLEAN : PushBlock(pushed)
    <3>1. PICK pushed \in BOOLEAN : PushBlock(pushed)
      BY <2>5
    <3>2. /\ consumed' = consumed /\ consumeDone' = consumeDone /\ tpc' = tpc
          /\ cpc' = "read"
          /\ seen' \in seen..consumed
      BY <3>1 DEF PushBlock, Push
    <3>3. /\ seen' \in Nat /\ seen <= seen' /\ seen' <= consumed
          /\ produced < seen' + Size
      BY <2>5, <3>2, StaleView DEF PushBlock
    <3>4. /\ produced - seen' # Size
          /\ produced + 1 <= seen' + Size /\ produced + 1 <= consumed + Size
      <4> HIDE DEF RingInv, BacklogMatchesEvents
      <4>1. seen' \in seen..consumed
        BY <3>2
      <4>2. QED
        BY <3>3, <4>1, StaleView
    <3>5. pushed /\ produced' = produced + 1 /\ events' = events + 1
      BY <3>1, <3>4 DEF PushBlock, Push, Post, IsFull
    <3>6. BacklogMatchesEvents'
      BY <3>2, <3>4, <3>5
    <3>7. QED
      BY <3>2, <3>3, <3>4, <3>5, <3>6
  <2>6. CASE OpenSource
    BY <2>6 DEF OpenSource
  <2>7. CASE StartCapture
    BY <2>7 DEF StartCapture
  <2>8. CASE \E starved \in BOOLEAN : PullBlock(starved)
    <3>1. PICK starved \in BOOLEAN : PullBlock(starved)
      BY <2>8
    <3>2. consumed' = consumed + (IF consumeDone THEN 1 ELSE 0)
      BY <3>1, SMT DEF PullBlock, Pull
    <3>3. /\ consumed' < produced /\ consumed <= consumed'
          /\ events' = produced - consumed' - 1
      BY <3>1, <3>2, SMT DEF PullBlock, HasEvent
    <3>4. consumeDone'
      <4>1. ~(produced - consumed' = 0)
        BY <3>2, <3>3, SMT
      <4>2. ~starved
        BY <3>1, <4>1 DEF PullBlock, Pull, IsEmpty
      <4>3. QED
        BY <3>1, <4>2 DEF PullBlock, Pull
    <3>5. /\ produced' = produced /\ seen' = seen /\ cpc' = cpc
          /\ produced' \in Nat /\ consumed' \in Nat /\ events' \in Nat
      BY <3>1, <3>2, <3>3, SMT DEF PullBlock, Pull
    <3>6. QED
      BY <3>2, <3>3, <3>4, <3>5, SMT
  <2>9. CASE Identify
    BY <2>9 DEF Identify
  <2>10. CASE EmptyBlock
    BY <2>10 DEF EmptyBlock
  <2>11. CASE LeaveLoop
    BY <2>11 DEF LeaveLoop
  <2>12. CASE StopCapture
    BY <2>12 DEF StopCapture
  <2>13. CASE JoinCapture
    BY <2>13 DEF JoinCapture
  <2>14. CASE JoinTask
    BY <2>14 DEF JoinTask
  <2>15. CASE Terminated
    BY <2>15 DEF Terminated, vars
  <2>16. CASE UNCHANGED vars
    BY <2>16 DEF vars, ring, control
  <2>17. QED
    BY <2>1, <2>2, <2>3, <2>4, <2>5, <2>6, <2>7, <2>8, <2>9, <2>10, <2>11, <2>12,
       <2>13, <2>14, <2>15, <2>16
    DEF Next, Capture, Task, Main
<1>3. QED
  BY <1>1, <1>2, TypeCorrect, PTL DEF Spec

\* The ring's accounting: the counters stay within a lap of each other, and
\* there is one posted event per block pushed and not pulled, so that
\* DoIdentification always finds a block.
THEOREM EventsFindBlocks == Spec => []BacklogMatchesEvents
<1>1. RingInv => BacklogMatchesEvents
  BY DEF RingInv
<1>2. QED
  BY <1>1, RingInvariant, PTL

\* The capture thread and the task thread never touch the same block,
\* whatever old value of mConsumed the capture thread reads.
THEOREM NoRace == Spec => []NoSharedBlock
<1>1. TypeOK /\ RingInv => NoSharedBlock
  <2> SUFFICES ASSUME TypeOK, RingInv,
                      cpc \in {"append", "push"}, tpc \in {"identify", "empty"}
               PROVE  HeadBlock # PulledBlock
    BY DEF NoSharedBlock
  <2>1. consumed \in Nat /\ produced \in Nat /\ Size \in Nat
    BY SizeAssumption DEF TypeOK
  <2>2. consumed < produced /\ produced - consumed < Size
    BY <2>1 DEF TypeOK, RingInv, BacklogMatchesEvents
  <2>3. QED
    BY <2>1, <2>2, SlotsDiffer DEF HeadBlock, PulledBlock
<1>2. QED
  BY <1>1, TypeCorrect, RingInvariant, PTL

-----------------------------------------------------------------------------
(* The order of what is heard.  A block is known by its number, the one    *)
(* its counter had when it was filled: Block(n) is block n as long as n is *)
(* less than a lap ahead of the consumer.                                  *)

Block(n) == blocks[Slot(n)]

InUse == consumed .. consumed + Size - 1

\* A contiguous stretch of the stream, and the last chunk of one.
Stretch(b) == \A i \in 1..Len(b) : b[i] = b[1] + i - 1

LastOf(b) == b[1] + Len(b) - 1

\* Every block holds a stretch, later than those of the blocks before it;
\* blocks waiting to be pulled hold something, those free hold nothing.
BlocksInOrder ==
  /\ \A n \in InUse :
       /\ Stretch(Block(n))
       /\ n > produced => Block(n) = <<>>
       /\ n > consumed /\ n < produced => Block(n) # <<>>
       /\ Block(n) # <<>> => LastOf(Block(n)) <= chunk
  /\ \A n \in InUse, m \in InUse :
       n < m /\ Block(n) # <<>> /\ Block(m) # <<>> => LastOf(Block(n)) < Block(m)[1]

\* What has been heard is earlier than what is in the ring, and the block
\* being consumed is emptied before the next one is pulled.
HeardIsEarlier ==
  /\ heard <= chunk
  /\ \A n \in InUse : Block(n) # <<>> /\ (n # consumed \/ tpc # "empty") => heard < Block(n)[1]
  /\ tpc = "empty" => Block(consumed) # <<>> /\ heard = LastOf(Block(consumed))
  /\ consumed < produced =>
       (Block(consumed) # <<>> <=> ~consumeDone \/ tpc \in {"identify", "empty"})

\* A block half filled is continued with the next chunk: GetHead cannot
\* refuse it, as the ring was seen not full when its first chunk came.
HeadGoesOn ==
  /\ tpc \in {"open", "start"} => cpc = "none"
  /\ cpc \in {"head", "append"} =>
       heard < chunk /\ \A n \in InUse : Block(n) # <<>> => LastOf(Block(n)) < chunk
  /\ produced \in InUse =>
       /\ cpc = "none" => Block(produced) = <<>>
       /\ cpc = "push" => Block(produced) # <<>>
       /\ Block(produced) # <<>> =>
            /\ produced < seen + Size
            /\ cpc \in {"read", "beyond"} => LastOf(Block(produced)) = chunk
            /\ cpc \in {"head", "append"} => LastOf(Block(produced)) = chunk - 1

OrderInv == BlocksInOrder /\ HeardIsEarlier /\ HeadGoesOn

\* A lap later the counter is at the same slot.
LEMMA SlotOfNextLap ==
  ASSUME NEW n \in Nat
  PROVE  Slot(n + Size) = Slot(n)
<1> DEFINE p == n \div Size
           q == (n + Size) \div Size
           r == Slot(n)
           t == Slot(n + Size)
<1>1. Size \in Nat /\ Size > 0 /\ n + Size \in Nat
  BY SizeAssumption
<1>2. /\ p \in Int /\ n = Size * p + r /\ r \in 0 .. Size - 1
      /\ q \in Int /\ n + Size = Size * q + t /\ t \in 0 .. Size - 1
  BY <1>1, SMT DEF Slot
<1> HIDE DEF p, q, r, t
<1>3. Size * (q - p) = Size * q - Size * p /\ q - p \in Int
  BY <1>1, <1>2, SMT
<1>4. Size * (q - p) = Size + r - t
  BY <1>1, <1>2, <1>3, SMT
<1>5. ASSUME NEW d \in Int, d < 1 \/ d > 1 PROVE Size * d <= 0 \/ Size * d >= 2 * Size
  <2>1. d <= 0 => Size * d <= 0
    BY <1>1, SMT
  <2>2. d >= 2 => Size * d >= 2 * Size
    BY <1>1, SMT
  <2>3. QED
    BY <1>5, <2>1, <2>2
<1>6. q - p = 1
  <2>1. 0 < Size + r - t /\ Size + r - t < 2 * Size
    BY <1>1, <1>2
  <2>2. ~(q - p < 1 \/ q - p > 1)
    BY <1>1, <1>2, <1>3, <1>4, <1>5, <2>1
  <2>3. QED
    BY <1>3, <2>2
<1>7. r = t
  BY <1>1, <1>2, <1>4, <1>6
<1>8. QED
  BY <1>7 DEF r, t

\* Writing the block of one number leaves the blocks of the others in use.
LEMMA OtherBlocks ==
  ASSUME TypeOK, NEW k \in InUse, NEW s, blocks' = [blocks EXCEPT ![Slot(k)] = s]
  PROVE  \A n \in InUse : blocks'[Slot(n)] = IF n = k THEN s ELSE blocks[Slot(n)]
<1> SUFFICES ASSUME NEW n \in InUse PROVE blocks'[Slot(n)] = IF n = k THEN s ELSE blocks[Slot(n)]
  OBVIOUS
<1>1. n \in Nat /\ k \in Nat /\ n - k < Size /\ k - n < Size /\ Size \in Nat
  BY SizeAssumption DEF TypeOK, InUse
<1>2. Slot(n) \in DOMAIN blocks /\ Slot(k) \in DOMAIN blocks
  BY <1>1, SlotInRange DEF TypeOK
<1>3. n # k => Slot(n) # Slot(k)
  <2>1. n < k \/ n = k \/ k < n
    BY <1>1
  <2>2. QED
    BY <1>1, <2>1, SlotsDiffer
<1>4. QED
  BY <1>2, <1>3

\* A chunk after a stretch continues it.
LEMMA AppendStretch ==
  ASSUME NEW b \in Seq(Nat), Stretch(b), NEW c \in Nat, b # <<>> => LastOf(b) = c - 1
  PROVE  /\ Append(b, c) # <<>> /\ Stretch(Append(b, c)) /\ LastOf(Append(b, c)) = c
         /\ Append(b, c)[1] = IF b = <<>> THEN c ELSE b[1]
<1> DEFINE a == Append(b, c)
<1>1. /\ a \in Seq(Nat) /\ Len(a) = Len(b) + 1 /\ Len(b) \in Nat
      /\ \A i \in 1..Len(b) : a[i] = b[i] /\ b[i] \in Nat
      /\ a[Len(b) + 1] = c
  OBVIOUS
<1>2. b = <<>> <=> Len(b) = 0
  OBVIOUS
<1>3. a # <<>>
  BY <1>1
<1>4. a[1] = IF b = <<>> THEN c ELSE b[1]
  BY <1>1, <1>2
<1>5. b # <<>> => b[1] \in Nat /\ c = b[1] + Len(b)
  BY <1>1, <1>2 DEF LastOf
<1> HIDE DEF a
<1>6. LastOf(a) = c
  BY <1>1, <1>2, <1>4, <1>5 DEF LastOf
<1>7. Stretch(a)
  <2> SUFFICES ASSUME NEW i \in 1..Len(a) PROVE a[i] = a[1] + i - 1
    BY DEF Stretch
  <2>1. CASE i \in 1..Len(b)
    BY <1>1, <1>2, <1>4, <2>1 DEF Stretch
  <2>2. CASE i = Len(b) + 1
    BY <1>1, <1>2, <1>4, <1>5, <2>2
  <2>3. QED
    BY <1>1, <2>1, <2>2
<1>8. QED
  BY <1>3, <1>4, <1>6, <1>7 DEF a

\* Initially all blocks are free.
LEMMA OrderInit == Init => OrderInv
<1> SUFFICES ASSUME Init PROVE OrderInv
  OBVIOUS
<1>1. consumed = 0 /\ produced = 0 /\ Size \in Nat /\ Size > 0 /\ InUse = 0 .. Size - 1
  BY SizeAssumption DEF Init, InitRing, InUse
<1>2. \A n \in InUse : Block(n) = <<>>
  <2>1. \A n \in InUse : n \in Nat
    BY <1>1
  <2>2. QED
    BY <2>1, SlotInRange DEF Init, InitRing, Block
<1>3. Stretch(<<>>)
  BY DEF Stretch
<1>4. QED
  BY <1>1, <1>2, <1>3 DEF Init, OrderInv, BlocksInOrder, HeardIsEarlier, HeadGoesOn

\* A step that leaves the ring alone and moves only a thread's position.
LEMMA OrderFrame ==
  ASSUME OrderInv, blocks' = blocks, consumed' = consumed, produced' = produced,
         consumeDone' = consumeDone, chunk' = chunk, heard' = heard
  PROVE  /\ \A n : Block(n)' = Block(n)
         /\ InUse' = InUse /\ BlocksInOrder'
<1>1. \A n : Block(n)' = Block(n)
  BY DEF Block
<1>2. InUse' = InUse
  BY DEF InUse
<1>3. QED
  BY <1>1, <1>2 DEF OrderInv, BlocksInOrder

\* OrderInv is inductive, with the ring's accounting.
LEMMA OrderStep == TypeOK /\ RingInv /\ OrderInv /\ [Next]_vars => OrderInv'
<1> SUFFICES ASSUME TypeOK, RingInv, OrderInv, [Next]_vars PROVE OrderInv'
  OBVIOUS
<1>t. /\ consumed \in Nat /\ produced \in Nat /\ seen \in Nat /\ Size \in Nat /\ Size > 0
      /\ consumeDone \in BOOLEAN /\ events \in Nat /\ chunk \in Nat /\ heard \in Nat
      /\ InUse \subseteq Nat /\ consumed \in InUse
      /\ cpc \in {"none", "read", "beyond", "head", "append", "push", "ended"}
      /\ tpc \in {"open", "start", "loop", "identify", "empty", "returned"}
  BY SizeAssumption DEF TypeOK, InUse
<1>b. \A n \in InUse : Block(n) \in Seq(Nat)
  BY <1>t, SlotInRange DEF TypeOK, Block
<1>r. /\ seen <= consumed /\ produced <= seen + Size
      /\ consumed <= produced /\ produced <= consumed + Size
      /\ events + (IF consumeDone THEN 1 ELSE 0) = produced - consumed
      /\ tpc \in {"identify", "empty"} => consumeDone
      /\ cpc \in {"append", "push"} => produced < seen + Size
  BY DEF RingInv, BacklogMatchesEvents
<1> USE DEF OrderInv, HeardIsEarlier, HeadGoesOn, ring, control
<1>1. CASE ReadPipe
  <2>1. /\ consumed' = consumed /\ produced' = produced /\ blocks' = blocks
        /\ consumeDone' = consumeDone /\ heard' = heard /\ tpc' = tpc /\ seen' = seen
        /\ chunk' = chunk + 1 /\ cpc = "read" /\ cpc' = "head"
    BY <1>1 DEF ReadPipe
  <2>2. (\A n : Block(n)' = Block(n)) /\ InUse' = InUse
    BY <2>1 DEF Block, InUse
  <2>3. \A n \in InUse : Block(n) # <<>> => LastOf(Block(n)) \in Int
    <3>1. \A b \in Seq(Nat) : b # <<>> => b[1] \in Nat /\ Len(b) \in Nat
      OBVIOUS
    <3>2. QED
      BY <1>b, <3>1 DEF LastOf
  <2>4. BlocksInOrder'
    BY <1>t, <2>1, <2>2, <2>3 DEF BlocksInOrder
  <2>5. \A n \in InUse : Block(n) # <<>> => LastOf(Block(n)) < chunk + 1
    BY <1>t, <2>3 DEF BlocksInOrder
  <2>6. QED
    BY <1>t, <2>1, <2>2, <2>4, <2>5
<1>2. CASE ReadBeyond \/ NextTurn \/ LeaveCapture \/ PipeEnds
  <2>1. /\ blocks' = blocks /\ consumed' = consumed /\ produced' = produced /\ seen' = seen
        /\ consumeDone' = consumeDone /\ chunk' = chunk /\ heard' = heard /\ tpc' = tpc
        /\ cpc \in {"read", "beyond"} /\ cpc' \in {"read", "beyond", "ended"}
    BY <1>2 DEF ReadBeyond, NextTurn, LeaveCapture, PipeEnds
  <2>2. (\A n : Block(n)' = Block(n)) /\ InUse' = InUse /\ BlocksInOrder'
    BY <2>1, OrderFrame
  <2>3. QED
    BY <1>t, <2>1, <2>2
<1>3. ASSUME NEW full \in BOOLEAN, TakeHead(full) PROVE OrderInv'
  <2>1. /\ blocks' = blocks /\ consumed' = consumed /\ produced' = produced
        /\ consumeDone' = consumeDone /\ chunk' = chunk /\ heard' = heard /\ tpc' = tpc
        /\ cpc = "head" /\ cpc' = IF full THEN "read" ELSE "append"
        /\ seen' \in seen..consumed /\ (full <=> produced - seen' = Size)
    BY <1>3 DEF TakeHead, GetHead, IsFull
  <2>2. (\A n : Block(n)' = Block(n)) /\ InUse' = InUse /\ BlocksInOrder'
    BY <2>1, OrderFrame
  <2>3. seen' \in Nat /\ seen <= seen'
    BY <1>t, <2>1
  <2>4. ASSUME produced < seen + Size PROVE produced < seen' + Size /\ ~full
    <3> HIDE DEF OrderInv, HeardIsEarlier, HeadGoesOn
    <3>1. produced < seen' + Size
      BY <1>t, <2>1, <2>4, StaleView
    <3>2. produced - seen' # Size
      BY <1>t, <2>1, <3>1, StaleView
    <3>3. QED
      BY <2>1, <3>1, <3>2
  <2>5. QED
    BY <1>t, <2>1, <2>2, <2>4
<1>4. ASSUME NEW long \in BOOLEAN, AppendChunk(long) PROVE OrderInv'
  <2> DEFINE b == Block(produced)
             a == Append(b, chunk)
  <2>1. /\ blocks' = [blocks EXCEPT ![Slot(produced)] = a] /\ consumed' = consumed
        /\ produced' = produced /\ seen' = seen
        /\ consumeDone' = consumeDone /\ chunk' = chunk /\ heard' = heard /\ tpc' = tpc
        /\ cpc = "append" /\ cpc' \in {"push", "read"}
    BY <1>4 DEF AppendChunk, HeadBlock, Block
  <2>2. produced \in InUse /\ produced < seen + Size
    BY <1>t, <1>r, <2>1 DEF InUse
  <2>3. b \in Seq(Nat) /\ Stretch(b) /\ (b # <<>> => LastOf(b) = chunk - 1)
    BY <1>b, <2>1, <2>2 DEF BlocksInOrder
  <2> HIDE DEF b
  <2>4. a # <<>> /\ Stretch(a) /\ LastOf(a) = chunk /\ a[1] = IF b = <<>> THEN chunk ELSE b[1]
    BY <1>t, <2>3, AppendStretch
  <2> HIDE DEF a
  <2>5. InUse' = InUse /\ \A n \in InUse : Block(n)' = IF n = produced THEN a ELSE Block(n)
    BY <2>1, <2>2, OtherBlocks, ZenonT(40) DEF Block, InUse
  <2>6. BlocksInOrder'
    <3>1. \A n \in InUse : Block(n) # <<>> => LastOf(Block(n)) < chunk
      BY <2>1
    <3>2. \A n \in InUse : n # produced => Block(n)' = Block(n)
      BY <2>5
    <3>3. Block(produced)' = a
      BY <2>1, <2>2, <2>5
    <3>4. ASSUME NEW n \in InUse
          PROVE  /\ Stretch(Block(n)')
                 /\ n > produced => Block(n)' = <<>>
                 /\ n > consumed /\ n < produced => Block(n)' # <<>>
                 /\ Block(n)' # <<>> => LastOf(Block(n)') <= chunk
      <4>1. CASE n = produced
        <5>1. Block(n)' = a
          BY <2>5, <4>1
        <5>2. ~(n > produced) /\ ~(n < produced) /\ chunk <= chunk
          BY <1>t, <4>1
        <5>3. QED
          BY <2>4, <5>1, <5>2
      <4>2. CASE n # produced
        <5>1. Block(n)' = Block(n)
          BY <3>2, <4>2
        <5>2. QED
          BY <5>1 DEF BlocksInOrder
      <4>3. QED
        BY <4>1, <4>2
    <3>5. ASSUME NEW n \in InUse, NEW m \in InUse, n < m, Block(n)' # <<>>, Block(m)' # <<>>
          PROVE  LastOf(Block(n)') < Block(m)'[1]
      <4>1. CASE m = produced
        <5>1. Block(n)' = Block(n)
          BY <3>2, <3>5, <4>1, <1>t
        <5>2. Block(m)' = a
          BY <2>5, <4>1
        <5>3. b # <<>> => LastOf(Block(n)) < b[1]
          BY <2>2, <3>5, <4>1, <5>1 DEF BlocksInOrder, b
        <5>4. LastOf(Block(n)) < a[1]
          BY <2>4, <3>1, <3>5, <5>1, <5>3
        <5>5. QED
          BY <5>1, <5>2, <5>4
      <4>2. CASE n = produced
        BY <1>t, <3>2, <3>5, <4>2 DEF BlocksInOrder
      <4>3. CASE n # produced /\ m # produced
        BY <3>2, <3>5, <4>3 DEF BlocksInOrder
      <4>4. QED
        BY <4>1, <4>2, <4>3
    <3>6. QED
      BY <2>1, <2>5, <3>4, <3>5 DEF BlocksInOrder
  <2>7. HeardIsEarlier'
    <3>1. tpc \in {"identify", "empty"} => consumed # produced
      BY <1>t, <1>r
    <3>2. heard < a[1]
      <4>1. heard < chunk
        BY <2>1
      <4>2. b # <<>> /\ (produced # consumed \/ tpc # "empty") => heard < b[1]
        BY <2>2 DEF b
      <4>3. QED
        BY <2>4, <3>1, <4>1, <4>2
    <3>3. consumed < produced => Block(consumed)' = Block(consumed)
      BY <1>t, <2>1, <2>5
    <3>4. QED
      BY <1>t, <1>r, <2>1, <2>4, <2>5, <3>1, <3>2, <3>3
  <2>8. HeadGoesOn'
    BY <1>t, <2>1, <2>2, <2>4, <2>5
  <2>9. QED
    BY <2>6, <2>7, <2>8
<1>5. ASSUME NEW pushed \in BOOLEAN, PushBlock(pushed) PROVE OrderInv'
  <2>1. /\ blocks' = blocks /\ consumed' = consumed /\ consumeDone' = consumeDone
        /\ chunk' = chunk /\ heard' = heard /\ tpc' = tpc /\ cpc = "push" /\ cpc' = "read"
        /\ seen' \in seen..consumed /\ (pushed <=> ~IsFull(seen'))
        /\ produced' = IF pushed THEN produced + 1 ELSE produced
    BY <1>5 DEF PushBlock, Push
  <2>2. pushed
    <3> HIDE DEF OrderInv, HeardIsEarlier, HeadGoesOn
    <3>1. produced < seen + Size
      BY <1>r, <2>1
    <3>2. produced < seen' + Size
      BY <1>t, <2>1, <3>1, StaleView
    <3>3. produced - seen' # Size
      BY <1>t, <2>1, <3>2, StaleView
    <3>4. QED
      BY <2>1, <3>3 DEF IsFull
  <2>3. produced' = produced + 1 /\ produced < produced + 1
    BY <1>t, <2>1, <2>2
  <2>4. (\A n : Block(n)' = Block(n)) /\ InUse' = InUse
    BY <2>1 DEF Block, InUse
  <2>5. produced \in InUse /\ Block(produced) # <<>>
    <3>1. produced \in InUse
      BY <1>t, <1>r, <2>1 DEF InUse
    <3>2. QED
      BY <2>1, <3>1
  <2>6. BlocksInOrder'
    <3>1. \A n \in InUse : n > produced + 1 => n > produced
      BY <1>t
    <3>2. \A n \in InUse : n < produced + 1 => n < produced \/ n = produced
      BY <1>t
    <3>3. QED
      BY <2>1, <2>3, <2>4, <2>5, <3>1, <3>2 DEF BlocksInOrder
  <2>7. HeardIsEarlier'
    <3>1. consumed = produced => consumeDone = FALSE
      BY <1>t, <1>r
    <3>2. consumed < produced \/ consumed = produced
      BY <1>t, <1>r
    <3>3. QED
      BY <2>1, <2>3, <2>4, <2>5, <3>1, <3>2
  <2>8. produced + 1 \in InUse => Block(produced + 1) = <<>>
    <3>1. produced + 1 > produced
      BY <1>t
    <3>2. QED
      BY <3>1 DEF BlocksInOrder
  <2>9. HeadGoesOn'
    BY <2>1, <2>3, <2>4, <2>8
  <2>10. QED
    BY <2>6, <2>7, <2>9
<1>6. CASE OpenSource
  <2>1. /\ blocks' = blocks /\ consumed' = consumed /\ produced' = produced /\ seen' = seen
        /\ consumeDone' = consumeDone /\ chunk' = chunk /\ heard' = heard /\ cpc' = cpc
        /\ tpc = "open" /\ tpc' = "start"
    BY <1>6 DEF OpenSource
  <2>2. (\A n : Block(n)' = Block(n)) /\ InUse' = InUse /\ BlocksInOrder'
    BY <2>1, OrderFrame
  <2>3. QED
    BY <1>t, <2>1, <2>2
<1>7. CASE StartCapture
  <2>1. /\ blocks' = blocks /\ consumed' = consumed /\ produced' = produced /\ seen' = seen
        /\ consumeDone' = consumeDone /\ chunk' = chunk /\ heard' = heard
        /\ cpc' = "read" /\ tpc = "start" /\ tpc' = "loop"
    BY <1>7 DEF StartCapture
  <2>2. (\A n : Block(n)' = Block(n)) /\ InUse' = InUse /\ BlocksInOrder'
    BY <2>1, OrderFrame
  <2>3. QED
    BY <1>t, <2>1, <2>2
<1>8. ASSUME NEW starved \in BOOLEAN, PullBlock(starved) PROVE OrderInv'
  <2>1. /\ blocks' = blocks /\ produced' = produced /\ seen' = seen /\ cpc' = cpc
        /\ chunk' = chunk /\ heard' = heard /\ tpc = "loop" /\ events > 0
        /\ consumed' = IF consumeDone THEN consumed + 1 ELSE consumed
        /\ (starved <=> produced - consumed' = 0) /\ consumeDone' = ~starved
        /\ tpc' = IF starved THEN "loop" ELSE "identify"
    BY <1>8 DEF PullBlock, Pull, HasEvent, IsEmpty
  <2>2. consumed' < produced /\ consumed < produced
    <3>1. CASE consumeDone
      BY <1>t, <1>r, <2>1, <3>1
    <3>2. CASE ~consumeDone
      BY <1>t, <1>r, <2>1, <3>2
    <3>3. QED
      BY <3>1, <3>2
  <2>3. consumeDone' /\ tpc' = "identify"
    <3>1. produced - consumed' # 0
      BY <1>t, <2>1, <2>2
    <3>2. QED
      BY <2>1, <3>1
  <2>4. \A n : Block(n)' = Block(n)
    BY <2>1 DEF Block
  <2>5. CASE ~consumeDone
    <3>1. consumed' = consumed /\ InUse' = InUse
      BY <2>1, <2>5 DEF InUse
    <3>2. Block(consumed) # <<>>
      BY <2>2, <2>5
    <3>3. BlocksInOrder'
      BY <2>1, <2>4, <3>1 DEF BlocksInOrder
    <3>4. HeardIsEarlier'
      BY <2>1, <2>3, <2>4, <3>1, <3>2
    <3>5. HeadGoesOn'
      BY <2>1, <2>3, <2>4, <3>1
    <3>6. QED
      BY <3>3, <3>4, <3>5
  <2>6. CASE consumeDone
    <3>1. consumed' = consumed + 1
      BY <2>1, <2>6
    <3>2. Block(consumed) = <<>>
      BY <2>1, <2>2, <2>6
    <3>3. Block(consumed + Size) = <<>>
      BY <1>t, <3>2, SlotOfNextLap DEF Block
    <3>4. \A n \in InUse' : n \in InUse \/ n = consumed + Size
      BY <1>t, <3>1 DEF InUse
    <3>5. \A n \in InUse' : n \in InUse \/ Block(n) = <<>>
      BY <3>3, <3>4
    <3>6. \A n \in InUse' : n > consumed' => n > consumed
      <4>1. \A n \in InUse' : n \in Nat
        <5>1. consumed + Size \in Nat
          BY <1>t
        <5>2. QED
          BY <1>t, <3>4, <5>1
      <4>2. \A n \in Nat : n > consumed + 1 => n > consumed
        BY <1>t
      <4>3. QED
        BY <3>1, <4>1, <4>2
    <3>7. consumed + Size < produced => FALSE
      BY <1>t, <1>r
    <3>8. consumed + 1 \in InUse /\ consumed + 1 > consumed
      BY <1>t, <1>r, <2>2, <3>1 DEF InUse
    <3>9. BlocksInOrder'
      <4>1. ASSUME NEW n \in InUse'
            PROVE  /\ Stretch(Block(n))
                   /\ n > produced => Block(n) = <<>>
                   /\ n > consumed' /\ n < produced => Block(n) # <<>>
                   /\ Block(n) # <<>> => LastOf(Block(n)) <= chunk
        <5>1. CASE n \in InUse
          BY <3>6, <5>1 DEF BlocksInOrder
        <5>2. CASE n = consumed + Size
          BY <3>3, <3>7, <5>2 DEF Stretch
        <5>3. QED
          BY <3>4, <5>1, <5>2
      <4>2. ASSUME NEW n \in InUse', NEW m \in InUse', n < m, Block(n) # <<>>, Block(m) # <<>>
            PROVE  LastOf(Block(n)) < Block(m)[1]
        BY <3>5, <4>2 DEF BlocksInOrder
      <4>3. QED
        BY <2>1, <2>4, <4>1, <4>2 DEF BlocksInOrder
    <3>10. HeardIsEarlier'
      <4>1. Block(consumed') # <<>>
        BY <2>2, <3>1, <3>8 DEF BlocksInOrder
      <4>2. \A n \in InUse' : Block(n) # <<>> => heard < Block(n)[1]
        BY <2>1, <3>5
      <4>3. Block(consumed)' = Block(consumed')
        BY <2>1 DEF Block
      <4>4. QED
        BY <2>1, <2>3, <2>4, <4>1, <4>2, <4>3
    <3>11. HeadGoesOn'
      <4>1. produced \in InUse' => produced \in InUse \/ (Block(produced) = <<>> /\ cpc # "push")
        <5>1. produced = consumed + Size => cpc # "push"
          BY <1>t, <1>r
        <5>2. QED
          BY <3>3, <3>4, <5>1
      <4>2. Block(produced)' = Block(produced)
        BY <2>1, <2>4
      <4>3. QED
        BY <2>1, <2>3, <2>4, <3>5, <4>1, <4>2
    <3>12. QED
      BY <3>9, <3>10, <3>11
  <2>7. QED
    BY <1>t, <2>5, <2>6
<1>9. CASE Identify
  <2> DEFINE b == Block(consumed)
  <2>1. /\ blocks' = blocks /\ consumed' = consumed /\ produced' = produced /\ seen' = seen
        /\ consumeDone' = consumeDone /\ chunk' = chunk /\ cpc' = cpc
        /\ tpc = "identify" /\ tpc' = "empty"
        /\ heard' = IF b = <<>> THEN heard ELSE b[Len(b)]
    BY <1>9 DEF Identify, PulledBlock, Block
  <2>2. (\A n : Block(n)' = Block(n)) /\ InUse' = InUse
    BY <2>1 DEF Block, InUse
  <2>3. consumed < produced
    BY <1>t, <1>r, <2>1
  <2>4. b # <<>>
    BY <2>1, <2>3
  <2>5. heard' = LastOf(b)
    <3>1. b \in Seq(Nat) /\ Stretch(b)
      BY <1>b, <1>t DEF BlocksInOrder
    <3> HIDE DEF b
    <3>2. Len(b) \in 1..Len(b)
      BY <2>4, <3>1
    <3>3. QED
      BY <2>1, <2>4, <3>1, <3>2 DEF Stretch, LastOf
  <2>6. BlocksInOrder'
    BY <2>1, <2>2 DEF BlocksInOrder
  <2>7. HeardIsEarlier'
    <3>1. \A n \in InUse : n # consumed => consumed < n
      BY <1>t DEF InUse
    <3>2. QED
      BY <1>t, <2>1, <2>2, <2>4, <2>5, <3>1 DEF BlocksInOrder
  <2>8. HeadGoesOn'
    BY <1>t, <2>1, <2>2, <2>4, <2>5
  <2>9. QED
    BY <2>6, <2>7, <2>8
<1>10. CASE EmptyBlock
  <2>1. /\ blocks' = [blocks EXCEPT ![Slot(consumed)] = <<>>]
        /\ consumed' = consumed /\ produced' = produced /\ seen' = seen
        /\ consumeDone' = consumeDone /\ chunk' = chunk /\ heard' = heard /\ cpc' = cpc
        /\ tpc = "empty" /\ tpc' = "loop"
    BY <1>10 DEF EmptyBlock, PulledBlock
  <2>2. consumed # produced /\ consumeDone
    BY <1>t, <1>r, <2>1
  <2>3. InUse' = InUse /\ \A n \in InUse : Block(n)' = IF n = consumed THEN <<>> ELSE Block(n)
    BY <1>t, <2>1, OtherBlocks DEF Block, InUse
  <2>4. Block(consumed)' = <<>> /\ (produced \in InUse => Block(produced)' = Block(produced))
    BY <1>t, <2>1, <2>2, <2>3
  <2>5. ~(consumed > produced) /\ ~(consumed > consumed)
    BY <1>t, <1>r
  <2>6. BlocksInOrder'
    <3>1. Stretch(<<>>)
      BY DEF Stretch
    <3>2. ASSUME NEW n \in InUse
          PROVE  /\ Stretch(Block(n)')
                 /\ n > produced => Block(n)' = <<>>
                 /\ n > consumed /\ n < produced => Block(n)' # <<>>
                 /\ Block(n)' # <<>> => LastOf(Block(n)') <= chunk
      BY <2>3, <2>5, <3>1 DEF BlocksInOrder
    <3>3. ASSUME NEW n \in InUse, NEW m \in InUse, n < m, Block(n)' # <<>>, Block(m)' # <<>>
          PROVE  LastOf(Block(n)') < Block(m)'[1]
      BY <2>3, <3>3 DEF BlocksInOrder
    <3>4. QED
      BY <2>1, <2>3, <3>2, <3>3 DEF BlocksInOrder
  <2>7. HeardIsEarlier'
    BY <1>t, <2>1, <2>2, <2>3, <2>4
  <2>8. HeadGoesOn'
    BY <2>1, <2>3, <2>4
  <2>9. QED
    BY <2>6, <2>7, <2>8
<1>11. CASE LeaveLoop
  <2>1. /\ blocks' = blocks /\ consumed' = consumed /\ produced' = produced /\ seen' = seen
        /\ consumeDone' = consumeDone /\ chunk' = chunk /\ heard' = heard /\ cpc' = cpc
        /\ tpc = "loop" /\ tpc' = "returned"
    BY <1>11 DEF LeaveLoop
  <2>2. (\A n : Block(n)' = Block(n)) /\ InUse' = InUse /\ BlocksInOrder'
    BY <2>1, OrderFrame
  <2>3. QED
    BY <1>t, <2>1, <2>2
<1>12. CASE Main \/ Terminated \/ UNCHANGED vars
  <2>1. /\ blocks' = blocks /\ consumed' = consumed /\ produced' = produced /\ seen' = seen
        /\ consumeDone' = consumeDone /\ chunk' = chunk /\ heard' = heard
        /\ cpc' = cpc /\ tpc' = tpc
    BY <1>12 DEF Main, StopCapture, JoinCapture, JoinTask, Terminated, vars
  <2>2. (\A n : Block(n)' = Block(n)) /\ InUse' = InUse /\ BlocksInOrder'
    BY <2>1, OrderFrame
  <2>3. QED
    BY <1>t, <2>1, <2>2
<1>13. QED
  BY <1>1, <1>2, <1>3, <1>4, <1>5, <1>6, <1>7, <1>8, <1>9, <1>10, <1>11, <1>12
  DEF Next, Capture, Task

\* OrderInv holds in every reachable state.
LEMMA OrderInvariant == Spec => []OrderInv
<1>1. QED
  BY OrderInit, OrderStep, TypeCorrect, RingInvariant, PTL DEF Spec

\* DoIdentification gives the recogniser one contiguous stretch of the
\* stream at a time, each later than all before it, however many chunks a
\* full ring made the capture thread drop and however stale its view of
\* mConsumed was.
THEOREM HeardOrder == Spec => []HeardInOrder
<1>1. TypeOK /\ RingInv /\ OrderInv => HeardInOrder
  <2> SUFFICES ASSUME TypeOK, RingInv, OrderInv, tpc = "identify"
               PROVE  LET b == blocks[PulledBlock]
                      IN  /\ b # <<>> /\ heard < b[1]
                          /\ \A i \in 1..Len(b) : b[i] = b[1] + i - 1
    BY DEF HeardInOrder
  <2>1. consumed \in Nat /\ produced \in Nat /\ events \in Nat /\ Size \in Nat \ {0}
    BY SizeAssumption DEF TypeOK
  <2>2. consumed < produced /\ consumed \in InUse
    BY <2>1 DEF RingInv, BacklogMatchesEvents, InUse
  <2>3. Block(consumed) # <<>> /\ heard < Block(consumed)[1] /\ Stretch(Block(consumed))
    BY <2>2 DEF OrderInv, HeardIsEarlier, BlocksInOrder
  <2>4. QED
    BY <2>3 DEF Block, PulledBlock, Stretch
<1>2. QED
  BY <1>1, TypeCorrect, RingInvariant, OrderInvariant, PTL
=============================================================================
