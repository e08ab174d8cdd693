--------------------------- MODULE StreamMonitor ---------------------------
(***************************************************************************)
(* Monitoring of an audio stream: StreamMonitoringTask over RingBuffer and *)
(* AudioSource.  Three threads:                                            *)
(*                                                                         *)
(*   capture  AudioSource::CaptureThread reads chunks of audio from a pipe *)
(*            and accumulates them in the head block of the ring; a block  *)
(*            long enough is pushed and an event posted for it;            *)
(*   task     opens the source, starts the capture thread and runs the     *)
(*            event loop: every event pulls a block and identifies it;     *)
(*   main     terminates the task and waits for the threads.               *)
(*                                                                         *)
(* Audio chunks are numbered in the order they are read from the pipe.     *)
(***************************************************************************)
EXTENDS RingBuffer

CONSTANTS
  BlockChunks,     \* chunks that make a block long enough at the latest
  MaxChunks        \* bound: chunks followed through the ring

ASSUME MonitorAssumption ==
  BlockChunks \in Nat \ {0} /\ MaxChunks \in Nat

VARIABLES
  stop, loopStopped, events,   \* m_StopCapture; the event loop and its queue
  cpc, tpc, mpc,               \* where each thread is
  chunk,                       \* the chunk the capture thread read last
  heard                        \* history: the last chunk identified

control == <<stop, loopStopped, events>>
vars    == <<ring, control, cpc, tpc, mpc, chunk, heard>>

Init ==
  /\ InitRing
  /\ stop = FALSE /\ loopStopped = FALSE /\ events = 0
  /\ cpc = "none" /\ tpc = "open" /\ mpc = "run"
  /\ chunk = 0 /\ heard = 0

\* The block the producer fills, and the block being identified.
HeadBlock == Slot(produced)

PulledBlock == Slot(consumed)

-----------------------------------------------------------------------------
(* The capture thread.                                                     *)

\* The loop goes on whatever the flag says.
Bug_FlagIgnored == FALSE

\* The loop condition: the thread has been told to stop.
Told == stop

ReadPipe ==
  /\ cpc = "read" /\ ~Told /\ chunk < MaxChunks
  /\ chunk' = chunk + 1 /\ cpc' = "head"
  /\ UNCHANGED <<ring, control, tpc, mpc, heard>>

\* The pipe goes on giving audio: chunks after MaxChunks are read, each in a
\* turn of the loop, and not followed through the ring.
ReadBeyond ==
  /\ cpc = "read" /\ ~Told /\ chunk = MaxChunks
  /\ cpc' = "beyond"
  /\ UNCHANGED <<ring, control, tpc, mpc, chunk, heard>>

NextTurn ==
  /\ cpc = "beyond"
  /\ cpc' = "read"
  /\ UNCHANGED <<ring, control, tpc, mpc, chunk, heard>>

LeaveCapture ==
  /\ cpc = "read" /\ Told
  /\ cpc' = "ended"
  /\ UNCHANGED <<ring, control, tpc, mpc, chunk, heard>>

\* The read fails or gives nothing, which it need never do.
PipeEnds ==
  /\ cpc = "read" /\ ~Told
  /\ cpc' = "ended"
  /\ UNCHANGED <<ring, control, tpc, mpc, chunk, heard>>

\* OnAudioSourceData: take the head block, or drop the chunk.
TakeHead(full) ==
  /\ cpc = "head"
  /\ GetHead(full)
  /\ cpc' = IF full THEN "read" ELSE "append"
  /\ UNCHANGED <<control, tpc, mpc, chunk, heard>>

\* Chunks vary in length: a block may be long enough before BlockChunks.
AppendChunk(long) ==
  /\ cpc = "append"
  /\ blocks' = [blocks EXCEPT ![HeadBlock] = Append(@, chunk)]
  /\ long \/ Len(blocks'[HeadBlock]) < BlockChunks
  /\ cpc' = IF long THEN "push" ELSE "read"
  /\ UNCHANGED <<consumed, produced, consumeDone, seen, control, tpc, mpc, chunk, heard>>

\* An event is posted for the first block of a backlog only.
Bug_PostWhenEmpty(pushed) == IF pushed /\ IsEmpty(consumed) THEN events + 1 ELSE events

Post(pushed) == IF pushed THEN events + 1 ELSE events

PushBlock(pushed) ==
  /\ cpc = "push"
  /\ Push(pushed)
  /\ events' = Post(pushed)
  /\ cpc' = "read"
  /\ UNCHANGED <<stop, loopStopped, tpc, mpc, chunk, heard>>

-----------------------------------------------------------------------------
(* The task thread: Run and DoIdentification.                              *)

\* AudioSourceDevice::Open clears the stop flag.
OpenSource ==
  /\ tpc = "open"
  /\ stop' = FALSE /\ tpc' = "start"
  /\ UNCHANGED <<ring, loopStopped, events, cpc, mpc, chunk, heard>>

StartCapture ==
  /\ tpc = "start"
  /\ cpc' = "read" /\ tpc' = "loop"
  /\ UNCHANGED <<ring, control, mpc, chunk, heard>>

HasEvent == events > 0

PullBlock(starved) ==
  /\ tpc = "loop" /\ ~loopStopped /\ HasEvent
  /\ events' = events - 1
  /\ Pull(starved)
  /\ tpc' = IF starved THEN "loop" ELSE "identify"
  /\ UNCHANGED <<stop, loopStopped, cpc, mpc, chunk, heard>>

\* Normalize copies the block for the recogniser.
Identify ==
  /\ tpc = "identify"
  /\ heard' = IF blocks[PulledBlock] = <<>> THEN heard ELSE blocks[PulledBlock][Len(blocks[PulledBlock])]
  /\ tpc' = "empty"
  /\ UNCHANGED <<ring, control, cpc, mpc, chunk>>

\* The block keeps its audio.
Bug_BlockNotEmptied ==
  /\ tpc = "empty"
  /\ tpc' = "loop"
  /\ UNCHANGED <<ring, control, cpc, mpc, chunk, heard>>

\* Resize(0): the block is left empty for the producer.
EmptyBlock ==
  /\ tpc = "empty"
  /\ blocks' = [blocks EXCEPT ![PulledBlock] = <<>>]
  /\ tpc' = "loop"
  /\ UNCHANGED <<consumed, produced, consumeDone, seen, control, cpc, mpc, chunk, heard>>

LeaveLoop ==
  /\ tpc = "loop" /\ loopStopped
  /\ tpc' = "returned"
  /\ UNCHANGED <<ring, control, cpc, mpc, chunk, heard>>

-----------------------------------------------------------------------------
(* The main thread: Terminate, then the join of the task thread.           *)

\* StopCapture sets the flag, then joins.  The flag may be set before there
\* is a thread to join, the join being reached when there is one (before, it
\* would go through a null pointer).
StopCapture ==
  /\ mpc = "run"
  /\ stop' = TRUE /\ mpc' = "join"
  /\ UNCHANGED <<ring, loopStopped, events, cpc, tpc, chunk, heard>>

\* The event loop is not told to stop.
Bug_LoopNotStopped ==
  /\ mpc = "join" /\ cpc = "ended"
  /\ stop' = TRUE /\ mpc' = "joinTask"
  /\ UNCHANGED <<ring, loopStopped, events, cpc, tpc, chunk, heard>>

\* Close sets the flag again before the event loop is stopped.
JoinCapture ==
  /\ mpc = "join" /\ cpc = "ended"
  /\ stop' = TRUE /\ loopStopped' = TRUE /\ mpc' = "joinTask"
  /\ UNCHANGED <<ring, events, cpc, tpc, chunk, heard>>

JoinTask ==
  /\ mpc = "joinTask" /\ tpc = "returned"
  /\ mpc' = "done"
  /\ UNCHANGED <<ring, control, cpc, tpc, chunk, heard>>

Terminated ==
  /\ mpc = "done"
  /\ UNCHANGED vars

-----------------------------------------------------------------------------
Capture ==
  \/ ReadPipe
  \/ ReadBeyond
  \/ NextTurn
  \/ LeaveCapture
  \/ \E full \in BOOLEAN : TakeHead(full)
  \/ \E long \in BOOLEAN : AppendChunk(long)
  \/ \E pushed \in BOOLEAN : PushBlock(pushed)

Task ==
  \/ OpenSource
  \/ StartCapture
  \/ \E starved \in BOOLEAN : PullBlock(starved)
  \/ Identify
  \/ EmptyBlock
  \/ LeaveLoop

Main == StopCapture \/ JoinCapture \/ JoinTask

Next == Capture \/ PipeEnds \/ Task \/ Main \/ Terminated

\* Threads that can run do run, and a blocked read of the pipe returns;
\* nothing makes the pipe end, nor the user terminate the task.
Fairness ==
  /\ WF_vars(Capture) /\ WF_vars(Task)
  /\ WF_vars(JoinCapture) /\ WF_vars(JoinTask)

Spec == Init /\ [][Next]_vars /\ Fairness

-----------------------------------------------------------------------------
(* Properties.                                                             *)

\* The type of the counters, the blocks and the threads' positions.
TypeOK ==
  /\ consumed \in Nat /\ produced \in Nat /\ seen \in Nat /\ consumeDone \in BOOLEAN
  /\ events \in Nat /\ stop \in BOOLEAN /\ loopStopped \in BOOLEAN
  /\ chunk \in Nat /\ heard \in Nat
  /\ blocks \in [0..(Size - 1) -> Seq(Nat)]
  /\ cpc \in {"none", "read", "beyond", "head", "append", "push", "ended"}
  /\ tpc \in {"open", "start", "loop", "identify", "empty", "returned"}
  /\ mpc \in {"run", "join", "joinTask", "done"}

\* The two threads never work on the same block: OnAudioSourceData appends
\* to the head while DoIdentification reads and empties the one it pulled,
\* with no lock (RingBuffer.h defers the count of a consumed block for it).
NoSharedBlock ==
  ~(cpc \in {"append", "push"} /\ tpc \in {"identify", "empty"} /\ HeadBlock = PulledBlock)

\* The backlog never exceeds the ring, and the events posted are exactly the
\* blocks pushed and not yet pulled: an event never finds the ring empty,
\* and no pushed block is left without an event.
BacklogMatchesEvents ==
  /\ consumed <= produced /\ produced <= consumed + Size
  /\ events + (IF consumeDone THEN 1 ELSE 0) = produced - consumed

\* A block given to the recogniser is one contiguous stretch of the stream,
\* later than all it was given before, however many chunks the overflowing
\* ring dropped and however often the block was used before.
HeardInOrder ==
  tpc = "identify" =>
    LET b == blocks[PulledBlock]
    IN  /\ b # <<>> /\ heard < b[1]
        /\ \A i \in 1..Len(b) : b[i] = b[1] + i - 1

\* A full ring gets a free block again, unless the task is terminated: the
\* drops of an overflow are not for ever.
FullRingDrains == IsFull(consumed) ~> (~IsFull(consumed) \/ loopStopped)

\* Terminate returns: the capture thread, which audio never stops coming to,
\* sees the flag and ends, the event loop is left, both threads are joined.
\* The only thing that can prevent it is that the source is opened, and the
\* flag cleared, after Terminate has set it.
TerminateReturns == mpc = "join" ~> (mpc = "done" \/ (mpc = "join" /\ ~stop))

-----------------------------------------------------------------------------
(* A statement the code does not keep (README, section 5): no run has it.   *)

\* Terminate returns whenever it is called ("Wait for the audio thread to
\* finish and stop the event loop.", example4.h:127).
AlwaysReturns == mpc = "join" ~> mpc = "done"
=============================================================================
