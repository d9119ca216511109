------------------------- MODULE StreamFramesProofs -------------------------
(***************************************************************************)
(* Proofs about StreamFrames for queues of every size and any number of    *)
(* frames and connections.  What carries them: frames wait in the order    *)
(* they were read, so those of earlier connections come first, and the     *)
(* counts give the number of them.                                         *)
(***************************************************************************)
EXTENDS StreamFrames, SequenceTheorems, TLAPS

\* While the hub waits for CONNECTED, everything it has read is from earlier
\* connections; nothing is ever from a later one.
FramesAreOld ==
  /\ phase \in {"waiting", "reading"} => conn >= 1
  /\ \A i \in 1..Len(queue) : queue[i].conn <= conn
  /\ hand # None => hand.conn <= conn
  /\ phase = "waiting" =>
       /\ \A i \in 1..Len(queue) : queue[i].conn < conn
       /\ hand # None => hand.conn < conn

\* The frame in hand is told apart like the waiting ones, unless overtaken.
HandTold ==
  phase = "reading" /\ hand # None /\ ~overtaken
    => (dequeued + 1 <= staleBefore <=> hand.conn < conn)

IInv ==
  /\ TypeOK
  /\ CountsAligned
  /\ staleBefore <= enqueued
  /\ FramesAreOld
  /\ PositionTellsConnection
  /\ HandTold

\* The three things that happen to the queue.
LEMMA AppendFacts ==
  ASSUME NEW q \in Seq(Frames), NEW f \in Frames
  PROVE  /\ Append(q, f) \in Seq(Frames)
         /\ Len(Append(q, f)) = Len(q) + 1
         /\ \A i \in 1..Len(q) : Append(q, f)[i] = q[i]
         /\ Append(q, f)[Len(q) + 1] = f
BY AppendProperties

LEMMA TailFacts ==
  ASSUME NEW q \in Seq(Frames), q # <<>>
  PROVE  /\ Head(q) \in Frames /\ Head(q) = q[1]
         /\ Tail(q) \in Seq(Frames)
         /\ Len(q) \in Nat \ {0} /\ Len(Tail(q)) = Len(q) - 1
         /\ \A i \in 1..Len(Tail(q)) : Tail(q)[i] = q[i + 1]
BY HeadTailProperties, EmptySeq

LEMMA ShiftFacts ==
  ASSUME NEW q \in Seq(Frames), q # <<>>, NEW f \in Frames
  PROVE  /\ Append(Tail(q), f) \in Seq(Frames)
         /\ Len(Append(Tail(q), f)) = Len(q)
         /\ \A i \in 1..(Len(q) - 1) : Append(Tail(q), f)[i] = q[i + 1]
         /\ Append(Tail(q), f)[Len(q)] = f
<1>1. Tail(q) \in Seq(Frames) /\ Len(q) \in Nat \ {0} /\ Len(Tail(q)) = Len(q) - 1
      /\ \A i \in 1..Len(Tail(q)) : Tail(q)[i] = q[i + 1]
  BY TailFacts
<1>2. /\ Append(Tail(q), f) \in Seq(Frames)
      /\ Len(Append(Tail(q), f)) = Len(Tail(q)) + 1
      /\ \A i \in 1..Len(Tail(q)) : Append(Tail(q), f)[i] = Tail(q)[i]
      /\ Append(Tail(q), f)[Len(Tail(q)) + 1] = f
  BY <1>1, AppendFacts
<1> QED
  BY <1>1, <1>2

LEMMA FrameOf ==
  ASSUME NEW f \in Frames PROVE f.kind \in Kinds /\ f.conn \in 1..MaxConns
BY DEF Frames

-----------------------------------------------------------------------------
\* A frame is read: it gets the position after all others.
LEMMA ReadKeeps ==
  ASSUME IInv, NEW kind \in Kinds, Read(kind) PROVE IInv'
<1> DEFINE f == [kind |-> kind, conn |-> conn]
<1>1. f \in Frames /\ f.conn = conn
  BY DEF IInv, TypeOK, FramesAreOld, Read, Frames
<1>2. queue \in Seq(Frames) /\ Len(queue) \in Nat
  BY LenProperties DEF IInv, TypeOK
<1>3. CASE Put(f)
  <2>1. /\ queue' = Append(queue, f)
        /\ queue' \in Seq(Frames)
        /\ Len(queue') = Len(queue) + 1
        /\ \A i \in 1..Len(queue) : queue'[i] = queue[i]
        /\ queue'[Len(queue) + 1] = f
    BY <1>1, <1>2, <1>3, AppendFacts DEF Put
  <2>2. TypeOK' /\ CountsAligned' /\ staleBefore' <= enqueued'
    BY <1>2, <1>3, <2>1, FramesAssumption
       DEF IInv, TypeOK, CountsAligned, Put, Read, connVars, InHand
  <2>3. FramesAreOld'
    BY <1>1, <1>2, <1>3, <2>1 DEF IInv, TypeOK, FramesAreOld, Put, Read, connVars
  <2>4. PositionTellsConnection'
    <3> SUFFICES ASSUME NEW i \in 1..Len(queue')
                 PROVE  dequeued + InHand + i <= staleBefore <=> queue'[i].conn < conn
      BY <1>3 DEF PositionTellsConnection, Put, Read, connVars, InHand
    <3>1. CASE i \in 1..Len(queue)
      BY <2>1, <3>1 DEF IInv, PositionTellsConnection, Read
    <3>2. CASE i = Len(queue) + 1
      <4>1. queue'[i].conn = conn
        BY <1>1, <2>1, <3>2
      <4>2. ~(dequeued + InHand + i <= staleBefore)
        BY <1>2, <3>2, FramesAssumption DEF IInv, TypeOK, CountsAligned, InHand
      <4> QED
        BY <4>1, <4>2 DEF IInv, TypeOK
    <3> QED
      BY <1>2, <2>1, <3>1, <3>2
  <2>5. HandTold'
    BY <1>3 DEF IInv, HandTold, Put, Read, connVars
  <2> QED
    BY <2>2, <2>3, <2>4, <2>5 DEF IInv
<1>4. CASE Evict(f)
  <2>0. queue # <<>>
    BY <1>2, <1>4, FramesAssumption, EmptySeq DEF Evict
  <2>1. /\ queue' = Append(Tail(queue), f)
        /\ queue' \in Seq(Frames)
        /\ Len(queue') = Len(queue)
        /\ \A i \in 1..(Len(queue) - 1) : queue'[i] = queue[i + 1]
        /\ queue'[Len(queue)] = f
    BY <1>1, <1>2, <1>4, <2>0, ShiftFacts DEF Evict
  <2>2. TypeOK' /\ CountsAligned' /\ staleBefore' <= enqueued'
    BY <1>2, <1>4, <2>1, FramesAssumption
       DEF IInv, TypeOK, CountsAligned, Evict, Read, connVars, InHand
  <2>3. FramesAreOld'
    BY <1>1, <1>2, <1>4, <2>1 DEF IInv, TypeOK, FramesAreOld, Evict, Read, connVars
  <2>4. PositionTellsConnection'
    <3> SUFFICES ASSUME NEW i \in 1..Len(queue)
                 PROVE  dequeued + 1 + InHand + i <= staleBefore
                          <=> queue'[i].conn < conn
      BY <1>4, <2>1 DEF PositionTellsConnection, Evict, Read, connVars, InHand
    <3>1. CASE i \in 1..(Len(queue) - 1)
      <4>1. i + 1 \in 1..Len(queue) /\ queue'[i] = queue[i + 1]
        BY <1>2, <2>1, <3>1
      <4>2. dequeued + InHand + (i + 1) <= staleBefore <=> queue[i + 1].conn < conn
        BY <4>1 DEF IInv, PositionTellsConnection, Read
      <4> QED
        BY <4>1, <4>2 DEF IInv, TypeOK, InHand
    <3>2. CASE i = Len(queue)
      <4>1. queue'[i].conn = conn
        BY <1>1, <2>1, <3>2
      <4>2. ~(dequeued + 1 + InHand + i <= staleBefore)
        BY <1>2, <3>2, FramesAssumption DEF IInv, TypeOK, CountsAligned, InHand
      <4> QED
        BY <4>1, <4>2 DEF IInv, TypeOK
    <3> QED
      BY <1>2, <3>1, <3>2
  <2>5. HandTold'
    BY <1>4 DEF HandTold, Evict, Read
  <2> QED
    BY <2>2, <2>3, <2>4, <2>5 DEF IInv
<1> QED
  BY <1>3, <1>4 DEF Read

\* A frame is taken in hand: it keeps its position.
LEMMA TakeKeeps ==
  ASSUME IInv, Take PROVE IInv'
<1>1. queue \in Seq(Frames) /\ queue # <<>> /\ hand = None
  BY DEF IInv, TypeOK, Take
<1>2. /\ hand' \in Frames /\ hand' = queue[1]
      /\ queue' \in Seq(Frames)
      /\ Len(queue) \in Nat \ {0} /\ Len(queue') = Len(queue) - 1
      /\ \A i \in 1..Len(queue') : queue'[i] = queue[i + 1]
  BY <1>1, TailFacts DEF Take
<1>3. InHand = 0 /\ InHand' = 1
  BY <1>1, <1>2, FramesAssumption DEF InHand
<1>4. TypeOK' /\ CountsAligned' /\ staleBefore' <= enqueued'
  <2>1. UNCHANGED <<conn, phase, closing, enqueued, dequeued, staleBefore, connected>>
        /\ overtaken' = FALSE
    BY DEF Take, connVars, countVars
  <2>2. TypeOK'
    <3>1. closing' \in BOOLEAN /\ overtaken' \in BOOLEAN /\ connected' \in BOOLEAN
      BY <2>1, Zenon DEF IInv, TypeOK
    <3>2. Len(queue') <= QueueSize
      BY <1>2, FramesAssumption DEF IInv, TypeOK
    <3> QED
      BY <1>2, <2>1, <3>1, <3>2 DEF IInv, TypeOK
  <2>3. CountsAligned'
    BY <1>2, <1>3, <2>1 DEF IInv, TypeOK, CountsAligned
  <2> QED
    BY <2>1, <2>2, <2>3 DEF IInv
<1>5. FramesAreOld'
  BY <1>1, <1>2, FramesAssumption DEF IInv, FramesAreOld, Take, connVars
<1>6. PositionTellsConnection'
  <2> SUFFICES ASSUME phase = "reading", NEW i \in 1..Len(queue')
               PROVE  dequeued + 1 + i <= staleBefore <=> queue'[i].conn < conn
    BY <1>3 DEF PositionTellsConnection, Take, connVars, countVars
  <2>1. i + 1 \in 1..Len(queue) /\ queue'[i] = queue[i + 1]
    BY <1>2
  <2>2. dequeued + 0 + (i + 1) <= staleBefore <=> queue[i + 1].conn < conn
    BY <1>3, <2>1 DEF IInv, PositionTellsConnection
  <2> QED
    BY <1>2, <2>1, <2>2 DEF IInv, TypeOK
<1>7. HandTold'
  <2> SUFFICES ASSUME phase = "reading"
               PROVE  dequeued + 1 <= staleBefore <=> queue[1].conn < conn
    BY <1>2 DEF HandTold, Take, connVars, countVars
  <2>1. dequeued + 0 + 1 <= staleBefore <=> queue[1].conn < conn
    BY <1>2, <1>3 DEF IInv, PositionTellsConnection
  <2> QED
    BY <2>1 DEF IInv, TypeOK
<1> QED
  BY <1>4, <1>5, <1>6, <1>7 DEF IInv

\* The frame in hand is counted: the others keep their positions.
LEMMA ProcessKeeps ==
  ASSUME IInv, Process PROVE IInv'
<1>1. InHand = 1 /\ InHand' = 0 /\ Len(queue) \in Nat
  BY LenProperties DEF IInv, TypeOK, Process, InHand
<1>2. connected' \in BOOLEAN /\ closing' \in BOOLEAN
  <2>1. CASE hand.kind = "down" /\ ~JudgedStale
    BY <2>1 DEF IInv, TypeOK, Process, RequestReconnect
  <2>2. CASE ~(hand.kind = "down" /\ ~JudgedStale)
    BY <2>2 DEF IInv, TypeOK, Process
  <2> QED
    BY <2>1, <2>2
<1>3. dequeued' \in 0..MaxFrames
  BY <1>1, FramesAssumption DEF IInv, TypeOK, CountsAligned, Process
<1>4. TypeOK'
  BY <1>2, <1>3 DEF IInv, TypeOK, Process
<1>5. CountsAligned' /\ staleBefore' <= enqueued'
  BY <1>1 DEF IInv, TypeOK, CountsAligned, Process
<1>6. FramesAreOld'
  BY DEF IInv, FramesAreOld, Process
<1>7. PositionTellsConnection'
  BY <1>1 DEF IInv, TypeOK, PositionTellsConnection, Process
<1>8. HandTold'
  BY DEF HandTold, Process
<1> QED
  BY <1>4, <1>5, <1>6, <1>7, <1>8 DEF IInv

\* The new connection is read from now on: all that waits is from earlier ones,
\* and its positions are those up to the count of frames read.
LEMMA WaitEndsKeeps ==
  ASSUME IInv, WaitEnds PROVE IInv'
<1>1. Len(queue) \in Nat
  BY LenProperties DEF IInv, TypeOK
<1>2. TypeOK' /\ CountsAligned' /\ staleBefore' <= enqueued'
  BY DEF IInv, TypeOK, CountsAligned, InHand, WaitEnds
<1>3. FramesAreOld'
  BY DEF IInv, FramesAreOld, WaitEnds
<1>4. PositionTellsConnection'
  BY <1>1 DEF IInv, TypeOK, CountsAligned, FramesAreOld, PositionTellsConnection,
     InHand, WaitEnds
<1>5. HandTold'
  BY <1>1 DEF IInv, TypeOK, CountsAligned, FramesAreOld, HandTold, InHand, WaitEnds
<1> QED
  BY <1>2, <1>3, <1>4, <1>5 DEF IInv

\* A new connection is later than every frame read so far.
LEMMA ConnectKeeps ==
  ASSUME IInv, Connect PROVE IInv'
<1>1. \A i \in 1..Len(queue) : queue[i].conn \in Nat
  BY ElementOfSeq, FrameOf, FramesAssumption DEF IInv, TypeOK
<1>2. hand # None => hand.conn \in Nat
  BY FrameOf, FramesAssumption DEF IInv, TypeOK
<1>3. TypeOK' /\ CountsAligned' /\ staleBefore' <= enqueued'
  <2>1. UNCHANGED <<queue, hand, overtaken, enqueued, dequeued, staleBefore>>
    BY DEF Connect, countVars
  <2>2. conn' \in 0..MaxConns
    BY FramesAssumption DEF IInv, TypeOK, Connect
  <2> QED
    BY <2>1, <2>2 DEF IInv, TypeOK, CountsAligned, InHand, Connect
<1>4. FramesAreOld'
  BY <1>1, <1>2, FramesAssumption DEF IInv, TypeOK, FramesAreOld, Connect
<1>5. PositionTellsConnection' /\ HandTold'
  BY DEF PositionTellsConnection, HandTold, Connect
<1> QED
  BY <1>3, <1>4, <1>5 DEF IInv

\* The connection ends, for now or for good: nothing of the queue changes.
LEMMA DownKeeps ==
  ASSUME IInv, ConnectionEnds \/ Stop PROVE IInv'
<1>1. TypeOK' /\ CountsAligned' /\ staleBefore' <= enqueued'
  BY DEF IInv, TypeOK, CountsAligned, InHand, ConnectionEnds, Stop, countVars
<1>2. FramesAreOld' /\ PositionTellsConnection' /\ HandTold'
  BY DEF IInv, FramesAreOld, PositionTellsConnection, HandTold, ConnectionEnds, Stop
<1> QED
  BY <1>1, <1>2 DEF IInv

-----------------------------------------------------------------------------
\* The inductive invariant of the hub's frame counting holds throughout
\* (_enqueue_raw_frame, _consume, _process_messages).
THEOREM Invariance == Spec => []IInv
<1>1. Init => IInv
  <2> SUFFICES ASSUME Init PROVE IInv
    OBVIOUS
  <2>1. queue \in Seq(Frames) /\ Len(queue) = 0
    BY EmptySeq DEF Init
  <2>2. closing \in BOOLEAN /\ overtaken \in BOOLEAN /\ connected \in BOOLEAN
    BY Zenon DEF Init
  <2>3. TypeOK
    BY <2>1, <2>2, FramesAssumption DEF Init, TypeOK
  <2>4. CountsAligned /\ staleBefore <= enqueued
    BY <2>1, FramesAssumption DEF Init, CountsAligned, InHand
  <2>5. FramesAreOld /\ PositionTellsConnection /\ HandTold
    BY <2>1 DEF Init, FramesAreOld, PositionTellsConnection, HandTold
  <2> QED
    BY <2>3, <2>4, <2>5 DEF IInv
<1>2. IInv /\ [Next]_vars => IInv'
  <2> SUFFICES ASSUME IInv, [Next]_vars PROVE IInv'
    OBVIOUS
  <2>1. CASE UNCHANGED vars
    BY <2>1 DEF IInv, TypeOK, CountsAligned, FramesAreOld, PositionTellsConnection,
       HandTold, InHand, vars, connVars, countVars
  <2> QED
    BY <2>1, ReadKeeps, TakeKeeps, ProcessKeeps, WaitEndsKeeps, ConnectKeeps,
       DownKeeps DEF Next
<1> QED
  BY <1>1, <1>2, PTL DEF Spec

\* The counters stay within their bounds and the queue within its size, for every
\* queue size (the queue of _enqueue_raw_frame never grows past WS_MAX_QUEUE).
THEOREM FramesTypeCorrect == Spec => []TypeOK
BY Invariance, PTL DEF IInv

\* Every frame put on the queue is counted off, waiting or in hand: evictions
\* keep "the stale-frame position counting aligned" (_enqueue_raw_frame).
THEOREM CountingStaysAligned == Spec => []CountsAligned
BY Invariance, PTL DEF IInv

\* While a connection is read, a waiting frame's position tells whether it came
\* from an earlier one (_stale_frames_before).
THEOREM PositionsTell == Spec => []PositionTellsConnection
BY Invariance, PTL DEF IInv

\* All that the counters of the hub promise, for every queue size.
THEOREM FramesAreSafe == Spec => []FramesSafe
BY Invariance, PTL DEF IInv, FramesSafe

\* The test of _process_messages takes a STATUS frame for stale exactly when it
\* was read from an earlier connection, once the hub is past its wait for
\* CONNECTED and unless frames were evicted while this one was in hand.
THEOREM StatusIsJudgedRight == Spec => StatusJudgedRight
<1>1. IInv /\ [Next]_vars =>
        [Process /\ phase = "reading" /\ ~overtaken
           => (JudgedStale <=> hand.conn < conn)]_vars
  BY DEF IInv, HandTold, JudgedStale, Process
<1> QED
  BY <1>1, Invariance, PTL DEF Spec, StatusJudgedRight
=============================================================================
