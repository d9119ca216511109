---------------------------- MODULE StreamFrames ----------------------------
(***************************************************************************)
(* The frames of ThetaStreamHub (provider.py) between the one WebSocket to *)
(* Theta Terminal and their handling.  _consume reads a frame and puts it  *)
(* on a bounded queue; _process_messages, which outlives every connection, *)
(* takes it off again.  A STATUS frame that is not CONNECTED makes it ask  *)
(* for a reconnect, unless the frame was read from an earlier connection:  *)
(* frames are told apart by their position in the queue's whole history.   *)
(*                                                                         *)
(* A frame keeps its kind and the connection it was read from.             *)
(***************************************************************************)
EXTENDS Naturals, Sequences

CONSTANTS
  QueueSize,  \* WS_MAX_QUEUE
  MaxFrames,  \* bound: frames put on the queue
  MaxConns,   \* bound: connections opened
  None        \* no frame in hand

\* "up" and "down" are STATUS frames: CONNECTED and anything else.  "trade"
\* stands for TRADE and REQ_RESPONSE, which evict like a STATUS frame.
Kinds == {"quote", "trade", "up", "down"}
Frames == [kind : Kinds, conn : 1..MaxConns]

ASSUME FramesAssumption ==
  /\ QueueSize \in Nat \ {0} /\ MaxFrames \in Nat /\ MaxConns \in Nat
  /\ None \notin Frames

VARIABLES
  conn,         \* number of the current connection, or of the last one
  phase,        \* "down", "waiting" in _wait_for_terminal_connected, "reading",
                \* or "stopped" for good
  closing,      \* request_reconnect has scheduled the close of connection conn
  queue,        \* _message_queue
  hand,         \* the frame _process_messages has taken but not yet counted
  overtaken,    \* a frame was evicted while it was in hand (history)
  enqueued,     \* _frames_enqueued
  dequeued,     \* _frames_dequeued
  staleBefore,  \* _stale_frames_before
  connected     \* _terminal_connected

connVars == <<conn, phase, closing>>
countVars == <<enqueued, dequeued, staleBefore>>
vars == <<connVars, queue, hand, overtaken, countVars, connected>>

InHand == IF hand = None THEN 0 ELSE 1

TypeOK ==
  /\ conn \in 0..MaxConns
  /\ phase \in {"down", "waiting", "reading", "stopped"}
  /\ closing \in BOOLEAN /\ overtaken \in BOOLEAN /\ connected \in BOOLEAN
  /\ queue \in Seq(Frames) /\ Len(queue) <= QueueSize
  /\ hand \in Frames \cup {None}
  /\ enqueued \in 0..MaxFrames /\ dequeued \in 0..MaxFrames
  /\ staleBefore \in 0..MaxFrames

Init ==
  /\ conn = 0 /\ phase = "down" /\ closing = FALSE
  /\ queue = <<>> /\ hand = None /\ overtaken = FALSE
  /\ enqueued = 0 /\ dequeued = 0 /\ staleBefore = 0
  /\ connected = FALSE

-----------------------------------------------------------------------------
\* The connection.

\* _connect_and_consume: the new socket is the active one before the wait.
Connect ==
  /\ phase = "down" /\ conn < MaxConns
  /\ conn' = conn + 1
  /\ phase' = "waiting"
  /\ closing' = FALSE
  /\ connected' = FALSE
  /\ UNCHANGED <<queue, hand, overtaken, countVars>>

\* Mutant: the frames handled so far, not those read, are the stale ones.
WaitEndsAtDequeued ==
  /\ phase = "waiting"
  /\ phase' = "reading"
  /\ connected' = TRUE
  /\ staleBefore' = dequeued
  /\ UNCHANGED <<conn, closing, queue, hand, overtaken, enqueued, dequeued>>

\* _wait_for_terminal_connected reads frames past the queue until one says
\* CONNECTED, or gives up; what the queue still holds is stale from now on.
WaitEnds ==
  /\ phase = "waiting"
  /\ phase' = "reading"
  /\ connected' = TRUE
  /\ staleBefore' = enqueued
  /\ UNCHANGED <<conn, closing, queue, hand, overtaken, enqueued, dequeued>>

\* The socket is closed, by request_reconnect or by anything else.
ConnectionEnds ==
  /\ phase \in {"waiting", "reading"}
  /\ phase' = "down"
  /\ closing' = FALSE
  /\ UNCHANGED <<conn, queue, hand, overtaken, countVars, connected>>

\* stop cancels every task of the hub.
Stop ==
  /\ phase # "stopped"
  /\ phase' = "stopped"
  /\ closing' = FALSE
  /\ UNCHANGED <<conn, queue, hand, overtaken, countVars, connected>>

-----------------------------------------------------------------------------
\* The reader: _enqueue_raw_frame.

\* Mutant: the queue has no bound.
PutUnbounded(f) ==
  /\ queue' = Append(queue, f)
  /\ enqueued' = enqueued + 1
  /\ UNCHANGED <<dequeued, overtaken>>

Put(f) ==
  /\ Len(queue) < QueueSize
  /\ queue' = Append(queue, f)
  /\ enqueued' = enqueued + 1
  /\ UNCHANGED <<dequeued, overtaken>>

\* Mutant: the evicted frame is not counted.
EvictUncounted(f) ==
  /\ Len(queue) = QueueSize /\ f.kind # "quote"
  /\ queue' = Append(Tail(queue), f)
  /\ enqueued' = enqueued + 1
  /\ overtaken' = (hand # None)
  /\ UNCHANGED dequeued

\* A full queue: anything but a QUOTE takes the place of the oldest frame.
Evict(f) ==
  /\ Len(queue) = QueueSize /\ f.kind # "quote"
  /\ queue' = Append(Tail(queue), f)
  /\ enqueued' = enqueued + 1
  /\ dequeued' = dequeued + 1
  /\ overtaken' = (hand # None)

Read(kind) ==
  /\ phase = "reading"
  /\ enqueued < MaxFrames
  /\ LET f == [kind |-> kind, conn |-> conn] IN Put(f) \/ Evict(f)
  /\ UNCHANGED <<connVars, hand, staleBefore, connected>>

-----------------------------------------------------------------------------
\* The processor: a frame is taken, every 64th time the event loop is handed
\* over, then the frame is counted and judged.
Take ==
  /\ phase # "stopped"
  /\ hand = None /\ queue # <<>>
  /\ hand' = Head(queue)
  /\ queue' = Tail(queue)
  /\ overtaken' = FALSE
  /\ UNCHANGED <<connVars, countVars, connected>>

\* Mutant: the last frame of the old connection counts as new.
JudgedStaleOffByOne == dequeued + 1 < staleBefore

JudgedStale == dequeued + 1 <= staleBefore

\* request_reconnect: a no-op while no socket is active.
RequestReconnect == closing' = (phase # "down")

Process ==
  /\ phase # "stopped"
  /\ hand # None
  /\ dequeued' = dequeued + 1
  /\ hand' = None
  /\ overtaken' = FALSE
  /\ IF hand.kind = "down" /\ ~JudgedStale
     THEN RequestReconnect ELSE UNCHANGED closing
  /\ connected' = IF hand.kind \in {"up", "down"} /\ ~JudgedStale
                  THEN hand.kind = "up" ELSE connected
  /\ UNCHANGED <<conn, phase, queue, enqueued, staleBefore>>

Next ==
  \/ Connect \/ WaitEnds \/ ConnectionEnds \/ Stop
  \/ \E kind \in Kinds : Read(kind)
  \/ Take \/ Process

Spec == Init /\ [][Next]_vars

\* The processor's task always runs again, a scheduled close lands.
Fairness ==
  /\ WF_vars(Take) /\ WF_vars(Process)
  /\ WF_vars(closing /\ ConnectionEnds)

FairSpec == Spec /\ Fairness

-----------------------------------------------------------------------------
\* "keeps the stale-frame position counting aligned" (_enqueue_raw_frame): every
\* frame put on the queue is counted off, waiting, or in hand, evictions included.
CountsAligned == enqueued = dequeued + Len(queue) + InHand

\* While a connection is read, the position of a waiting frame tells exactly
\* whether it came from an earlier connection (_stale_frames_before).
PositionTellsConnection ==
  phase = "reading" =>
    \A i \in 1..Len(queue) :
      dequeued + InHand + i <= staleBefore <=> queue[i].conn < conn

\* A STATUS frame read from the live connection is never taken for a stale one;
\* one from a dead connection never closes the connection that is read, unless
\* frames were evicted while it was in hand.
StatusJudgedRight ==
  [][Process /\ phase = "reading" /\ ~overtaken
     => (JudgedStale <=> hand.conn < conn)]_vars

\* A DISCONNECTED read from the live connection takes it down, unless the frame
\* is evicted before it is handled.
DisconnectReconnects ==
  \A c \in 1..MaxConns :
    (phase = "reading" /\ conn = c /\ hand = [kind |-> "down", conn |-> c])
      ~> (phase # "reading" \/ conn > c)

\* "a STATUS frame still sitting in _message_queue from a connection that
\* already died is not mistaken for news about the new one (it would force a
\* second, pointless reconnect)" (ThetaStreamHub.__init__).
StaleStatusIgnored ==
  [][Process /\ hand.conn < conn => closing' = closing]_vars

\* The counters of the hub are right: they count every frame off, waiting or in
\* hand, and so tell the frames of one connection from those of another.
FramesSafe == TypeOK /\ CountsAligned /\ PositionTellsConnection
=============================================================================
