----------------------- MODULE ProcessorCountsProofs -----------------------
(***************************************************************************)
(* Proofs about the two counts the stream processor adds up and stores:    *)
(* the volume of a contract (CumulativeVolume), for any number of dates    *)
(* and trades, and the flow of a minute (FlowFlush), for any number of     *)
(* minutes and trades, any batch size and any cap.                         *)
(*                                                                         *)
(* What carries the volume: whatever holds a figure on its way to the      *)
(* table -- a counter, the copy of a save, what was resumed -- holds no    *)
(* more than was received, and the processor's counter is empty until it   *)
(* has resumed.  The accounting of the flow is inductive as it stands: its *)
(* type invariant's todo \subseteq Buckets(rows) is what makes the         *)
(* hand-over of a new flush safe, since an idle flush (rows = Empty) then  *)
(* has no batch left.                                                      *)
(***************************************************************************)
EXTENDS CumulativeVolume, FlowFlush, TLAPS

-----------------------------------------------------------------------------
\* The volume of a contract.

\* A figure that may still become the stored one is covered by trades received.
NoneMadeUp ==
  /\ traded <= received /\ seed <= received
  /\ \A w \in Writers : count[w] <= received
  /\ \A w \in Writers : copy[w] # None => copy[w] <= received

\* A save is stamped after it has copied something.
StampHasCopy == \A w \in Writers : stamp[w] # None => copy[w] # None

\* The processor counts nothing before it is up, and never for a date to come.
ProcessorInTime ==
  /\ procDate <= today
  /\ status # "up" => count["processor"] = 0

IInv == CountsReal /\ NoneMadeUp /\ StampHasCopy /\ ProcessorInTime

\* The upsert keeps the type of the row and adds nothing of its own.
LEMMA UpsertedBounds ==
  ASSUME TypeOK, NoDoubleCount, NEW n \in Lots, NEW date \in Days, n <= received
  PROVE  /\ Upserted(n, date) \in [volume : Lots, date : Days]
         /\ Upserted(n, date).volume <= received
BY VolumeAssumption DEF Upserted, Larger, TypeOK, NoDoubleCount, Lots, Days

\* What a reader of the table sees was received.
LEMMA ReadsBounds ==
  ASSUME TypeOK, NoDoubleCount, NEW d \in Days
  PROVE  Reads(d) \in Lots /\ Reads(d) <= received
BY VolumeAssumption DEF Reads, TypeOK, NoDoubleCount, Lots, Days

LEMMA Step == IInv /\ [Next]_vars => IInv'
<1> SUFFICES ASSUME IInv, [Next]_vars PROVE IInv'
  OBVIOUS
<1> USE VolumeAssumption DEF IInv, CountsReal, NoneMadeUp, StampHasCopy, ProcessorInTime,
        TypeOK, NoDoubleCount, ProcessorCountsItsDate, Writers, Days, Lots
<1>1. CASE RollDate
  BY <1>1 DEF RollDate
<1>2. CASE ProcessorCounts
  BY <1>2 DEF ProcessorCounts, Receive, RollVolumeDay, Rolled
<1>3. CASE FrameLost
  BY <1>3 DEF FrameLost, Receive
<1>4. CASE WorkerCounts
  BY <1>4 DEF WorkerCounts, Receive
<1>5. CASE Connect \/ Disconnect
  BY <1>5 DEF Connect, Disconnect
<1>6. CASE ProcessorCopies
  BY <1>6 DEF ProcessorCopies, RollVolumeDay, Rolled
<1>7. CASE WorkerCopies
  BY <1>7 DEF WorkerCopies
<1>8. ASSUME NEW w \in Writers, StampSave(w) PROVE IInv'
  BY <1>8 DEF StampSave
<1>9. ASSUME NEW w \in Writers, CommitSave(w) PROVE IInv'
  BY <1>9, UpsertedBounds DEF CommitSave, EndSave
<1>10. ASSUME NEW w \in Writers, SaveFails(w) PROVE IInv'
  BY <1>10 DEF SaveFails, EndSave
<1>11. CASE ProcessorCrash
  BY <1>11 DEF ProcessorCrash
<1>12. CASE ProcessorStarts
  <2>1. connected' \in BOOLEAN
    BY <1>12, Zenon DEF ProcessorStarts
  <2> QED
    BY <1>12, <2>1 DEF ProcessorStarts
<1>13. CASE ProcessorResumes
  BY <1>13, ReadsBounds DEF ProcessorResumes, Larger
<1>14. CASE ResumeFails
  BY <1>14 DEF ResumeFails
<1>15. CASE WorkerRestart
  <2>1. connected' \in BOOLEAN
    BY <1>15, Zenon DEF WorkerRestart
  <2> QED
    BY <1>15, <2>1 DEF WorkerRestart
<1>16. CASE UNCHANGED vars
  BY <1>16 DEF vars
<1> QED
  BY <1>1, <1>2, <1>3, <1>4, <1>5, <1>6, <1>7, <1>8, <1>9, <1>10, <1>11, <1>12,
     <1>13, <1>14, <1>15, <1>16 DEF Next

\* The inductive invariant holds throughout.
THEOREM VolumeInvariance == Spec => []IInv
<1>1. Init => IInv
  <2>1. Init => connected \in BOOLEAN
    BY Zenon DEF Init
  <2> QED
    BY <2>1, VolumeAssumption DEF Init, IInv, CountsReal, NoneMadeUp, StampHasCopy,
       ProcessorInTime, TypeOK, NoDoubleCount, ProcessorCountsItsDate, Writers, Days, Lots
<1> QED
  BY <1>1, Step, PTL DEF Spec

\* No count is made up or counted twice, in memory or in the table, over any
\* hand-overs between the two counters, restarts, failed saves and rolls.
THEOREM CountsAreReal == Spec => []CountsReal
BY VolumeInvariance, PTL DEF IInv

\* A stored volume goes down only by the first write of a later date
\* (GREATEST in save_cumulative_volumes).
THEOREM StoredGrows == Spec => StoredOnlyGrows
<1> DEFINE Grows == row # None /\ row'.volume < row.volume => row'.date > row.date
<1>1. ASSUME IInv, [Next]_vars PROVE [Grows]_vars
  <2> USE <1>1, VolumeAssumption DEF IInv, CountsReal, TypeOK, Days, Lots
  <2>1. CASE \E w \in Writers : CommitSave(w)
    <3>1. PICK w \in Writers : CommitSave(w)
      BY <2>1
    <3>2. copy[w] \in Lots /\ stamp[w] \in Days
      BY <3>1 DEF CommitSave, StampHasCopy
    <3> QED
      BY <3>1, <3>2 DEF CommitSave, Upserted, Larger
  <2>2. CASE UNCHANGED row
    BY <2>2
  <2> QED
    BY <2>1, <2>2 DEF Next, vars, RollDate, ProcessorCounts, FrameLost, WorkerCounts, Connect,
       Disconnect, ProcessorCopies, WorkerCopies, StampSave, SaveFails, ProcessorCrash,
       ProcessorStarts, ProcessorResumes, ResumeFails, WorkerRestart
<1> QED
  BY <1>1, VolumeInvariance, PTL DEF Spec, StoredOnlyGrows

-----------------------------------------------------------------------------
\* The helpers on buckets, minute by minute.
LEMMA OnlyType ==
  ASSUME NEW f \in [Minutes -> Nat], NEW S
  PROVE  Only(f, S) \in [Minutes -> Nat]
BY DEF Only

LEMMA EmptyType ==
  /\ Empty \in [Minutes -> Nat]
  /\ \A m \in Minutes : Empty[m] = 0
  /\ Buckets(Empty) = {}
BY DEF Empty, Buckets

\* A batch is a part of what the flush still has to write.
LEMMA BatchOfTodo == NextBatch \subseteq todo
BY DEF NextBatch, Oldest

-----------------------------------------------------------------------------
LEMMA FlowStep == TradesAccounted /\ [FlowNext]_flowVars => TradesAccounted'
<1> SUFFICES ASSUME TradesAccounted, [FlowNext]_flowVars PROVE TradesAccounted'
  OBVIOUS
<1> USE DEF TradesAccounted, FlowTypeOK, NothingLost, ExactUnlessPartial
<1>1. CASE NextMinute
  <2>1. minute' \in Minutes
    BY <1>1, FlowAssumption DEF NextMinute, Minutes
  <2> QED
    BY <1>1, <2>1 DEF NextMinute
<1>2. ASSUME NEW m \in Minutes, ObserveTrade(m) PROVE TradesAccounted'
  <2> DEFINE more == [pending EXCEPT ![m] = @ + 1]
             evicted == IF pending[m] > 0 THEN {}
                        ELSE Oldest(Buckets(more), Excess(Buckets(more)))
  <2>1. /\ pending' = Only(more, Minutes \ evicted)
        /\ lost' = Plus(lost, Only(more, evicted))
    BY <1>2 DEF ObserveTrade
  <2>2. more \in [Minutes -> Nat]
    OBVIOUS
  <2> HIDE DEF evicted
  <2>3. /\ pending' \in [Minutes -> Nat] /\ lost' \in [Minutes -> Nat]
        /\ \A k \in Minutes : pending'[k] + lost'[k] = more[k] + lost[k]
    BY <2>1, <2>2 DEF Plus, Only
  <2>4. /\ counted' \in [Minutes -> Nat]
        /\ \A k \in Minutes : counted'[k] + pending[k] = counted[k] + more[k]
        /\ UNCHANGED <<whole, minute, rows, todo, stored, partials>>
    BY <1>2 DEF ObserveTrade
  <2>5. \A k \in Minutes : Only(rows, todo)[k] \in Nat
    BY OnlyType
  <2> HIDE DEF more
  <2>6. FlowTypeOK'
    BY <2>3, <2>4
  <2>7. ASSUME NEW k \in Minutes
        PROVE  /\ counted'[k] <= stored'[k] + pending'[k] + Only(rows', todo')[k] + lost'[k]
               /\ partials' = 0 =>
                    counted'[k] = stored'[k] + pending'[k] + Only(rows', todo')[k] + lost'[k]
    <3>1. Only(rows', todo') = Only(rows, todo) /\ stored' = stored /\ partials' = partials
      BY <2>4
    <3>2. /\ pending'[k] \in Nat /\ lost'[k] \in Nat /\ more[k] \in Nat /\ pending[k] \in Nat
          /\ lost[k] \in Nat /\ counted[k] \in Nat /\ counted'[k] \in Nat /\ stored[k] \in Nat
          /\ Only(rows, todo)[k] \in Nat
      BY <2>2, <2>3, <2>4, <2>5
    <3>3. /\ pending'[k] + lost'[k] = more[k] + lost[k]
          /\ counted'[k] + pending[k] = counted[k] + more[k]
      BY <2>3, <2>4
    <3>4. /\ counted[k] <= stored[k] + pending[k] + Only(rows, todo)[k] + lost[k]
          /\ partials = 0 =>
               counted[k] = stored[k] + pending[k] + Only(rows, todo)[k] + lost[k]
      OBVIOUS
    <3> DEFINE old == stored[k] + pending[k] + Only(rows, todo)[k] + lost[k]
               new == stored[k] + pending'[k] + Only(rows, todo)[k] + lost'[k]
    <3> HIDE DEF TradesAccounted, FlowTypeOK, NothingLost, ExactUnlessPartial
    <3>5. old \in Nat /\ new \in Nat
      BY <3>2
    <3>6. old + counted'[k] <= counted[k] + new /\ counted[k] + new <= old + counted'[k]
      BY <3>2, <3>3
    <3>7. (counted[k] <= old => counted'[k] <= new) /\ (counted[k] = old => counted'[k] = new)
      <4> HIDE DEF old, new
      <4> QED
        BY <3>2, <3>5, <3>6
    <3> QED
      BY <3>1, <3>4, <3>7
  <2> QED
    BY <2>6, <2>7
<1>3. ASSUME NEW ready \in SUBSET Buckets(pending), HandOver(ready), rows = Empty,
             UNCHANGED <<whole, minute, stored, counted, lost, partials>>
      PROVE  TradesAccounted'
  BY <1>3, EmptyType DEF HandOver, Only, Buckets
<1>4. CASE TakeBefore
  BY <1>3, <1>4 DEF TakeBefore
<1>5. CASE TakeStrikesAll
  BY <1>3, <1>5 DEF TakeStrikesAll
<1>6. CASE CommitBatch
  <2>1. /\ stored' \in [Minutes -> Nat] /\ rows' \in [Minutes -> Nat]
        /\ todo' \subseteq Buckets(rows')
        /\ UNCHANGED <<whole, minute, pending, counted, lost, partials>>
    BY <1>6, BatchOfTodo, EmptyType DEF CommitBatch, AddBatch, Plus, Only
  <2>2. \A m \in Minutes :
          stored'[m] + Only(rows', todo')[m] = stored[m] + Only(rows, todo)[m]
    BY <1>6, BatchOfTodo, EmptyType DEF CommitBatch, AddBatch, Plus, Only
  <2> QED
    BY <2>1, <2>2 DEF Only
<1>7. ASSUME NEW landed \in BOOLEAN, BatchFails(landed) PROVE TradesAccounted'
  <2>1. /\ stored' \in [Minutes -> Nat] /\ pending' \in [Minutes -> Nat]
        /\ rows' = Empty /\ todo' = {} /\ partials' \in 0..MaxPartials
        /\ UNCHANGED <<whole, minute, counted, lost>>
    BY <1>7, FlowAssumption DEF BatchFails, AddBatch, PutBack, Plus, Only
  <2>2. \A m \in Minutes : pending'[m] = pending[m] + rows[m] /\ stored'[m] >= stored[m]
    BY <1>7 DEF BatchFails, AddBatch, PutBack, Plus, Only
  <2>3. partials' = 0 => partials = 0 /\ stored' = stored /\ todo = Buckets(rows)
    BY <1>7, FlowAssumption DEF BatchFails
  <2>4. \A m \in Minutes : Only(rows', todo')[m] = 0
    BY <2>1 DEF Only
  <2>5. \A m \in Minutes : Only(rows, todo)[m] <= rows[m]
    BY DEF Only
  <2>6. todo = Buckets(rows) => \A m \in Minutes : Only(rows, todo)[m] = rows[m]
    BY DEF Only, Buckets
  <2>7. FlowTypeOK'
    BY <2>1, EmptyType
  <2> QED
    BY <2>1, <2>2, <2>3, <2>4, <2>5, <2>6, <2>7 DEF Only
<1>8. CASE Restart
  BY <1>8, EmptyType DEF Restart, Plus, Only
<1>9. CASE UNCHANGED flowVars
  BY <1>9 DEF flowVars
<1> QED
  BY <1>1, <1>2, <1>4, <1>5, <1>6, <1>7, <1>8, <1>9 DEF FlowNext

\* No trade disappears but by the cap or a crash, and unless a flush failed with
\* rows already committed each is in exactly one place: the recorder, the flush
\* under way, the table.
THEOREM TradesInOnePlace == FlowSpec => []TradesAccounted
<1>1. FlowInit => TradesAccounted
  BY EmptyType, FlowAssumption DEF FlowInit, TradesAccounted, FlowTypeOK, NothingLost,
     ExactUnlessPartial, Minutes, Only
<1> QED
  BY <1>1, FlowStep, PTL DEF FlowSpec
=============================================================================
