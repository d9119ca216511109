-------------------------- MODULE PriceWritesProofs --------------------------
(***************************************************************************)
(* Proofs about PriceWrites for any number of symbols, ticks, trades and   *)
(* sessions.  The invariant that carries them says what each of the two    *)
(* writers holds between its read and its write: the stream's writer an    *)
(* event it popped and a volume that was fetched, of this session if that  *)
(* is what it can have read; the scheduler a market snapshot and a row     *)
(* that can only have been followed by newer ones.                         *)
(***************************************************************************)
EXTENDS PriceWrites, TLAPS

\* A writer past the pop of its loop holds the tick it popped, and every tick
\* that is held was received.
WriterHasEvent ==
  \A s \in Symbols :
    /\ writer[s] \in {"slot", "read", "save"} => event[s] # None
    /\ event[s] # None => event[s].asOf <= 2 * ticks
    /\ pending[s] # None => pending[s].asOf <= 2 * ticks

\* A cycle past its fetch holds a market snapshot.
CycleHasMarket == \A s \in Symbols : sched[s] # "idle" => market[s] # None

\* A volume on its way to the table was fetched.  Once a cycle has fetched in this
\* session, the scheduler's is of this session; once one has stored, the tick's is.
CarriedIsReal ==
  \A s \in Symbols :
    /\ 0 \in fetched[s] /\ carried[s] \in fetched[s]
    /\ writer[s] # "save" => carried[s] = 0
    /\ today[s] = "stored" => carried[s] <= session[s]
    /\ market[s] # None =>
         /\ market[s].volume \in fetched[s]
         /\ today[s] # "none" => market[s].volume <= session[s]

\* What the scheduler read is not newer than what is stored: rows are appended.
SeenIsPast ==
  \A s \in Symbols :
    seen[s] # None => latest[s] # None /\ seen[s].asOf <= latest[s].asOf

IInv == WritesSound /\ WriterHasEvent /\ CycleHasMarket /\ CarriedIsReal /\ SeenIsPast

-----------------------------------------------------------------------------
\* The newest row after an insert is one of the two, and not older than either.
LEMMA NewestIs ==
  ASSUME NEW old \in Rows \cup {None}, NEW row \in Rows, NEW r \in NewestOf(old, row)
  PROVE  /\ r \in {old, row} /\ r \in Rows /\ r # None
         /\ old # None => old.asOf <= r.asOf
         /\ row.asOf <= r.asOf
BY NoneAssumption, PriceAssumption DEF NewestOf, Rows, Times, MaxAsOf

\* The row the scheduler stores is a row, carries the volume it fetched, and is
\* newer than the row it read.
LEMMA SchedulerRow ==
  ASSUME TypeOK, CycleHasMarket, SeenIsPast, NEW s \in Symbols, sched[s] = "read",
         latest[s] # None => latest[s].asOf <= MaxAsOf
  PROVE  /\ SchedulerPriceRow(s) \in Rows
         /\ SchedulerPriceRow(s).volume = market[s].volume
         /\ seen[s] # None => SchedulerPriceRow(s).asOf > seen[s].asOf
<1>1. market[s] \in Rows /\ (seen[s] # None => seen[s] \in Rows /\ seen[s].asOf <= MaxAsOf)
  BY NoneAssumption, PriceAssumption DEF TypeOK, CycleHasMarket, SeenIsPast, Rows, Times, MaxAsOf
<1> QED
  BY <1>1, PriceAssumption DEF SchedulerPriceRow, Rows, Times, MaxAsOf

-----------------------------------------------------------------------------
LEMMA Step == IInv /\ [Next]_vars => IInv'
<1> SUFFICES ASSUME IInv, [Next]_vars PROVE IInv'
  OBVIOUS
<1> USE NoneAssumption, PriceAssumption DEF IInv, WritesSound, TypeOK, PendingHasWriter,
        PendingIsNewer, VolumeIsReal, WriterHasEvent, CycleHasMarket, CarriedIsReal, SeenIsPast
<1>1. ASSUME NEW s \in Symbols, NEW kind \in Kinds, ReceiveTick(s, kind) PROVE IInv'
  <2>1. CASE kind = "ignored"
    <3>1. ticks' \in 0..MaxTicks /\ ticks' = ticks + 1
      BY <1>1 DEF ReceiveTick
    <3>2. UNCHANGED <<pending, writer, marketVars, event, carried, window, latest, schedVars, histVars>>
      BY <1>1, <2>1 DEF ReceiveTick
    <3> QED
      BY <3>1, <3>2 DEF Events, Times, schedVars, histVars, marketVars
  <2>2. CASE kind # "ignored"
    <3> DEFINE e == [asOf |-> 2 * ticks', kind |-> kind]
    <3>1. e \in Events /\ e.asOf = 2 * ticks' /\ ticks' \in 0..MaxTicks /\ ticks' = ticks + 1
      BY <1>1, <2>2 DEF ReceiveTick, Events, Times, MaxAsOf
    <3>2. /\ pending' = [pending EXCEPT ![s] = e]
          /\ writer' = [writer EXCEPT ![s] = IF @ = "none" THEN "created" ELSE @]
          /\ UNCHANGED <<marketVars, event, carried, window, latest, schedVars, histVars>>
      BY <1>1, <2>2 DEF ReceiveTick, Schedule
    <3> HIDE DEF e
    <3> QED
      BY <3>1, <3>2 DEF Events, Times, MaxAsOf, schedVars, histVars, marketVars
  <2> QED
    BY <2>1, <2>2
<1>2. ASSUME NEW s \in Symbols, BeginDrain(s) PROVE IInv'
  BY <1>2 DEF BeginDrain, PopPending, Events, Times, schedVars, histVars, marketVars
<1>3. ASSUME NEW s \in Symbols, PersistDue(s) PROVE IInv'
  BY <1>3 DEF PersistDue, schedVars, histVars, marketVars
<1>4. ASSUME NEW s \in Symbols, PersistNotDue(s) PROVE IInv'
  BY <1>4 DEF PersistNotDue, PopPending, schedVars, histVars, marketVars
<1>5. ASSUME NEW s \in Symbols, ReadPrevious(s) PROVE IInv'
  BY <1>5 DEF ReadPrevious, Rows, schedVars, histVars, marketVars
<1>6. ASSUME NEW s \in Symbols, SaveTick(s) PROVE IInv'
  <2> DEFINE row == [asOf |-> event[s].asOf, volume |-> carried[s]]
  <2>1. /\ row \in Rows /\ row.volume \in fetched[s]
        /\ today[s] = "stored" => row.volume <= session[s]
    BY <1>6 DEF SaveTick, Rows, Events
  <2>2. PICK newest \in NewestOf(latest[s], row) : latest' = [latest EXCEPT ![s] = newest]
    BY <1>6 DEF SaveTick, Insert
  <2>3. /\ newest \in {latest[s], row} /\ newest \in Rows
        /\ latest[s] # None => latest[s].asOf <= newest.asOf
    BY <2>1, NewestIs
  <2>4. VolumeIsReal' /\ SeenIsPast' /\ latest' \in [Symbols -> Rows \cup {None}]
    BY <1>6, <2>1, <2>2, <2>3 DEF SaveTick, schedVars, histVars, marketVars, Rows, Times
  <2> HIDE DEF row
  <2>5. PendingHasWriter' /\ PendingIsNewer' /\ WriterHasEvent'
    BY <1>6 DEF SaveTick, PopPending, schedVars, histVars, marketVars
  <2>6. /\ pending' \in [Symbols -> Events \cup {None}]
        /\ event' \in [Symbols -> Events \cup {None}]
        /\ writer' \in [Symbols -> {"none", "created", "slot", "read", "save"}]
        /\ carried' \in [Symbols -> 0..MaxVolume]
    BY <1>6 DEF SaveTick, PopPending
  <2>7. TypeOK'
    BY <1>6, <2>4, <2>6 DEF SaveTick, schedVars, histVars, marketVars
  <2>8. CycleHasMarket' /\ CarriedIsReal'
    BY <1>6 DEF SaveTick, PopPending, schedVars, histVars, marketVars
  <2> QED
    BY <2>4, <2>5, <2>7, <2>8
<1>7. ASSUME NEW s \in Symbols, PersistFails(s) PROVE IInv'
  BY <1>7 DEF PersistFails, PopPending, schedVars, histVars, marketVars
<1>8. ASSUME NEW s \in Symbols, WindowPasses(s) PROVE IInv'
  BY <1>8 DEF WindowPasses, schedVars, histVars, marketVars
<1>9. CASE ProcessorRestart
  BY <1>9 DEF ProcessorRestart, schedVars, histVars, marketVars
<1>10. ASSUME NEW s \in Symbols, Trade(s) PROVE IInv'
  BY <1>10 DEF Trade, Rows, procVars, schedVars, histVars
<1>11. ASSUME NEW s \in Symbols, Fetch(s) PROVE IInv'
  BY <1>11 DEF Fetch, FetchedVolumes, Rows, Times, MaxAsOf, Stages, procVars, marketVars
<1>12. ASSUME NEW s \in Symbols, ReadLatest(s) PROVE IInv'
  BY <1>12 DEF ReadLatest, Rows, Times, procVars, histVars, marketVars
<1>13. ASSUME NEW s \in Symbols, SaveMarket(s) PROVE IInv'
  BY <1>13, NewestIs, SchedulerRow DEF SaveMarket, Insert, EndCycle, Rows, Stages, procVars, marketVars
<1>14. ASSUME NEW s \in Symbols, CycleFails(s) PROVE IInv'
  BY <1>14 DEF CycleFails, EndCycle, procVars, marketVars
<1>15. CASE SessionOpens
  BY <1>15 DEF SessionOpens, Stages, procVars, schedVars
<1>16. CASE UNCHANGED vars
  BY <1>16 DEF vars, procVars, schedVars, histVars, marketVars
<1> QED
  BY <1>1, <1>2, <1>3, <1>4, <1>5, <1>6, <1>7, <1>8, <1>9, <1>10, <1>11, <1>12,
     <1>13, <1>14, <1>15, <1>16 DEF Next

\* The inductive invariant holds throughout.
THEOREM WritesInvariance == Spec => []IInv
<1>1. Init => IInv
  BY PriceAssumption DEF Init, IInv, WritesSound, TypeOK, Stages, PendingHasWriter, PendingIsNewer,
     VolumeIsReal, WriterHasEvent, CycleHasMarket, CarriedIsReal, SeenIsPast
<1> QED
  BY <1>1, Step, PTL DEF Spec

\* No pending tick is left without a writer task, a symbol's ticks are written
\* in the order they came in, and the volume shown is one that was fetched: the
\* session before's can last past 9:30, but does not come back once a cycle of the
\* new session has stored its row with no tick between its read and its write.
THEOREM WritesAreSound == Spec => []WritesSound
BY WritesInvariance, PTL DEF IInv

\* The volume the scheduler fetched is the latest one after its write, unless a
\* row came in between its read and its write (scheduler_price_row).
THEOREM SchedulerVolume == Spec => SchedulerVolumeShows
<1> DEFINE Shows == \A s \in Symbols :
       SaveMarket(s) /\ latest[s] = seen[s] => latest'[s].volume = market[s].volume
<1>1. ASSUME IInv, [Next]_vars PROVE [Shows]_vars
  <2> SUFFICES ASSUME NEW s \in Symbols, SaveMarket(s), latest[s] = seen[s]
               PROVE  latest'[s].volume = market[s].volume
    BY Zenon
  <2>1. /\ SchedulerPriceRow(s) \in Rows
        /\ SchedulerPriceRow(s).volume = market[s].volume
        /\ seen[s] # None => SchedulerPriceRow(s).asOf > seen[s].asOf
    BY <1>1, SchedulerRow DEF SaveMarket, IInv, WritesSound
  <2>2. PICK newest \in NewestOf(latest[s], SchedulerPriceRow(s)) :
           latest' = [latest EXCEPT ![s] = newest]
    BY DEF SaveMarket, Insert
  <2>3. latest \in [Symbols -> Rows \cup {None}]
    BY <1>1 DEF IInv, WritesSound, TypeOK
  <2>4. newest = SchedulerPriceRow(s)
    BY <2>1, <2>2, <2>3, PriceAssumption DEF NewestOf, Rows, Times, MaxAsOf
  <2> QED
    BY <2>1, <2>2, <2>3, <2>4
<1> QED
  BY <1>1, WritesInvariance, PTL DEF Spec, SchedulerVolumeShows
=============================================================================
