----------------------------- MODULE PriceWrites -----------------------------
(***************************************************************************)
(* The latest price row of each underlying and its two writers.  The       *)
(* stream processor writes the newest tick of a symbol, one write at a     *)
(* time per symbol and Concurrency in all, and carries the stored volume   *)
(* forward (schedule_price_write, _drain_price_writes, persist_if_due).    *)
(* The scheduler is the only writer of a real volume: it fetches the       *)
(* market, reads the latest row and stores a row that is to become the     *)
(* latest one (scheduler_price_row).  Neither locks the row between its    *)
(* read and its write.  The counter the scheduler fetches starts over at   *)
(* 9:30; what is stored, or on its way to the table, does not: ticks carry *)
(* yesterday's total into the new session until the scheduler stores over  *)
(* it.                                                                     *)
(*                                                                         *)
(* market_snapshots is append-only; readers take its newest row, so only   *)
(* that row is kept.  A tick's as_of is 2 * its number, which leaves room  *)
(* for the scheduler's "one millisecond later".                            *)
(***************************************************************************)
EXTENDS Naturals, FiniteSets

CONSTANTS
  Symbols,      \* the underlyings that are streamed
  Refreshed,    \* those the scheduler refreshes
  Concurrency,  \* PRICE_WRITE_CONCURRENCY
  MaxTicks,     \* bound: ticks received in all
  MaxVolume,    \* bound: session volume of a symbol
  MaxOpens,     \* bound: sessions that open after the first
  None          \* no event, no row

ASSUME PriceAssumption ==
  /\ Refreshed \subseteq Symbols
  /\ Concurrency \in Nat \ {0} /\ MaxTicks \in Nat /\ MaxVolume \in Nat
  /\ MaxOpens \in Nat

VARIABLES
  ticks,    \* ticks received so far
  session,  \* session[s]: the real volume traded so far in this session
  opens,    \* sessions opened after the first
  pending,  \* pending[s]: _pending_prices
  writer,   \* writer[s]: where the symbol's writer task is
  event,    \* event[s]: the tick the writer has popped
  carried,  \* carried[s]: the volume it read from the latest row
  window,   \* window[s]: the write interval since the last write has passed
  latest,   \* latest[s]: the newest row of market_snapshots
  sched,    \* sched[s]: where the scheduler's cycle for s is
  market,   \* market[s]: the snapshot the cycle fetched
  seen,     \* seen[s]: the latest row the cycle read
  fetched,  \* history: the volumes fetched so far, and 0, what stands for none
  today     \* history: how far this session's volume has come, see Stages

marketVars == <<session, opens>>
histVars == <<fetched, today>>
procVars == <<pending, writer, event, carried, window>>
schedVars == <<sched, market, seen>>
vars == <<ticks, marketVars, procVars, latest, schedVars, histVars>>

\* Since the session opened no cycle has fetched; one has; one that did has
\* stored the latest row while no tick was between its read and its write.
Stages == {"none", "fetched", "stored"}

\* "last" sets the price; "ignored" is in NON_LAST_SALE_CONDITIONS; "closed"
\* would set it, but its as_of is outside the regular session.
Kinds == {"last", "ignored", "closed"}
MaxAsOf == 2 * MaxTicks + MaxVolume   \* bound: a row the scheduler still builds on
Times == 0..(MaxAsOf + 1)
Events == [asOf : Times, kind : Kinds]
Rows == [asOf : Times, volume : 0..MaxVolume]

ASSUME NoneAssumption == None \notin Events \cup Rows

TypeOK ==
  /\ ticks \in 0..MaxTicks
  /\ session \in [Symbols -> 0..MaxVolume]
  /\ opens \in 0..MaxOpens
  /\ pending \in [Symbols -> Events \cup {None}]
  /\ writer \in [Symbols -> {"none", "created", "slot", "read", "save"}]
  /\ event \in [Symbols -> Events \cup {None}]
  /\ carried \in [Symbols -> 0..MaxVolume]
  /\ window \in [Symbols -> BOOLEAN]
  /\ latest \in [Symbols -> Rows \cup {None}]
  /\ sched \in [Symbols -> {"idle", "fetched", "read"}]
  /\ market \in [Symbols -> Rows \cup {None}]
  /\ seen \in [Symbols -> Rows \cup {None}]
  /\ fetched \in [Symbols -> SUBSET (0..MaxVolume)]
  /\ today \in [Symbols -> Stages]

Init ==
  /\ ticks = 0
  /\ session = [s \in Symbols |-> 0]
  /\ opens = 0
  /\ pending = [s \in Symbols |-> None]
  /\ writer = [s \in Symbols |-> "none"]
  /\ event = [s \in Symbols |-> None]
  /\ carried = [s \in Symbols |-> 0]
  /\ window = [s \in Symbols |-> TRUE]
  /\ latest = [s \in Symbols |-> None]
  /\ sched = [s \in Symbols |-> "idle"]
  /\ market = [s \in Symbols |-> None]
  /\ seen = [s \in Symbols |-> None]
  /\ fetched = [s \in Symbols |-> {0}]
  /\ today = [s \in Symbols |-> "none"]

-----------------------------------------------------------------------------
\* INSERT, and what ORDER BY time DESC LIMIT 1 finds from now on: with two rows
\* of the same time it may be either.
NewestOf(old, row) ==
  IF old = None THEN {row}
  ELSE {r \in {old, row} : r.asOf >= old.asOf /\ r.asOf >= row.asOf}

Insert(s, row) ==
  \E newest \in NewestOf(latest[s], row) : latest' = [latest EXCEPT ![s] = newest]

-----------------------------------------------------------------------------
\* The stream processor.

\* Latest wins: the tick replaces the pending one; one task per symbol.
Schedule(s, e) ==
  /\ pending' = [pending EXCEPT ![s] = e]
  /\ writer' = [writer EXCEPT ![s] = IF @ = "none" THEN "created" ELSE @]

ReceiveTick(s, kind) ==
  /\ ticks < MaxTicks
  /\ ticks' = ticks + 1
  /\ IF kind = "ignored"
     THEN UNCHANGED <<pending, writer>>
     ELSE Schedule(s, [asOf |-> 2 * ticks', kind |-> kind])
  /\ UNCHANGED <<marketVars, event, carried, window, latest, schedVars, histVars>>

\* Mutant: the writer returns after one write.
LeaveLoop(s) ==
  /\ writer' = [writer EXCEPT ![s] = "none"]
  /\ event' = [event EXCEPT ![s] = None]
  /\ UNCHANGED pending

\* The head of _drain_price_writes' loop: pop the pending tick, or return.
PopPending(s) ==
  /\ event' = [event EXCEPT ![s] = pending[s]]
  /\ pending' = [pending EXCEPT ![s] = None]
  /\ writer' = [writer EXCEPT ![s] = IF pending[s] = None THEN "none" ELSE "slot"]

BeginDrain(s) ==
  /\ writer[s] = "created"
  /\ PopPending(s)
  /\ UNCHANGED <<ticks, marketVars, carried, window, latest, schedVars, histVars>>

SlotFree == Cardinality({s \in Symbols : writer[s] \in {"read", "save"}}) < Concurrency

Due(s) == event[s].kind = "last" /\ window[s]

\* persist_if_due up to its first await, with a slot of the semaphore: the
\* debounce window starts before anything is read or stored.
PersistDue(s) ==
  /\ writer[s] = "slot" /\ SlotFree /\ Due(s)
  /\ window' = [window EXCEPT ![s] = FALSE]
  /\ writer' = [writer EXCEPT ![s] = "read"]
  /\ UNCHANGED <<ticks, marketVars, pending, event, carried, latest, schedVars, histVars>>

PersistNotDue(s) ==
  /\ writer[s] = "slot" /\ SlotFree /\ ~Due(s)
  /\ PopPending(s)
  /\ UNCHANGED <<ticks, marketVars, carried, window, latest, schedVars, histVars>>

\* previous = await get_latest_price(symbol)
ReadPrevious(s) ==
  /\ writer[s] = "read"
  /\ carried' = [carried EXCEPT ![s] = IF latest[s] = None THEN 0 ELSE latest[s].volume]
  /\ writer' = [writer EXCEPT ![s] = "save"]
  /\ UNCHANGED <<ticks, marketVars, pending, event, window, latest, schedVars, histVars>>

\* await save_market_price(...), then the loop goes on.
SaveTick(s) ==
  /\ writer[s] = "save"
  /\ Insert(s, [asOf |-> event[s].asOf, volume |-> carried[s]])
  /\ carried' = [carried EXCEPT ![s] = 0]
  /\ PopPending(s)
  /\ UNCHANGED <<ticks, marketVars, window, schedVars, histVars>>

\* The read or the save raises: logged, and the loop goes on.
PersistFails(s) ==
  /\ writer[s] \in {"read", "save"}
  /\ carried' = [carried EXCEPT ![s] = 0]
  /\ PopPending(s)
  /\ UNCHANGED <<ticks, marketVars, window, latest, schedVars, histVars>>

WindowPasses(s) ==
  /\ ~window[s]
  /\ window' = [window EXCEPT ![s] = TRUE]
  /\ UNCHANGED <<ticks, marketVars, pending, writer, event, carried, latest, schedVars, histVars>>

\* The processor dies and starts again.
ProcessorRestart ==
  /\ pending' = [s \in Symbols |-> None]
  /\ writer' = [s \in Symbols |-> "none"]
  /\ event' = [s \in Symbols |-> None]
  /\ carried' = [s \in Symbols |-> 0]
  /\ window' = [s \in Symbols |-> TRUE]
  /\ UNCHANGED <<ticks, marketVars, latest, schedVars, histVars>>

-----------------------------------------------------------------------------
\* The scheduler's 30 s cycle.

\* The underlying trades: its session volume grows.
Trade(s) ==
  /\ s \in Refreshed
  /\ session[s] < MaxVolume
  /\ session' = [session EXCEPT ![s] = @ + 1]
  /\ UNCHANGED <<ticks, opens, procVars, latest, schedVars, histVars>>

\* 9:30: every counter starts over.  No writer takes part, so a cycle, a tick or
\* a stored row still has the number of the session before.
SessionOpens ==
  /\ opens < MaxOpens
  /\ opens' = opens + 1
  /\ session' = [s \in Symbols |-> 0]
  /\ today' = [s \in Symbols |-> "none"]
  /\ UNCHANGED <<ticks, procVars, latest, schedVars, fetched>>

\* _fetch_underlying_volume: the session's volume so far, or 0 when it fails.
FetchedVolumes(s) == {0, session[s]}

\* get_underlying_snapshot: that volume, under a quote time that may be behind
\* the stream.
Fetch(s) ==
  /\ s \in Refreshed /\ sched[s] = "idle"
  /\ \E lag \in 0..ticks, v \in FetchedVolumes(s) :
       /\ market' = [market EXCEPT ![s] = [asOf |-> 2 * (ticks - lag), volume |-> v]]
       /\ fetched' = [fetched EXCEPT ![s] = @ \cup {v}]
  /\ sched' = [sched EXCEPT ![s] = "fetched"]
  /\ today' = [today EXCEPT ![s] = IF @ = "none" THEN "fetched" ELSE @]
  /\ UNCHANGED <<ticks, marketVars, procVars, latest, seen>>

ReadLatest(s) ==
  /\ sched[s] = "fetched"
  /\ seen' = [seen EXCEPT ![s] = latest[s]]
  /\ sched' = [sched EXCEPT ![s] = "read"]
  /\ UNCHANGED <<ticks, marketVars, procVars, latest, market, histVars>>

\* Mutants: the row keeps the quote's time even when a fresher row exists; a
\* volume "only grows", so the larger of the two is stored.
QuoteTimeRow(s) == market[s]
LargerVolumeRow(s) ==
  IF seen[s] # None /\ seen[s].asOf >= market[s].asOf
  THEN [asOf |-> seen[s].asOf + 1,
        volume |-> IF seen[s].volume > market[s].volume
                   THEN seen[s].volume ELSE market[s].volume]
  ELSE market[s]

\* scheduler_price_row: on top of a fresher row, one millisecond later.
SchedulerPriceRow(s) ==
  IF seen[s] # None /\ seen[s].asOf >= market[s].asOf
  THEN [asOf |-> seen[s].asOf + 1, volume |-> market[s].volume]
  ELSE market[s]

EndCycle(s) ==
  /\ sched' = [sched EXCEPT ![s] = "idle"]
  /\ market' = [market EXCEPT ![s] = None]
  /\ seen' = [seen EXCEPT ![s] = None]
  /\ UNCHANGED <<ticks, marketVars, procVars, fetched>>

SaveMarket(s) ==
  /\ sched[s] = "read"
  /\ IF latest[s] = None THEN TRUE ELSE latest[s].asOf <= MaxAsOf
  /\ Insert(s, SchedulerPriceRow(s))
  /\ LET stands == latest'[s] = SchedulerPriceRow(s) /\ writer[s] # "save"
     IN  today' = [today EXCEPT ![s] = IF @ = "fetched" /\ stands THEN "stored" ELSE @]
  /\ EndCycle(s)

\* A step of the cycle raises: the next cycle starts over.
CycleFails(s) ==
  /\ sched[s] # "idle"
  /\ UNCHANGED <<latest, today>>
  /\ EndCycle(s)

Next ==
  \/ \E s \in Symbols :
       \/ \E kind \in Kinds : ReceiveTick(s, kind)
       \/ BeginDrain(s) \/ PersistDue(s) \/ PersistNotDue(s)
       \/ ReadPrevious(s) \/ SaveTick(s) \/ PersistFails(s) \/ WindowPasses(s)
       \/ Trade(s) \/ Fetch(s) \/ ReadLatest(s) \/ SaveMarket(s) \/ CycleFails(s)
  \/ ProcessorRestart \/ SessionOpens

Spec == Init /\ [][Next]_vars

\* The event loop runs every ready task; the semaphore is first come, first served.
Fairness ==
  \A s \in Symbols :
    /\ WF_vars(BeginDrain(s)) /\ SF_vars(PersistDue(s) \/ PersistNotDue(s))
    /\ WF_vars(ReadPrevious(s) \/ PersistFails(s))
    /\ WF_vars(SaveTick(s) \/ PersistFails(s))

FairSpec == Spec /\ Fairness

-----------------------------------------------------------------------------
\* A pending tick always has a writer task that will pop it: the return of the
\* drain loop and the check of writer.done() leave no gap.
PendingHasWriter == \A s \in Symbols : pending[s] # None => writer[s] # "none"

\* A symbol's ticks are stored in the order they came in: the pending one is
\* newer than the one being written (latest wins, one writer per symbol).
PendingIsNewer ==
  \A s \in Symbols :
    pending[s] # None /\ event[s] # None => pending[s].asOf > event[s].asOf

\* The scheduler's volume becomes the latest one unless the stream stored a row
\* between the scheduler's read and its write (scheduler_price_row).
SchedulerVolumeShows ==
  [][\A s \in Symbols :
       SaveMarket(s) /\ latest[s] = seen[s]
         => latest'[s].volume = market[s].volume]_vars

\* A volume shown is one the scheduler fetched, or 0 before it ever did.  It may be
\* the session before's, which cycles and ticks carry past 9:30; but once a cycle
\* of this session has stored its row with no tick between its read and its write,
\* the old number never comes back: no volume above the session's own is shown.
VolumeIsReal ==
  \A s \in Symbols : latest[s] # None =>
    /\ latest[s].volume \in fetched[s]
    /\ today[s] = "stored" => latest[s].volume <= session[s]

\* Every tick that is waiting to be written is taken up, whatever fails.
PendingTakenUp == \A s \in Symbols : pending[s] # None ~> pending[s] = None

\* "a stream write ... can never reset it back to 0" (persist_if_due).
StreamNeverZeroesVolume ==
  [][\A s \in Symbols :
       SaveTick(s) /\ latest[s] # None /\ latest[s].volume > 0 => latest'[s].volume > 0]_vars

\* The two writers are sound: no tick waits without a writer, ticks are stored in
\* order, and the volume shown is one that was fetched, of this session once a
\* cycle has stored it.
WritesSound == TypeOK /\ PendingHasWriter /\ PendingIsNewer /\ VolumeIsReal
=============================================================================
