-------------------------- MODULE CumulativeVolume --------------------------
(***************************************************************************)
(* The day's traded volume of one option contract and its row of the table *)
(* contract_cumulative_volume.  Two processes count trades and export what *)
(* they counted every 15 s: the stream processor (stream_processor_        *)
(* worker.py) while the worker's relay has it connected, and the worker's  *)
(* own hub (provider.py, stream_state_export.py) while it has not.  The    *)
(* trade date rolls at 20:15 ET; only the processor clears its counter.    *)
(*                                                                         *)
(* Contracts are independent of each other, so one is enough.  A trade is  *)
(* one lot.  The date of a frame is the date it arrives on: the option     *)
(* market is closed around the roll.                                       *)
(***************************************************************************)
EXTENDS Naturals

CONSTANTS
  MaxDay,     \* bound: trade dates 1..MaxDay
  MaxTrades,  \* bound: trades the worker receives over the whole run
  None        \* no row, or no export under way

ASSUME VolumeAssumption ==
  /\ MaxDay \in Nat \ {0}
  /\ MaxTrades \in Nat
  /\ None \notin Nat

VARIABLES
  today,      \* trade_date_of(now)
  traded,     \* trades the worker received on this trade date
  received,   \* trades the worker received on every date so far
  connected,  \* the relay has the processor as its client
  status,     \* the processor: "down", "resuming" or "up"
  count,      \* count[w]: writer w's counter for the contract
  procDate,   \* _ProcessorState.volume_date
  seed,       \* what the processor resumed its counter from on procDate
  copy,       \* copy[w]: the value w's export has copied, None between exports
  stamp,      \* stamp[w]: the date of that save's `now` and cutoff, or None
  row         \* the stored row: its volume and the date of its updated_at

vars == <<today, traded, received, connected, status, count, procDate, seed,
          copy, stamp, row>>

Writers == {"processor", "worker"}
Days == 1..MaxDay
Lots == 0..MaxTrades

Larger(m, n) == IF m >= n THEN m ELSE n

TypeOK ==
  /\ today \in Days
  /\ traded \in Lots /\ received \in Lots /\ seed \in Lots
  /\ connected \in BOOLEAN
  /\ status \in {"down", "resuming", "up"}
  /\ count \in [Writers -> Lots]
  /\ procDate \in Days
  /\ copy \in [Writers -> Lots \cup {None}]
  /\ stamp \in [Writers -> Days \cup {None}]
  /\ row \in [volume : Lots, date : Days] \cup {None}

Init ==
  /\ today = 1 /\ traded = 0 /\ received = 0
  /\ connected = FALSE
  /\ status = "down"
  /\ count = [w \in Writers |-> 0]
  /\ procDate = 1 /\ seed = 0
  /\ copy = [w \in Writers |-> None]
  /\ stamp = [w \in Writers |-> None]
  /\ row = None

\* get_cumulative_volumes: a row older than the trade date reads as no volume.
Reads(since) == IF row # None /\ row.date >= since THEN row.volume ELSE 0

-----------------------------------------------------------------------------
\* 20:15 ET passes.
RollDate ==
  /\ today < MaxDay
  /\ today' = today + 1
  /\ traded' = 0
  /\ UNCHANGED <<received, connected, status, count, procDate, seed, copy, stamp, row>>

\* A trade frame reaches the worker.
Receive ==
  /\ received < MaxTrades
  /\ received' = received + 1
  /\ traded' = traded + 1

\* roll_if_due / roll_volume_day: the counter of an earlier date is cleared.
Rolled(n) == IF procDate = today THEN n ELSE 0
RollVolumeDay ==
  /\ procDate' = today
  /\ seed' = Rolled(seed)

\* Mutant: the trade does not look at the date, only the export does.
CountWithoutRoll ==
  /\ connected /\ status = "up" /\ Receive
  /\ count' = [count EXCEPT !["processor"] = @ + 1]
  /\ procDate' = today /\ seed' = seed
  /\ UNCHANGED <<today, connected, status, copy, stamp, row>>

\* The relay hands the frame to the connected processor, which counts it.
ProcessorCounts ==
  /\ connected /\ status = "up"
  /\ Receive
  /\ RollVolumeDay
  /\ count' = [count EXCEPT !["processor"] = Rolled(@) + 1]
  /\ UNCHANGED <<today, connected, status, copy, stamp, row>>

\* The frame was in the relay's queue, or on the socket, of a lost connection.
FrameLost ==
  /\ connected
  /\ Receive
  /\ UNCHANGED <<today, connected, status, count, procDate, seed, copy, stamp, row>>

\* No processor is connected: the hub parses the frame itself.
WorkerCounts ==
  /\ ~connected
  /\ Receive
  /\ count' = [count EXCEPT !["worker"] = @ + 1]
  /\ UNCHANGED <<today, connected, status, procDate, seed, copy, stamp, row>>

\* The relay gains or loses its client.
Connect ==
  /\ ~connected /\ status = "up"
  /\ connected' = TRUE
  /\ UNCHANGED <<today, traded, received, status, count, procDate, seed, copy, stamp, row>>

Disconnect ==
  /\ connected
  /\ connected' = FALSE
  /\ UNCHANGED <<today, traded, received, status, count, procDate, seed, copy, stamp, row>>

-----------------------------------------------------------------------------
\* The export loops.  Each runs one save at a time: copy the counter, then in a
\* thread read the clock (updated_at and cutoff), then commit the upsert.

ProcessorCopies ==
  /\ status = "up" /\ copy["processor"] = None
  /\ RollVolumeDay
  /\ count' = [count EXCEPT !["processor"] = Rolled(@)]
  /\ copy' = [copy EXCEPT !["processor"] =
                IF count'["processor"] # 0 THEN count'["processor"] ELSE None]
  /\ UNCHANGED <<today, traded, received, connected, status, stamp, row>>

\* _export_once leaves out the contracts the worker counted nothing for.
WorkerCopies ==
  /\ copy["worker"] = None
  /\ count["worker"] # 0
  /\ copy' = [copy EXCEPT !["worker"] = count["worker"]]
  /\ UNCHANGED <<today, traded, received, connected, status, count, procDate, seed, stamp, row>>

StampSave(w) ==
  /\ copy[w] # None /\ stamp[w] = None
  /\ stamp' = [stamp EXCEPT ![w] = today]
  /\ UNCHANGED <<today, traded, received, connected, status, count, procDate, seed, copy, row>>

EndSave(w) ==
  /\ copy' = [copy EXCEPT ![w] = None]
  /\ stamp' = [stamp EXCEPT ![w] = None]
  /\ UNCHANGED <<today, traded, received, connected, status, count, procDate, seed>>

\* Mutants: the last writer wins; the writers' counts are added up; the first
\* write of a date stays (ON CONFLICT DO NOTHING).
OverwriteRow(n, date) == [volume |-> n, date |-> date]
AddToRow(n, date) ==
  [volume |-> IF row # None /\ row.date >= date THEN row.volume + n ELSE n, date |-> date]
FirstWriteStays(n, date) ==
  [volume |-> IF row # None /\ row.date >= date THEN row.volume ELSE n, date |-> date]

\* The upsert: GREATEST within a trade date, a replacement across dates.
Upserted(n, date) ==
  [volume |-> IF row # None /\ row.date >= date THEN Larger(row.volume, n) ELSE n,
   date   |-> date]

CommitSave(w) ==
  /\ stamp[w] # None
  /\ row' = Upserted(copy[w], stamp[w])
  /\ EndSave(w)

\* The save raises (a deadlock, a lost connection): the next interval retries.
SaveFails(w) ==
  /\ stamp[w] # None
  /\ UNCHANGED row
  /\ EndSave(w)

-----------------------------------------------------------------------------
\* The processor dies: its counters, its save and its connection are gone.
ProcessorCrash ==
  /\ status # "down"
  /\ status' = "down"
  /\ count' = [count EXCEPT !["processor"] = 0]
  /\ seed' = 0
  /\ copy' = [copy EXCEPT !["processor"] = None]
  /\ stamp' = [stamp EXCEPT !["processor"] = None]
  /\ UNCHANGED <<today, traded, received, connected, procDate, row>>

\* _resume_cumulative_volume notes the trade date, then reads in a thread.
ProcessorStarts ==
  /\ status = "down"
  /\ status' = "resuming"
  /\ procDate' = today
  /\ connected' = FALSE
  /\ UNCHANGED <<today, traded, received, count, seed, copy, stamp, row>>

ProcessorResumes ==
  /\ status = "resuming"
  /\ status' = "up"
  /\ count' = [count EXCEPT !["processor"] = Larger(@, Reads(procDate))]
  /\ seed' = Reads(procDate)
  /\ UNCHANGED <<today, traded, received, connected, procDate, copy, stamp, row>>

\* The read fails: the processor starts from zero.
ResumeFails ==
  /\ status = "resuming"
  /\ status' = "up"
  /\ UNCHANGED <<today, traded, received, connected, count, procDate, seed, copy, stamp, row>>

\* The worker dies and is started again; the processor reconnects later.
WorkerRestart ==
  /\ count' = [count EXCEPT !["worker"] = 0]
  /\ copy' = [copy EXCEPT !["worker"] = None]
  /\ stamp' = [stamp EXCEPT !["worker"] = None]
  /\ connected' = FALSE
  /\ UNCHANGED <<today, traded, received, status, procDate, seed, row>>

Next ==
  \/ RollDate
  \/ ProcessorCounts \/ FrameLost \/ WorkerCounts
  \/ Connect \/ Disconnect
  \/ ProcessorCopies \/ WorkerCopies
  \/ \E w \in Writers : StampSave(w) \/ CommitSave(w) \/ SaveFails(w)
  \/ ProcessorCrash \/ ProcessorStarts \/ ProcessorResumes \/ ResumeFails
  \/ WorkerRestart

Spec == Init /\ [][Next]_vars

\* Both export loops run for ever, and saves do not fail for ever.
Fairness ==
  /\ WF_vars(ProcessorCopies) /\ WF_vars(WorkerCopies)
  /\ \A w \in Writers : WF_vars(StampSave(w)) /\ SF_vars(CommitSave(w))

FairSpec == Spec /\ Fairness

-----------------------------------------------------------------------------
\* No trade is counted twice on its way to the table, whatever the hand-overs
\* between the two counters, the restarts and the resumed rows.
NoDoubleCount == row # None => row.volume <= received

\* The processor's counter holds the trades of its own date and nothing older
\* but what it resumed for that date (roll_if_due before every count).
ProcessorCountsItsDate ==
  procDate = today => count["processor"] <= seed + traded

\* A stored volume goes down only by the first write of a later trade date
\* (the GREATEST of save_cumulative_volumes).
StoredOnlyGrows ==
  [][row # None /\ row'.volume < row.volume => row'.date > row.date]_vars

\* What the processor counted reaches the table, unless it dies or the date
\* rolls first (_export_volume_periodically).
CountsAreStored ==
  \A d \in Days, n \in 1..MaxTrades :
    (status = "up" /\ procDate = d /\ count["processor"] = n)
      ~> \/ row # None /\ row.volume >= n
         \/ count["processor"] < n
         \/ today # d

\* What the processor saves as a date's volume is that date's: the trades it
\* counted, on top of what it resumed ("Cumulative volume is a per-trade-date
\* figure", roll_volume_day).
ProcessorSavesItsDate ==
  [][CommitSave("processor") /\ stamp["processor"] = today
     => copy["processor"] <= seed + traded]_vars

\* What the worker exports was traded on the date ("So the counters now roll at
\* 20:15 ET", trade_date.py).
WorkerExportsItsDate ==
  [][WorkerCopies => copy'["worker"] <= traded]_vars

\* No count is made up: neither the stored figure nor the one in memory.
CountsReal == TypeOK /\ NoDoubleCount /\ ProcessorCountsItsDate
=============================================================================
