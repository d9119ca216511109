------------------------------ MODULE FlowFlush ------------------------------
(***************************************************************************)
(* The stream processor's per-minute option flow on its way to Postgres:   *)
(* MinuteFlowRecorder (minute_flow.py), its flush loops                    *)
(* (_flush_minute_flow_periodically and _flush_strike_flow_periodically)   *)
(* and the batched upsert that adds to what is stored                      *)
(* (save_minute_option_flow, save_minute_strike_flow).                     *)
(*                                                                         *)
(* One symbol and one root (or strike), so a bucket is a minute; of its    *)
(* figures only the number of contracts is kept, one per trade.            *)
(***************************************************************************)
EXTENDS Naturals, FiniteSets, FiniteSetsExt

CONSTANTS
  MaxMinute,     \* bound: minutes 1..MaxMinute
  MaxObserved,   \* bound: trades observed in all
  MaxPartials,   \* bound: flushes that fail with some of their rows committed
  Batch,         \* MINUTE_OPTION_FLOW_BATCH
  Cap            \* MAX_PENDING_BUCKETS, MAX_PENDING_STRIKE_CELLS

ASSUME FlowAssumption ==
  /\ MaxMinute \in Nat \ {0} /\ MaxObserved \in Nat /\ MaxPartials \in Nat
  /\ Batch \in Nat \ {0} /\ Cap \in Nat \ {0}

VARIABLES
  whole,    \* which recorder: TRUE for take_before once a minute, FALSE for
            \* take_strikes_all every 5 s; it never changes
  minute,   \* the current minute
  pending,  \* pending[m]: the bucket of minute m, 0 when there is none
  rows,     \* rows[m]: what the flush under way has taken
  todo,     \* the minutes of rows whose batch has not committed
  stored,   \* stored[m]: the row of minute_option_flow
  counted,  \* counted[m]: trades observed (history)
  lost,     \* lost[m]: trades dropped by the cap or by a crash (history)
  partials  \* flushes that failed with some of their rows committed (history)

flowVars == <<whole, minute, pending, rows, todo, stored, counted, lost, partials>>

Minutes == 1..MaxMinute
Empty == [m \in Minutes |-> 0]
Buckets(f) == {m \in Minutes : f[m] > 0}
Plus(f, g) == [m \in Minutes |-> f[m] + g[m]]
Only(f, S) == [m \in Minutes |-> IF m \in S THEN f[m] ELSE 0]
Total(f) == MapThenSumSet(LAMBDA m : f[m], Minutes)

\* The n oldest minutes of S.
Oldest(S, n) == {m \in S : Cardinality({k \in S : k < m}) < n}
Excess(S) == IF Cardinality(S) > Cap THEN Cardinality(S) - Cap ELSE 0

FlowTypeOK ==
  /\ whole \in BOOLEAN /\ minute \in Minutes
  /\ pending \in [Minutes -> Nat] /\ rows \in [Minutes -> Nat]
  /\ stored \in [Minutes -> Nat]
  /\ counted \in [Minutes -> Nat] /\ lost \in [Minutes -> Nat]
  /\ todo \subseteq Buckets(rows)
  /\ partials \in 0..MaxPartials

FlowInit ==
  /\ whole \in BOOLEAN /\ minute = 1
  /\ pending = Empty /\ rows = Empty /\ todo = {} /\ stored = Empty
  /\ counted = Empty /\ lost = Empty
  /\ partials = 0

-----------------------------------------------------------------------------
NextMinute ==
  /\ minute < MaxMinute
  /\ minute' = minute + 1
  /\ UNCHANGED <<whole, pending, rows, todo, stored, counted, lost, partials>>

\* observe_trade: a print may carry an earlier minute's exchange time.  A new
\* bucket past the cap drops the oldest ones, itself included.
ObserveTrade(m) ==
  /\ m <= minute
  /\ Total(counted) < MaxObserved
  /\ counted' = [counted EXCEPT ![m] = @ + 1]
  /\ LET more == [pending EXCEPT ![m] = @ + 1]
         evicted == IF pending[m] > 0 THEN {}
                    ELSE Oldest(Buckets(more), Excess(Buckets(more)))
     IN /\ pending' = Only(more, Minutes \ evicted)
        /\ lost' = Plus(lost, Only(more, evicted))
  /\ UNCHANGED <<whole, minute, rows, todo, stored, partials>>

\* Mutants: the buckets handed over are not forgotten, or forgotten too soon.
HandOverAndKeep(ready) ==
  /\ rows' = Only(pending, ready)
  /\ todo' = ready
  /\ UNCHANGED pending
ForgetThenHandOver(ready) ==
  /\ pending' = Only(pending, Minutes \ ready)
  /\ todo' = ready
  /\ UNCHANGED rows

\* A flush takes the buckets of the minutes in ready: the recorder forgets them.
HandOver(ready) ==
  /\ rows' = Only(pending, ready)
  /\ pending' = Only(pending, Minutes \ ready)
  /\ todo' = ready

\* take_before: once a minute, the minutes that have ended.
TakeBefore ==
  /\ whole /\ rows = Empty
  /\ \E m \in Buckets(pending) : m < minute
  /\ HandOver({m \in Buckets(pending) : m < minute})
  /\ UNCHANGED <<whole, minute, stored, counted, lost, partials>>

\* take_strikes_all: every 5 s, the current minute too.
TakeStrikesAll ==
  /\ ~whole /\ rows = Empty
  /\ Buckets(pending) # {}
  /\ HandOver(Buckets(pending))
  /\ UNCHANGED <<whole, minute, stored, counted, lost, partials>>

\* The next batch of the save: its minutes are added to the table, in one
\* transaction of its own.
NextBatch == Oldest(todo, Batch)

\* Mutant: ON CONFLICT DO UPDATE SET x = EXCLUDED.x.
ReplaceBatch == stored' = [m \in Minutes |-> IF m \in NextBatch THEN rows[m] ELSE stored[m]]

AddBatch == stored' = Plus(stored, Only(rows, NextBatch))

CommitBatch ==
  /\ todo # {}
  /\ AddBatch
  /\ todo' = todo \ NextBatch
  /\ rows' = IF todo' = {} THEN Empty ELSE rows
  /\ UNCHANGED <<whole, minute, pending, counted, lost, partials>>

\* Mutant: the returned minutes replace what was captured meanwhile.
PutBackOver == pending' = [m \in Minutes |-> IF rows[m] > 0 THEN rows[m] ELSE pending[m]]

\* put_back adds every row of the flush to what was captured meanwhile.
PutBack == pending' = Plus(pending, rows)

\* A batch raises: before its commit, or after it when only the answer is lost.
\* All the rows of the flush go back, those of committed batches too.
BatchFails(landed) ==
  /\ todo # {}
  /\ IF landed THEN AddBatch ELSE UNCHANGED stored
  /\ PutBack
  /\ IF landed \/ todo # Buckets(rows)
     THEN partials < MaxPartials /\ partials' = partials + 1
     ELSE UNCHANGED partials
  /\ rows' = Empty /\ todo' = {}
  /\ UNCHANGED <<whole, minute, counted, lost>>

\* The process stops or dies: what it had not written is gone.
Restart ==
  /\ lost' = Plus(lost, Plus(pending, Only(rows, todo)))
  /\ pending' = Empty /\ rows' = Empty /\ todo' = {}
  /\ UNCHANGED <<whole, minute, stored, counted, partials>>

FlowNext ==
  \/ NextMinute
  \/ \E m \in Minutes : ObserveTrade(m)
  \/ TakeBefore \/ TakeStrikesAll \/ CommitBatch
  \/ \E landed \in BOOLEAN : BatchFails(landed)
  \/ Restart

FlowSpec == FlowInit /\ [][FlowNext]_flowVars

\* The flush loop goes on for ever, minutes end, and the database does not
\* refuse any minute for ever.
FlowFairness ==
  /\ WF_flowVars(NextMinute) /\ WF_flowVars(TakeBefore) /\ WF_flowVars(TakeStrikesAll)
  /\ \A m \in Minutes : SF_flowVars(m \in NextBatch /\ CommitBatch)

FlowFairSpec == FlowSpec /\ FlowFairness

-----------------------------------------------------------------------------
\* No trade disappears but by the cap or a crash: it is stored, or it waits in a
\* bucket, or in the flush under way (the loops' "they stay queued").
NothingLost ==
  \A m \in Minutes :
    counted[m] <= stored[m] + pending[m] + Only(rows, todo)[m] + lost[m]

\* As long as no flush failed with rows already committed, every trade is in
\* exactly one place (take / put_back / the additive upsert).
ExactUnlessPartial ==
  partials = 0 => \A m \in Minutes :
    counted[m] = stored[m] + pending[m] + Only(rows, todo)[m] + lost[m]

\* A minute that has ended gets written in full, failures and all; only the cap
\* or a crash takes its trades.
EndedMinutesStored ==
  \A m \in 1..(MaxMinute - 1), n \in 1..MaxObserved :
    counted[m] >= n ~> stored[m] + lost[m] >= n

\* "every batch is one transaction, so a failed flush leaves nothing half
\* written" (save_minute_option_flow): no trade is added to the table twice.
NothingHalfWritten == \A m \in Minutes : stored[m] <= counted[m]

\* Every trade is accounted for, and once unless a flush failed in the middle.
TradesAccounted == FlowTypeOK /\ NothingLost /\ ExactUnlessPartial
=============================================================================
