----------------------------- MODULE WhaleEngine -----------------------------
(***************************************************************************)
(* The per-contract windows of WhaleAlertsEngine (src/backend/domain/      *)
(* use_cases/flow.py): the minute bucket in progress, the buckets of the   *)
(* comparison and of the sustained-flow window, and what closing a bucket  *)
(* does, alert by alert.  A bucket keeps the trades behind it, which stand *)
(* for the tallies by condition, the signed-only split and the contract    *)
(* count; buy and sell are doubled, so that a trade of unknown side adds   *)
(* half to each.                                                           *)
(***************************************************************************)
EXTENDS Integers, Sequences, SequencesExt, FiniteSets

CONSTANTS Window, Sustained,           \* 5 and 15 minutes
          MinPrevious, MinSustained,   \* 2 and 3 with partial windows
          UnusualMin, UnusualTimes, WhaleMin, WhaleTimes, SustainedMin

ASSUME WindowsAssumption ==
  /\ Window \in Nat \ {0} /\ Sustained \in Nat \ {0}
  /\ MinPrevious \in 1..Window /\ MinSustained \in 1..Sustained

SumOf(field, buckets) ==
  FoldLeft(LAMBDA sum, b : sum + b[field], 0, buckets)

NewBucket(start) ==
  [start |-> start, amount |-> 0, buy |-> 0, sell |-> 0,
   unavailable |-> TRUE, trades |-> <<>>]

NewState(start) ==
  [bucket |-> NewBucket(start), previous |-> <<>>, window |-> <<>>,
   alerted |-> FALSE, count |-> 0]

\* A deque with a maximum length.
Push(deque, x, size) ==
  LET all == Append(deque, x)
  IN  IF Len(all) > size THEN Tail(all) ELSE all

\* The type of a bucket of this amount after these buckets, if it is one.
Classify(amount, previous) ==
  LET total == SumOf("amount", previous)
      beats(least, times) ==
        amount >= least /\ amount * Len(previous) > total * times
  IN  CASE Len(previous) < MinPrevious    -> {}
        [] beats(WhaleMin, WhaleTimes)     -> {"WHALE"}
        [] beats(UnusualMin, UnusualTimes) -> {"UNUSUAL"}
        [] OTHER                           -> {}

\* The sustained minimum is prorated while the window is short.
Due(window) ==
  /\ Len(window) >= MinSustained
  /\ SumOf("amount", window) * Sustained >= SustainedMin * Len(window)

Alert(kind, buckets, start, count) ==
  [kind |-> kind, amount |-> SumOf("amount", buckets),
   buy |-> SumOf("buy", buckets), sell |-> SumOf("sell", buckets),
   unavailable |-> \A i \in DOMAIN buckets : buckets[i].unavailable,
   trades |-> FlattenSeq([i \in DOMAIN buckets |-> buckets[i].trades]),
   start |-> start, minutes |-> Len(buckets), count |-> count]

\* Close the bucket and start one at minute new.  Each alert is stored as it is
\* emitted; when the write number "failing" (0: none) raises, everything after
\* it is left undone: the windows it had not reached and the reset itself.
CloseKeepsAlerted(s, new, failing) ==
  LET window == Push(s.window, s.bucket, Sustained)
  IN  [state |-> [s EXCEPT !.window = window, !.alerted = @ \/ Due(window),
                           !.previous = Push(@, s.bucket, Window),
                           !.bucket = NewBucket(new)],
       alerts |-> <<>>, failed |-> FALSE]
Close(s, new, failing) ==
  LET b      == s.bucket
      kinds  == Classify(b.amount, s.previous)
      spikes == Cardinality(kinds)
      window == Push(s.window, b, Sustained)
      fires  == Due(window) /\ ~s.alerted
      spike  == [i \in 1..spikes |->
                   Alert(CHOOSE k \in kinds : TRUE, <<b>>, b.start, s.count + 1)]
      flow   == Alert("SUSTAINED_FLOW", window, b.start - (Len(window) - 1),
                      s.count + spikes + 1)
      moved  == [s EXCEPT !.window = window, !.alerted = Due(window),
                          !.count = @ + spikes + (IF fires THEN 1 ELSE 0)]
  IN  CASE spikes = 1 /\ failing = 1 ->
             [state |-> [s EXCEPT !.count = @ + 1], alerts |-> <<>>, failed |-> TRUE]
        [] fires /\ failing = spikes + 1 ->
             [state |-> moved, alerts |-> spike, failed |-> TRUE]
        [] OTHER ->
             [state |-> [moved EXCEPT !.previous = Push(@, b, Window),
                                      !.bucket = NewBucket(new)],
              alerts |-> IF fires THEN Append(spike, flow) ELSE spike,
              failed |-> FALSE]

\* Premium on each side, doubled.
Buys(t)  == CASE t.side = "BUY" -> 2 * t.premium [] t.side = "SELL" -> 0
              [] OTHER -> t.premium
Sells(t) == 2 * t.premium - Buys(t)

Add(b, t) ==
  [b EXCEPT !.amount = @ + t.premium, !.buy = @ + Buys(t), !.sell = @ + Sells(t),
            !.unavailable = @ /\ t.side = "UNKNOWN", !.trades = Append(@, t)]

\* process_trade for a contract already known: a trade of another minute, later
\* or earlier, closes the bucket first; when that fails the trade is not added.
OnlyNewerCloses(s, t, failing) ==
  LET closed == IF t.at <= s.bucket.start
                THEN [state |-> s, alerts |-> <<>>, failed |-> FALSE]
                ELSE Close(s, t.at, failing)
  IN  [closed EXCEPT !.state.bucket = Add(@, t)]
ProcessTrade(s, t, failing) ==
  LET closed == IF t.at = s.bucket.start
                THEN [state |-> s, alerts |-> <<>>, failed |-> FALSE]
                ELSE Close(s, t.at, failing)
  IN  IF closed.failed THEN closed
      ELSE [closed EXCEPT !.state.bucket = Add(@, t)]
=============================================================================
