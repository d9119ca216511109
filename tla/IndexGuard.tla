----------------------------- MODULE IndexGuard -----------------------------
(***************************************************************************)
(* The stale index guard (index_stale_guard.py): while the feed of an      *)
(* index lags, its price is derived from the ETF that follows it, and the  *)
(* stream processor publishes that it does.                                *)
(*                                                                         *)
(* One index and its proxy.  Every tick of the two passes through          *)
(* observe_index or observe_proxy; a background task turns the changes of  *)
(* the guard into a stored row, retries a write that failed and refreshes  *)
(* the row of an open episode; the reader of the row stops trusting one    *)
(* that is not refreshed.  The guard itself lives in memory: a restart of  *)
(* the processor loses it and keeps the row.                               *)
(*                                                                         *)
(* Ratios are in hundred-thousandths.  Time is a bounded clock; the hold   *)
(* times of the code are constants.                                        *)
(***************************************************************************)
EXTENDS Numbers, Entities

CONSTANTS
  IndexPrices, ProxyPrices,     \* the prices a tick may carry
  SILENCE_LIMIT, RECENT_WINDOW, DRIFT_HOLD, RECOVER_HOLD, SAMPLE_EVERY,
  RATIO_WINDOW, MIN_SAMPLES, PROXY_FRESH, STATUS_HEARTBEAT, STATUS_STALE,
  MaxNow                        \* bound of the model: the clock

ASSUME GuardAssumption ==
  /\ None \notin Int /\ None \notin [active : BOOLEAN, since : Nat, updated_at : Nat]
  /\ \A p \in IndexPrices \cup ProxyPrices : p \in Nat \ {0}
  /\ MIN_SAMPLES \in Nat \ {0}
  /\ {SILENCE_LIMIT, RECENT_WINDOW, DRIFT_HOLD, RECOVER_HOLD, SAMPLE_EVERY, RATIO_WINDOW,
      PROXY_FRESH, STATUS_HEARTBEAT, STATUS_STALE, MaxNow} \subseteq Nat

VARIABLES
  now,        \* the clock
  guard,      \* the state kept for the index
  proxy,      \* the last price of the proxy and when it came
  changes,    \* changes not yet drained by the publisher
  publisher,  \* open episode, last write and the status still to be written
  row,        \* the stored row of index_price_fallback
  unhealthy_at, \* when a tick last lagged or drifted, or silence was found
  restarted_at  \* when the processor was restarted

guardVars == <<now, guard, proxy, changes, publisher, row, unhealthy_at, restarted_at>>

RatioScale == 100000
RatioOf(price, of) == (price * RatioScale) \div of

(* Twice a median against twice the good ratio: off by more than 0.0005.   *)
Drifts(twice_recent, good) == Abs(twice_recent - 2 * good) * 2000 > 2 * good

IndexState ==
  [samples |-> <<>>, recent |-> <<>>, last_sample_at |-> None, active_ratio |-> None,
   drift_since |-> None, healthy_since |-> None, last_tick_at |-> None, reason |-> ""]

NoRow == [active |-> FALSE, updated_at |-> 0, since |-> 0]
Publisher == [open_since |-> None, last_written |-> None, pending |-> None]

GuardInit ==
  /\ now = 0 /\ guard = IndexState /\ proxy = None /\ changes = <<>>
  /\ publisher = Publisher /\ row = NoRow /\ unhealthy_at = None /\ restarted_at = None

-----------------------------------------------------------------------------
Ratios(kept) == [i \in 1..Len(kept) |-> kept[i].ratio]
Within(kept, window) == SelectSeq(kept, LAMBDA s : now - s.at <= window)

FreshProxy == IF proxy = None THEN None
              ELSE IF now - proxy.at > PROXY_FRESH THEN None ELSE proxy.price

GoodRatio(g) == IF Len(g.samples) < MIN_SAMPLES THEN None
                ELSE TwiceMedian(Ratios(g.samples)) \div 2

(* A healthy tick is sampled at most every SAMPLE_EVERY.                   *)
Sample(g, ratio) ==
  IF g.last_sample_at # None /\ now - g.last_sample_at < SAMPLE_EVERY THEN g
  ELSE [g EXCEPT !.last_sample_at = now,
                 !.samples = Within(Append(@, [at |-> now, ratio |-> ratio]), RATIO_WINDOW)]

Start(g, ratio, reason) ==
  [g EXCEPT !.active_ratio = ratio, !.reason = reason, !.drift_since = None, !.healthy_since = None]

Since(held, at) == IF held = None THEN at ELSE held

(* A tick of an open episode: written only when it is the one that ends    *)
(* it, after RECOVER_HOLD of healthy ticks.                                *)
EpisodeKeepsWaiting(g, healthy) ==
  LET healthy_since == Since(g.healthy_since, now)
  IN  IF healthy /\ now - healthy_since >= RECOVER_HOLD
      THEN [state |-> [g EXCEPT !.active_ratio = None, !.healthy_since = None, !.samples = <<>>,
                                !.last_sample_at = None], written |-> TRUE]
      ELSE [state |-> [g EXCEPT !.healthy_since = healthy_since], written |-> FALSE]

InEpisode(g, healthy) ==
  LET healthy_since == Since(g.healthy_since, now)
  IN  IF ~healthy THEN [state |-> [g EXCEPT !.healthy_since = None], written |-> FALSE]
      ELSE IF now - healthy_since >= RECOVER_HOLD
      THEN [state |-> [g EXCEPT !.active_ratio = None, !.healthy_since = None, !.samples = <<>>,
                                !.last_sample_at = None], written |-> TRUE]
      ELSE [state |-> [g EXCEPT !.healthy_since = healthy_since], written |-> FALSE]

(* A tick outside an episode: it opens one when it lags or the drift has   *)
(* lasted, and is sampled when it looks healthy.                           *)
OutsideEpisode(g, good, lagging, healthy, ratio) ==
  LET drift_held == g.drift_since # None /\ now - g.drift_since >= DRIFT_HOLD
  IN  IF (lagging \/ drift_held) /\ good # None
      THEN [state |-> Start(g, good, IF lagging THEN "lag" ELSE "drift"), written |-> FALSE]
      ELSE [state |-> IF healthy /\ ratio # None THEN Sample(g, ratio) ELSE g, written |-> TRUE]

Drifting(recent, good) ==
  recent # <<>> /\ good # None /\ Drifts(TwiceMedian(Ratios(recent)), good)

(* What observe_index makes of one tick of the index: the state after it,  *)
(* whether the tick is written, and whether it looked healthy.             *)
ObserveIndex(price, lagging) ==
  LET ratio == IF FreshProxy = None THEN None ELSE RatioOf(price, FreshProxy)
      recent == Within(IF ratio = None THEN guard.recent
                       ELSE Append(guard.recent, [at |-> now, ratio |-> ratio]), RECENT_WINDOW)
      good == IF guard.active_ratio # None THEN guard.active_ratio ELSE GoodRatio(guard)
      drifting == Drifting(recent, good)
      healthy == ~lagging /\ ~drifting
      seen == [guard EXCEPT !.last_tick_at = now, !.recent = recent,
                            !.drift_since = IF drifting THEN Since(@, now) ELSE None]
      told == IF seen.active_ratio # None THEN InEpisode(seen, healthy)
              ELSE OutsideEpisode(seen, good, lagging, healthy, ratio)
  IN  [state |-> told.state, written |-> told.written, healthy |-> healthy]

(* A tick of the proxy starts an episode when the index went silent.       *)
ObserveProxy ==
  LET silent == guard.last_tick_at # None /\ now - guard.last_tick_at > SILENCE_LIMIT
      good == GoodRatio(guard)
  IN  IF guard.active_ratio = None /\ silent /\ good # None THEN Start(guard, good, "silent")
      ELSE guard

ChangesFrom(before, after) ==
  IF (before.active_ratio = None) = (after.active_ratio = None) THEN <<>>
  ELSE <<[active |-> after.active_ratio # None, at |-> now]>>

-----------------------------------------------------------------------------
(* The actions: a tick of the index, a tick of the proxy, a round of the   *)
(* publisher, time, and a restart of the processor.  Of each symbol one    *)
(* tick comes in a unit of time at most.                                   *)

IndexTick ==
  /\ guard.last_tick_at # now
  /\ \E price \in IndexPrices, lagging \in BOOLEAN :
       \E told \in {ObserveIndex(price, lagging)} :
         /\ guard' = told.state
         /\ changes' = changes \o ChangesFrom(guard, told.state)
         /\ unhealthy_at' = IF told.healthy THEN unhealthy_at ELSE now
  /\ UNCHANGED <<now, proxy, publisher, row, restarted_at>>

ProxyTick ==
  /\ IF proxy = None THEN TRUE ELSE proxy.at # now
  /\ \E price \in ProxyPrices : proxy' = [at |-> now, price |-> price]
  /\ guard' = ObserveProxy
  /\ changes' = changes \o ChangesFrom(guard, guard')
  /\ unhealthy_at' = IF guard' = guard THEN unhealthy_at ELSE now
  /\ UNCHANGED <<now, publisher, row, restarted_at>>

StatusRow(active, since) == [active |-> active, since |-> since, updated_at |-> now]

(* The open episode after the first n of the changes.                      *)
OpenAfter(n) ==
  IF n = 0 THEN publisher.open_since
  ELSE IF changes[n].active THEN changes[n].at ELSE None

DrainedToFirst ==
  IF changes = <<>> THEN publisher
  ELSE [publisher EXCEPT !.open_since = OpenAfter(Len(changes)),
                         !.pending = IF @ # None THEN @
                                     ELSE StatusRow(changes[1].active, changes[1].at)]

(* Draining the changes, one after the other, leaves the status of the     *)
(* last one to be written: open since it started, or, when it ended, since *)
(* the change before it said.                                              *)
Drained ==
  LET n == Len(changes)
      change == changes[n]
  IN  IF changes = <<>> THEN publisher
      ELSE [publisher EXCEPT
              !.open_since = OpenAfter(n),
              !.pending = StatusRow(change.active, IF change.active THEN change.at
                                                   ELSE Since(OpenAfter(n - 1), change.at))]

(* An episode that stays open is written again every heartbeat.            *)
Refreshed(p) ==
  IF /\ p.open_since # None /\ p.pending = None
     /\ now - Since(p.last_written, p.open_since) >= STATUS_HEARTBEAT
     /\ guard.active_ratio # None
  THEN [p EXCEPT !.pending = StatusRow(TRUE, p.open_since)] ELSE p

(* One round; a write that fails leaves the status pending.                *)
Publish ==
  LET p == Refreshed(Drained)
  IN  /\ changes' = <<>>
      /\ \/ /\ p.pending # None
            /\ row' = p.pending
            /\ publisher' = [p EXCEPT !.pending = None, !.last_written = now]
         \/ /\ publisher' = p
            /\ row' = row
      /\ UNCHANGED <<now, guard, proxy, unhealthy_at, restarted_at>>

Pass ==
  /\ now < MaxNow
  /\ now' = now + 1
  /\ UNCHANGED <<guard, proxy, changes, publisher, row, unhealthy_at, restarted_at>>

(* One restart of the processor.                                           *)
RestartProcessor ==
  /\ restarted_at = None
  /\ restarted_at' = now
  /\ guard' = IndexState /\ proxy' = None /\ changes' = <<>> /\ publisher' = Publisher
  /\ UNCHANGED <<now, row, unhealthy_at>>

GuardNext == IndexTick \/ ProxyTick \/ Publish \/ Pass \/ RestartProcessor
GuardSpec == GuardInit /\ [][GuardNext]_guardVars

-----------------------------------------------------------------------------
Active == guard.active_ratio # None

(* What the pages read: an active row that was refreshed lately.           *)
TrustedActive == row.active /\ now - row.updated_at <= STATUS_STALE

-----------------------------------------------------------------------------
(* The row says what the guard does: while no change waits and no write is *)
(* owed, the page shows the index as replaced only if it is, except for    *)
(* STATUS_STALE after a restart of the processor, which forgets the        *)
(* episode and leaves its row (index_stale_guard.py:41-45).                *)
BannerTrue ==
  changes = <<>> /\ publisher.pending = None /\ TrustedActive =>
    Active \/ (IF restarted_at = None THEN FALSE ELSE now - restarted_at <= STATUS_STALE)

(* An episode ends only after RECOVER_HOLD in which no tick of the index   *)
(* lagged or drifted: a single bad tick starts the wait again.             *)
QuietBeforeRecovery ==
  [][Active /\ ~Active' /\ restarted_at' = restarted_at =>
       now - unhealthy_at >= RECOVER_HOLD]_guardVars
=============================================================================
