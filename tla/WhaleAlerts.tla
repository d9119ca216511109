----------------------------- MODULE WhaleAlerts -----------------------------
(***************************************************************************)
(* The trades of one symbol on their way to the whale alerts: the relay    *)
(* from the stream processor (whale_alerts_relay.py), the trade consumer   *)
(* and the periodic flush of StreamWhaleAlertsUseCase, which share a lock  *)
(* and call the engine on executor threads, and the manager that restarts  *)
(* them (whale_alerts_stream.py).  The alerts are written to storage from  *)
(* inside the engine calls, and a write may fail.  A call goes on trade by *)
(* trade, or contract by contract, so that a thread of a cancelled flush   *)
(* can come in between.                                                    *)
(***************************************************************************)
EXTENDS WhaleEngine

CONSTANTS Contracts,
          Batch,        \* 1, or BATCH_MAX_SIZE for SPY and QQQ
          QueueSize,    \* RELAY_QUEUE_MAXSIZE
          Failing,      \* the calls whose writes may fail: "trades", "flush"
          MaxTrades, MaxMinute, MaxFailures   \* bounds

ASSUME WhaleAssumption ==
  /\ Batch \in Nat \ {0} /\ QueueSize \in Nat
  /\ MaxTrades \in Nat /\ MaxMinute \in Nat /\ MaxFailures \in Nat

VARIABLES now, published,
          linked, outbox,     \* the relay: connected, queue of the server
          inbox,              \* queue of the symbol in RelayDataProvider
          engine,             \* _trade_states
          trader, batch,      \* the trade consumer; what it has collected and
                              \* the engine has not yet taken
          flusher, minute,    \* the flush task, the minute its call flushes to
          remaining,          \* and the contracts this call has yet to look at
          lock,               \* holder of the per-symbol asyncio.Lock
          orphans,            \* executor calls of cancelled flushes
          taken, saved, failures   \* what the engine took, alerts stored (history)

relay == <<linked, outbox, inbox>>
tasks == <<trader, batch, flusher, minute, remaining, lock, orphans>>
vars  == <<now, published, relay, engine, tasks, taken, saved, failures>>

None == [k \in {} |-> 0]

Init ==
  /\ now = 1 /\ published = 0
  /\ linked = TRUE /\ outbox = <<>> /\ inbox = <<>>
  /\ engine = None
  /\ trader = "idle" /\ batch = <<>> /\ flusher = "asleep"
  /\ minute = 0 /\ remaining = {} /\ lock = "free" /\ orphans = <<>>
  /\ taken = <<>> /\ saved = <<>> /\ failures = 0

-----------------------------------------------------------------------------
\* A print: its place in the order of publication, its contract, its minute.  A
\* premium of one makes a bucket's amount the number of its trades.
Trade == [n : Nat, c : Contracts, at : Nat, premium : {1}, side : {"BUY"}]
Bucket == [start : Nat, amount : Nat, buy : Nat, sell : Nat,
           unavailable : BOOLEAN, trades : Seq(Trade)]
ContractState == [bucket : Bucket, previous : Seq(Bucket), window : Seq(Bucket),
                  alerted : BOOLEAN, count : Nat]

-----------------------------------------------------------------------------
\* The relay.  Without a client, or with a full queue, a trade is dropped.
Offer(queue, t) == IF Len(queue) < QueueSize THEN Append(queue, t) ELSE queue

Publish(c) ==
  /\ published < MaxTrades
  /\ published' = published + 1
  /\ outbox' = IF linked
               THEN Offer(outbox, [n |-> published + 1, c |-> c, at |-> now,
                                   premium |-> 1, side |-> "BUY"])
               ELSE outbox
  /\ UNCHANGED <<now, linked, inbox, engine, tasks, taken, saved, failures>>

DeliverTwice ==
  /\ linked /\ outbox # <<>>
  /\ inbox' = Offer(inbox, Head(outbox))
  /\ UNCHANGED <<linked, outbox, now, published, engine, tasks, taken, saved, failures>>
Deliver ==
  /\ linked /\ outbox # <<>>
  /\ inbox' = Offer(inbox, Head(outbox)) /\ outbox' = Tail(outbox)
  /\ UNCHANGED <<linked, now, published, engine, tasks, taken, saved, failures>>

\* What the server had queued for the lost client is gone.
Disconnect ==
  /\ linked
  /\ linked' = FALSE /\ outbox' = <<>>
  /\ UNCHANGED <<inbox, now, published, engine, tasks, taken, saved, failures>>
Reconnect ==
  /\ ~linked
  /\ linked' = TRUE
  /\ UNCHANGED <<outbox, inbox, now, published, engine, tasks, taken, saved, failures>>

-----------------------------------------------------------------------------
\* Engine calls.  Of a contract the engine sees for the first time it makes a state.
Known(e, c, at) ==
  IF c \in DOMAIN e THEN e
  ELSE [k \in DOMAIN e \cup {c} |-> IF k = c THEN NewState(at) ELSE e[k]]

Named(c, alerts) == [i \in DOMAIN alerts |-> [c |-> c, alert |-> alerts[i]]]

\* What one contract's part of a call leaves, the write that failed included.
Leaves(e, c, done) ==
  /\ engine' = [e EXCEPT ![c] = done.state]
  /\ saved' = saved \o Named(c, done.alerts)
  /\ failures' = IF done.failed THEN failures + 1 ELSE failures

MayFail(who) == who \in Failing /\ failures < MaxFailures

-----------------------------------------------------------------------------
\* The trade consumer: collect, take the lock, call the engine.
Collect ==
  /\ trader = "idle" /\ inbox # <<>>
  /\ \E k \in 1..Batch :
       /\ k <= Len(inbox)
       /\ batch' = SubSeq(inbox, 1, k) /\ inbox' = SubSeq(inbox, k + 1, Len(inbox))
  /\ trader' = "ready"
  /\ UNCHANGED <<now, published, linked, outbox, engine, flusher, minute, remaining, lock,
                 orphans, taken, saved, failures>>

TraderLocks ==
  /\ trader = "ready" /\ lock = "free"
  /\ trader' = "calling" /\ lock' = "trades"
  /\ UNCHANGED <<now, published, relay, engine, batch, flusher, minute, remaining, orphans,
                 taken, saved, failures>>

\* process_trade_batch: the next trade of the batch.  When a write fails the
\* exception ends the call, and the trades after this one are not looked at.
TraderCounts ==
  /\ trader = "calling" /\ batch # <<>>
  /\ LET t == Head(batch)
         known == Known(engine, t.c, t.at)
     IN  /\ taken' = Append(taken, t.n)
         /\ \E failing \in {0, 1, 2} :
              LET done == ProcessTrade(known[t.c], t, failing)
              IN  /\ done.failed => MayFail("trades")
                  /\ Leaves(known, t.c, done)
                  /\ IF done.failed
                     THEN trader' = "failed" /\ lock' = "free" /\ batch' = <<>>
                     ELSE batch' = Tail(batch) /\ UNCHANGED <<trader, lock>>
  /\ UNCHANGED <<now, published, relay, flusher, minute, remaining, orphans>>

TraderReturns ==
  /\ trader = "calling" /\ batch = <<>>
  /\ trader' = "idle" /\ lock' = "free"
  /\ UNCHANGED <<now, published, relay, engine, batch, flusher, minute, remaining,
                 orphans, taken, saved, failures>>

\* The exception ends run(): the flush is cancelled, but a thread it started
\* runs on.  Closing the collector drops a trade it had already fetched.
RunEnds ==
  /\ trader = "failed"
  /\ trader' = "backoff" /\ flusher' = "none" /\ lock' = "free"
  /\ orphans' = IF flusher = "calling"
                THEN Append(orphans, [minute |-> minute, remaining |-> remaining])
                ELSE orphans
  /\ remaining' = {}
  /\ \E k \in {0, 1} :
       /\ k = 1 => Batch > 1 /\ inbox # <<>>
       /\ inbox' = SubSeq(inbox, k + 1, Len(inbox))
  /\ UNCHANGED <<now, published, linked, outbox, engine, batch, minute, taken,
                 saved, failures>>

\* _run_symbol starts it again after its delay, with a lock of its own.
RestartTradesOnly ==
  /\ trader = "backoff"
  /\ trader' = "idle"
  /\ UNCHANGED <<now, published, relay, engine, batch, flusher, minute, remaining, lock,
                 orphans, taken, saved, failures>>
Restart ==
  /\ trader = "backoff"
  /\ trader' = "idle" /\ flusher' = "asleep"
  /\ UNCHANGED <<now, published, relay, engine, batch, minute, remaining, lock, orphans,
                 taken, saved, failures>>

-----------------------------------------------------------------------------
\* The flush: every 15 seconds, under the same lock.
FlushDue ==
  /\ flusher = "asleep"
  /\ flusher' = "waiting"
  /\ UNCHANGED <<now, published, relay, engine, trader, batch, minute, remaining, lock,
                 orphans, taken, saved, failures>>

\* The call goes through the contracts known when it starts.
FlushLocks ==
  /\ flusher = "waiting" /\ lock = "free"
  /\ flusher' = "calling" /\ lock' = "flush"
  /\ minute' = now /\ remaining' = DOMAIN engine
  /\ UNCHANGED <<now, published, relay, engine, trader, batch, orphans, taken,
                 saved, failures>>

\* flush_stale_buckets to minute m: one contract, closed if its minute is over.
Looks(c, m) ==
  IF engine[c].bucket.start < m
  THEN \E failing \in {0, 1, 2} :
         LET done == Close(engine[c], m, failing)
         IN  /\ done.failed => MayFail("flush")
             /\ Leaves(engine, c, done)
  ELSE UNCHANGED <<engine, saved, failures>>

\* Nothing catches a failure here: the task is over.
FlushLooks(c) ==
  /\ flusher = "calling" /\ c \in remaining
  /\ Looks(c, minute)
  /\ IF failures' > failures
     THEN flusher' = "dead" /\ lock' = "free" /\ remaining' = {}
     ELSE remaining' = remaining \ {c} /\ UNCHANGED <<flusher, lock>>
  /\ UNCHANGED <<now, published, relay, trader, batch, minute, orphans, taken>>

FlushReturns ==
  /\ flusher = "calling" /\ remaining = {}
  /\ flusher' = "asleep" /\ lock' = "free"
  /\ UNCHANGED <<now, published, relay, engine, trader, batch, minute, remaining,
                 orphans, taken, saved, failures>>

\* A thread that nobody waits for any more does the same.
OrphanLooks(i, c) ==
  /\ c \in orphans[i].remaining
  /\ Looks(c, orphans[i].minute)
  /\ orphans' = IF failures' > failures THEN RemoveAt(orphans, i)
                ELSE [orphans EXCEPT ![i].remaining = @ \ {c}]
  /\ UNCHANGED <<now, published, relay, trader, batch, flusher, minute, remaining,
                 lock, taken>>

OrphanReturns(i) ==
  /\ orphans[i].remaining = {}
  /\ orphans' = RemoveAt(orphans, i)
  /\ UNCHANGED <<now, published, relay, engine, trader, batch, flusher, minute,
                 remaining, lock, taken, saved, failures>>

-----------------------------------------------------------------------------
Tick ==
  /\ now < MaxMinute
  /\ now' = now + 1
  /\ UNCHANGED <<published, relay, engine, tasks, taken, saved, failures>>

TaskStep ==
  \/ Collect \/ TraderLocks \/ TraderCounts \/ TraderReturns \/ RunEnds \/ Restart
  \/ FlushDue \/ (\E c \in remaining : FlushLooks(c)) \/ FlushReturns
  \/ \E i \in DOMAIN orphans :
       (\E c \in orphans[i].remaining : OrphanLooks(i, c)) \/ OrphanReturns(i)
RelayStep == Deliver \/ Disconnect \/ Reconnect
Next == \/ \E c \in Contracts : Publish(c)
        \/ RelayStep \/ TaskStep \/ FlushLocks \/ Tick

\* The tasks of the loop go on, engine calls end, and asyncio.Lock serves its
\* waiters in turn.
TraderCallEnds == trader = "calling" /\ trader' \in {"idle", "failed"}
FlushCallEnds  == flusher = "calling" /\ flusher' \in {"asleep", "dead"}
Fairness ==
  /\ WF_vars(TraderLocks) /\ WF_trader(TraderCallEnds)
  /\ WF_vars(RunEnds) /\ WF_vars(Restart)
  /\ WF_vars(FlushDue) /\ SF_vars(FlushLocks) /\ WF_flusher(FlushCallEnds)
Spec == Init /\ [][Next]_vars /\ Fairness

-----------------------------------------------------------------------------
TypeOK ==
  /\ now \in Nat /\ published \in Nat /\ linked \in BOOLEAN
  /\ outbox \in Seq(Trade) /\ inbox \in Seq(Trade) /\ batch \in Seq(Trade)
  /\ DOMAIN engine \subseteq Contracts /\ engine \in [DOMAIN engine -> ContractState]
  /\ trader \in {"idle", "ready", "calling", "failed", "backoff"}
  /\ flusher \in {"none", "asleep", "waiting", "calling", "dead"}
  /\ lock \in {"free", "trades", "flush"}
  /\ minute \in Nat /\ remaining \subseteq DOMAIN engine
  /\ orphans \in Seq([minute : Nat, remaining : SUBSET DOMAIN engine])
  /\ taken \in Seq(Nat) /\ failures \in Nat

Buckets(state) ==
  {state.bucket} \cup Range(state.previous) \cup Range(state.window)

HoldsItsMinute(b, c) ==
  /\ b.amount = Len(b.trades)
  /\ \A i \in DOMAIN b.trades : b.trades[i].at = b.start /\ b.trades[i].c = c

\* Readings "are grouped into real calendar-minute buckets": a trade that comes
\* after the flush has moved on to the next minute is never counted in that one.
BucketHoldsItsMinute ==
  \A c \in DOMAIN engine : \A b \in Buckets(engine[c]) : HoldsItsMinute(b, c)

\* Over lost connections, full queues and restarts the engine sees the trades in
\* the order they were published and none twice.
TakenInOrder == \A i, j \in DOMAIN taken : i < j => taken[i] < taken[j]

\* The sustained flag says whether the window as it stands is due, so an episode
\* is alerted once and the next one again, whatever write failed on the way.
AlertedMatchesWindow ==
  \A c \in DOMAIN engine : engine[c].alerted = Due(engine[c].window)

\* "flush_stale_buckets: a thinly-traded contract's bucket previously wouldn't
\* close until that same contract's next trade": now the bucket of a minute that
\* is over closes without one.
Waiting(c, n) ==
  /\ c \in DOMAIN engine /\ engine[c].bucket.start < now
  /\ \E i \in DOMAIN engine[c].bucket.trades : engine[c].bucket.trades[i].n = n
BucketsClose ==
  \A c \in Contracts, n \in 1..MaxTrades : Waiting(c, n) ~> ~Waiting(c, n)

\* "a flush call and a process_trade() call for this symbol's own contracts can
\* never run concurrently on two different executor threads" (run()).
Calls == (IF trader = "calling" THEN 1 ELSE 0)
         + (IF flusher = "calling" THEN 1 ELSE 0) + Len(orphans)
OneCallAtATime == Calls <= 1

\* Every trade is taken once, in order, and counted in its own minute.
TradesInPlace == TypeOK /\ BucketHoldsItsMinute /\ TakenInOrder
=============================================================================
