-------------------------- MODULE WhaleAlertsProofs --------------------------
(***************************************************************************)
(* Proofs about WhaleAlerts for any contracts, windows and thresholds, any *)
(* queue and batch sizes and any number of trades, minutes and failed      *)
(* writes.  What carries the order of the trades is the order of the whole *)
(* line: what the engine has taken, what is left of the batch, the queue   *)
(* of the symbol and the queue of the relay's server.                      *)
(***************************************************************************)
EXTENDS WhaleAlerts, SequenceTheorems, FiniteSetTheorems, TLAPS

-----------------------------------------------------------------------------
\* The trades of a queue in order, all those of one queue before those of another.
Rising(q) == \A i, j \in DOMAIN q : i < j => q[i].n < q[j].n
Before(p, q) == \A x \in Range(p), y \in Range(q) : x.n < y.n
TakenBefore(q) == \A k \in Range(taken), y \in Range(q) : k < y.n

\* Every trade is of those published, and stands in the line behind the ones
\* published before it.
InLine ==
  /\ TakenInOrder /\ Rising(batch) /\ Rising(inbox) /\ Rising(outbox)
  /\ Before(batch, inbox) /\ Before(batch, outbox) /\ Before(inbox, outbox)
  /\ TakenBefore(batch) /\ TakenBefore(inbox) /\ TakenBefore(outbox)
  /\ \A k \in Range(taken) : k <= published
  /\ \A x \in Range(batch) \cup Range(inbox) \cup Range(outbox) : x.n <= published

IInv == TypeOK /\ BucketHoldsItsMinute /\ AlertedMatchesWindow /\ InLine

-----------------------------------------------------------------------------
\* Queues: what is left of one, and what is put at its end.
LEMMA TailPart ==
  ASSUME NEW T, NEW q \in Seq(T), q # <<>>
  PROVE  /\ Head(q) = q[1] /\ 1 \in DOMAIN q /\ q[1] \in T
         /\ Tail(q) \in Seq(T)
         /\ \A i \in DOMAIN Tail(q) : i + 1 \in DOMAIN q /\ Tail(q)[i] = q[i + 1]
OBVIOUS

LEMMA SubSeqPart ==
  ASSUME NEW T, NEW q \in Seq(T), NEW k \in Nat \ {0}, NEW l \in Nat, l <= Len(q)
  PROVE  /\ SubSeq(q, k, l) \in Seq(T)
         /\ \A i \in DOMAIN SubSeq(q, k, l) :
              i \in Nat \ {0} /\ i + k - 1 \in DOMAIN q /\ i + k - 1 <= l
              /\ SubSeq(q, k, l)[i] = q[i + k - 1]
OBVIOUS

LEMMA AppendPart ==
  ASSUME NEW T, NEW q \in Seq(T), NEW t \in T
  PROVE  /\ Append(q, t) \in Seq(T)
         /\ \A i \in DOMAIN Append(q, t) :
              \/ i \in DOMAIN q /\ Append(q, t)[i] = q[i]
              \/ i = Len(q) + 1 /\ Append(q, t)[i] = t
         /\ \A i \in DOMAIN q : i \in 1..Len(q)
OBVIOUS

LEMMA RemoveAtPart ==
  ASSUME NEW T, NEW q \in Seq(T), NEW k \in DOMAIN q
  PROVE  RemoveAt(q, k) \in Seq(T)
BY DEF RemoveAt

LEMMA ElementOf ==
  ASSUME NEW T, NEW q \in Seq(T), NEW i \in DOMAIN q, NEW x \in T
  PROVE  q[i] \in T /\ [q EXCEPT ![i] = x] \in Seq(T)
<1>1. q[i] \in T
  OBVIOUS
<1>2. [q EXCEPT ![i] = x] \in Seq(T)
  BY ExceptSeq
<1> QED
  BY <1>1, <1>2

LEMMA WiderSeq ==
  ASSUME NEW S, NEW T, S \subseteq T, NEW q \in Seq(S)
  PROVE  q \in Seq(T)
OBVIOUS

LEMMA NoneInLine == DOMAIN <<>> = {} /\ \A T : <<>> \in Seq(T)
OBVIOUS

-----------------------------------------------------------------------------
\* A deque keeps what it had, the new element aside.
LEMMA PushType ==
  ASSUME NEW T, NEW q \in Seq(T), NEW x \in T, NEW size
  PROVE  Push(q, x, size) \in Seq(T) /\ Range(Push(q, x, size)) \subseteq Range(q) \cup {x}
<1> DEFINE all == Append(q, x)
<1>1. all \in Seq(T) /\ all # <<>> /\ Range(all) \subseteq Range(q) \cup {x}
  BY AppendPart DEF Range
<1> HIDE DEF all
<1>2. Tail(all) \in Seq(T) /\ Range(Tail(all)) \subseteq Range(all)
  BY <1>1, TailPart DEF Range
<1> QED
  BY <1>1, <1>2 DEF Push, all

\* At most one spike alert for a bucket.
LEMMA SpikesType ==
  ASSUME NEW amount, NEW previous
  PROVE  LET kinds == Classify(amount, previous)
         IN  /\ Cardinality(kinds) \in {0, 1}
             /\ Cardinality(kinds) = 1 => (CHOOSE k \in kinds : TRUE) \in {"WHALE", "UNUSUAL"}
<1> DEFINE kinds == Classify(amount, previous)
<1>1. \/ kinds = {}
      \/ kinds = {"WHALE"}
      \/ kinds = {"UNUSUAL"}
  BY DEF Classify
<1> HIDE DEF kinds
<1>2. Cardinality(kinds) \in {0, 1} /\ (kinds = {} => Cardinality(kinds) = 0)
  BY <1>1, FS_EmptySet, FS_Singleton
<1>3. kinds # {} => (CHOOSE k \in kinds : TRUE) \in {"WHALE", "UNUSUAL"}
  BY <1>1
<1> QED
  BY <1>2, <1>3 DEF kinds

LEMMA NewStateType ==
  ASSUME NEW at \in Nat
  PROVE  /\ NewBucket(at) \in Bucket /\ NewState(at) \in ContractState
         /\ Due(NewState(at).window) = FALSE
BY NoneInLine, WindowsAssumption DEF NewState, NewBucket, Bucket, ContractState, Due

\* The alerts of one contract's part of a call: one of a sustained flow says that the
\* window has just become due.
Sustains(a) == a.kind = "SUSTAINED_FLOW"
Starts(s, r) ==
  /\ \E n \in Nat : DOMAIN r.alerts = 1..n
  /\ (\E i \in DOMAIN r.alerts : Sustains(r.alerts[i])) => ~s.alerted /\ Due(r.state.window)

LEMMA NothingStarts == (\E n \in Nat : DOMAIN <<>> = 1..n) /\ DOMAIN <<>> = {}
<1>1. DOMAIN <<>> = 1..0
  OBVIOUS
<1> QED
  BY <1>1

\* What closing a bucket may do, whichever write fails: the bucket enters the
\* windows, and the flag is set with the window it speaks of.
Closed(s, new, r) ==
  /\ r.state \in ContractState /\ r.failed \in BOOLEAN
  /\ r.state.bucket \in {s.bucket, NewBucket(new)}
  /\ ~r.failed => r.state.bucket = NewBucket(new)
  /\ Range(r.state.previous) \subseteq Range(s.previous) \cup {s.bucket}
  /\ Range(r.state.window) \subseteq Range(s.window) \cup {s.bucket}
  /\ \/ r.state.alerted = Due(r.state.window)
     \/ r.state.alerted = s.alerted /\ r.state.window = s.window
  /\ Starts(s, r)

LEMMA CloseDoes ==
  ASSUME NEW s \in ContractState, NEW new \in Nat, NEW failing
  PROVE  Closed(s, new, Close(s, new, failing))
<1> DEFINE b      == s.bucket
           kinds  == Classify(b.amount, s.previous)
           spikes == Cardinality(kinds)
           window == Push(s.window, b, Sustained)
           fires  == Due(window) /\ ~s.alerted
           spike  == [i \in 1..spikes |->
                        Alert(CHOOSE k \in kinds : TRUE, <<b>>, b.start, s.count + 1)]
           flow   == Alert("SUSTAINED_FLOW", window, b.start - (Len(window) - 1),
                           s.count + spikes + 1)
           moved  == [s EXCEPT !.window = window, !.alerted = Due(window),
                               !.count = @ + spikes + (IF fires THEN 1 ELSE 0)]
           first  == [state |-> [s EXCEPT !.count = @ + 1], alerts |-> <<>>, failed |-> TRUE]
           second == [state |-> moved, alerts |-> spike, failed |-> TRUE]
           whole  == [state |-> [moved EXCEPT !.previous = Push(@, b, Window),
                                              !.bucket = NewBucket(new)],
                      alerts |-> IF fires THEN Append(spike, flow) ELSE spike,
                      failed |-> FALSE]
<1>1. Close(s, new, failing) = CASE spikes = 1 /\ failing = 1 -> first
                                 [] fires /\ failing = spikes + 1 -> second
                                 [] OTHER -> whole
  BY DEF Close
<1>2. spikes \in {0, 1} /\ \A i \in 1..spikes : spike[i].kind # "SUSTAINED_FLOW"
  <2>1. spikes = 1 => (CHOOSE k \in kinds : TRUE) \in {"WHALE", "UNUSUAL"}
    BY SpikesType
  <2>2. spikes \in {0, 1}
    BY SpikesType
  <2> DEFINE kind == CHOOSE k \in kinds : TRUE
  <2> HIDE DEF kinds, spikes, kind
  <2>3. \A i \in 1..spikes : spike[i].kind = kind
    BY DEF Alert, kind
  <2>4. spikes = 1 => kind # "SUSTAINED_FLOW"
    BY <2>1 DEF kind
  <2> HIDE DEF spike
  <2> QED
    BY <2>2, <2>3, <2>4
<1>3. b \in Bucket /\ s.previous \in Seq(Bucket) /\ s.window \in Seq(Bucket) /\ s.count \in Nat
  BY DEF ContractState
<1>4. window \in Seq(Bucket) /\ Range(window) \subseteq Range(s.window) \cup {b}
  BY <1>3, PushType
<1>5. /\ Push(s.previous, b, Window) \in Seq(Bucket)
      /\ Range(Push(s.previous, b, Window)) \subseteq Range(s.previous) \cup {b}
  BY <1>3, PushType
<1>6. Due(window) \in BOOLEAN
  BY DEF Due
<1>7. NewBucket(new) \in Bucket
  BY NewStateType
<1>8. /\ moved \in ContractState /\ moved.bucket = b /\ moved.previous = s.previous
      /\ moved.window = window /\ moved.alerted = Due(window)
  <2> DEFINE more == IF fires THEN 1 ELSE 0
  <2>1. s.count + spikes + more \in Nat
    BY <1>2, <1>3
  <2> HIDE DEF window, spikes, fires, b, more
  <2>2. moved = [s EXCEPT !.window = window, !.alerted = Due(window),
                          !.count = s.count + spikes + more]
    BY DEF ContractState, more
  <2> QED
    BY <1>3, <1>4, <1>6, <2>1, <2>2 DEF ContractState, b
<1>9. /\ DOMAIN spike = 1..spikes
      /\ DOMAIN Append(spike, flow) = 1..(spikes + 1)
      /\ \A i \in 1..(spikes + 1) :
           Append(spike, flow)[i] = IF i <= spikes THEN spike[i] ELSE flow
  <2>1. spike \in Seq({spike[i] : i \in 1..spikes}) /\ Len(spike) = spikes
    <3> HIDE DEF kinds
    <3> QED
      BY <1>2
  <2> HIDE DEF spike, flow, spikes
  <2> QED
    BY <1>2, <2>1
<1> HIDE DEF spike, flow, moved, window
<1>10. Closed(s, new, first)
  BY <1>3, NothingStarts DEF Closed, ContractState, Starts
<1>11. Closed(s, new, second)
  <2>1. Starts(s, second)
    <3> HIDE DEF spikes
    <3> QED
      BY <1>2, <1>9 DEF Starts, Sustains
  <2> QED
    BY <1>4, <1>8, <2>1 DEF Closed, b
<1>12. Closed(s, new, whole)
  <2>1. /\ whole.failed = FALSE /\ whole.state.bucket = NewBucket(new)
        /\ whole.state.previous = Push(s.previous, b, Window)
        /\ whole.state.window = window /\ whole.state.alerted = Due(window)
        /\ whole.state \in ContractState
    BY <1>5, <1>7, <1>8 DEF ContractState
  <2>2. Starts(s, whole)
    <3>1. (\E i \in DOMAIN whole.alerts : Sustains(whole.alerts[i])) => fires
      <4> HIDE DEF spikes, fires
      <4> QED
        BY <1>2, <1>9 DEF Sustains
    <3>2. \E n \in Nat : DOMAIN whole.alerts = 1..n
      <4> HIDE DEF spikes, fires
      <4> QED
        BY <1>2, <1>9
    <3> QED
      BY <2>1, <3>1, <3>2 DEF Starts
  <2> QED
    BY <1>4, <1>5, <2>1, <2>2 DEF Closed, b
<1> HIDE DEF first, second, whole, fires, spikes
<1> QED
  BY <1>1, <1>10, <1>11, <1>12

-----------------------------------------------------------------------------
\* What the invariants ask of the state of a contract.
Sound(s, c) == \A b \in Buckets(s) : HoldsItsMinute(b, c)
Flagged(s) == s.alerted = Due(s.window)

LEMMA NewStateSound ==
  ASSUME NEW at \in Nat, NEW c
  PROVE  HoldsItsMinute(NewBucket(at), c) /\ Sound(NewState(at), c) /\ Flagged(NewState(at))
<1>1. HoldsItsMinute(NewBucket(at), c)
  BY NoneInLine DEF HoldsItsMinute, NewBucket
<1>2. Buckets(NewState(at)) = {NewBucket(at)}
  BY NoneInLine DEF Buckets, NewState, Range
<1>3. Flagged(NewState(at))
  BY NewStateType DEF Flagged, NewState
<1> QED
  BY <1>1, <1>2, <1>3 DEF Sound

\* One contract's part of an engine call keeps both, and alerts as it should.
Keeps(s, c, r) ==
  /\ r.state \in ContractState /\ r.failed \in BOOLEAN
  /\ Sound(s, c) => Sound(r.state, c)
  /\ Flagged(s) => Flagged(r.state)
  /\ Starts(s, r)

LEMMA CloseKeeps ==
  ASSUME NEW s \in ContractState, NEW c, NEW new \in Nat, NEW failing
  PROVE  Keeps(s, c, Close(s, new, failing))
<1> DEFINE r == Close(s, new, failing)
<1>1. Closed(s, new, r)
  BY CloseDoes
<1> HIDE DEF r
<1>2. Buckets(r.state) \subseteq Buckets(s) \cup {NewBucket(new)}
  BY <1>1 DEF Closed, Buckets
<1>3. HoldsItsMinute(NewBucket(new), c)
  BY NewStateSound
<1>4. Flagged(s) => Flagged(r.state)
  BY <1>1 DEF Closed, Flagged
<1> QED
  BY <1>1, <1>2, <1>3, <1>4 DEF Keeps, Sound, Closed, r

\* A trade of the bucket's minute enters it.
LEMMA AddKeeps ==
  ASSUME NEW s \in ContractState, NEW t \in Trade, t.at = s.bucket.start
  PROVE  LET added == [s EXCEPT !.bucket = Add(@, t)]
         IN  /\ added \in ContractState
             /\ Sound(s, t.c) => Sound(added, t.c)
             /\ Flagged(s) => Flagged(added)
<1> DEFINE b == Add(s.bucket, t)
           added == [s EXCEPT !.bucket = Add(@, t)]
<1>1. s.bucket \in Bucket /\ s.bucket.trades \in Seq(Trade)
  BY DEF ContractState, Bucket
<1>2. b \in Bucket
  <2>1. t.premium = 1 /\ t.side = "BUY"
    BY DEF Trade
  <2>2. Buys(t) = 2 /\ Sells(t) = 0
    BY <2>1 DEF Buys, Sells
  <2>3. Append(s.bucket.trades, t) \in Seq(Trade)
    BY <1>1
  <2>4. /\ s.bucket.amount + t.premium \in Nat /\ s.bucket.buy + Buys(t) \in Nat
        /\ s.bucket.sell + Sells(t) \in Nat
        /\ (s.bucket.unavailable /\ t.side = "UNKNOWN") \in BOOLEAN
    BY <1>1, <2>1, <2>2 DEF Bucket
  <2>5. b = [s.bucket EXCEPT !.amount = s.bucket.amount + t.premium,
                             !.buy = s.bucket.buy + Buys(t), !.sell = s.bucket.sell + Sells(t),
                             !.unavailable = s.bucket.unavailable /\ t.side = "UNKNOWN",
                             !.trades = Append(s.bucket.trades, t)]
    BY <1>1 DEF Add, Bucket
  <2> QED
    BY <1>1, <2>3, <2>4, <2>5 DEF Bucket
<1>3. HoldsItsMinute(s.bucket, t.c) => HoldsItsMinute(b, t.c)
  <2>1. /\ b.amount = s.bucket.amount + 1 /\ b.start = s.bucket.start
        /\ b.trades = Append(s.bucket.trades, t)
    BY <1>1 DEF Add, Trade, Bucket
  <2> QED
    BY <1>1, <2>1, AppendPart DEF HoldsItsMinute
<1> HIDE DEF b
<1>4. /\ added = [s EXCEPT !.bucket = b] /\ added \in ContractState /\ added.bucket = b
      /\ added.previous = s.previous /\ added.window = s.window /\ added.alerted = s.alerted
  BY <1>2 DEF ContractState, b
<1> HIDE DEF added
<1>5. Sound(s, t.c) => Sound(added, t.c)
  BY <1>3, <1>4 DEF Sound, Buckets
<1>6. Flagged(s) => Flagged(added)
  BY <1>4 DEF Flagged
<1> QED
  BY <1>4, <1>5, <1>6 DEF added

LEMMA TradeKeeps ==
  ASSUME NEW s \in ContractState, NEW t \in Trade, NEW failing
  PROVE  Keeps(s, t.c, ProcessTrade(s, t, failing))
<1> DEFINE closed == IF t.at = s.bucket.start
                     THEN [state |-> s, alerts |-> <<>>, failed |-> FALSE]
                     ELSE Close(s, t.at, failing)
           r == ProcessTrade(s, t, failing)
<1>1. r = IF closed.failed THEN closed ELSE [closed EXCEPT !.state.bucket = Add(@, t)]
  BY DEF ProcessTrade
<1>2. t.at \in Nat
  BY DEF Trade
<1>3. /\ Keeps(s, t.c, closed)
      /\ ~closed.failed => closed.state.bucket.start = t.at
  <2>1. CASE t.at = s.bucket.start
    BY <2>1, NothingStarts DEF Keeps, Starts
  <2>2. CASE t.at # s.bucket.start
    <3>1. closed = Close(s, t.at, failing)
      BY <2>2
    <3>2. Closed(s, t.at, closed) /\ Keeps(s, t.c, closed)
      BY <1>2, <3>1, CloseKeeps, CloseDoes
    <3> QED
      BY <3>2 DEF Closed, NewBucket
  <2> QED
    BY <2>1, <2>2
<1>4. [closed EXCEPT !.state.bucket = Add(@, t)].state = [closed.state EXCEPT !.bucket = Add(@, t)]
  <2>1. DOMAIN closed = {"state", "alerts", "failed"}
    <3>1. DOMAIN Close(s, t.at, failing) = {"state", "alerts", "failed"}
      BY DEF Close
    <3> QED
      BY <3>1
  <2> QED
    BY <2>1
<1>5. CASE closed.failed
  BY <1>1, <1>3, <1>5
<1>6. CASE ~closed.failed
  <2> DEFINE added == [closed.state EXCEPT !.bucket = Add(@, t)]
  <2>1. /\ r.state = added /\ r.failed = closed.failed /\ r.alerts = closed.alerts
        /\ r.state.window = closed.state.window
    BY <1>1, <1>3, <1>4, <1>6 DEF Keeps, ContractState
  <2>2. closed.state \in ContractState /\ closed.state.bucket.start = t.at
    BY <1>3, <1>6 DEF Keeps
  <2>3. /\ added \in ContractState
        /\ Sound(closed.state, t.c) => Sound(added, t.c)
        /\ Flagged(closed.state) => Flagged(added)
    BY <2>2, AddKeeps
  <2> HIDE DEF added, closed, r
  <2> QED
    BY <1>3, <2>1, <2>3 DEF Keeps, Starts, r
<1> QED
  BY <1>5, <1>6

-----------------------------------------------------------------------------
\* The states of all contracts.
Typed(e) == DOMAIN e \subseteq Contracts /\ e \in [DOMAIN e -> ContractState]
Good(e) ==
  /\ Typed(e)
  /\ \A c \in DOMAIN e : Sound(e[c], c) /\ Flagged(e[c])

LEMMA KnownGood ==
  ASSUME NEW e, Good(e), NEW c \in Contracts, NEW at \in Nat
  PROVE  Good(Known(e, c, at)) /\ DOMAIN Known(e, c, at) = DOMAIN e \cup {c}
<1>1. CASE c \in DOMAIN e
  BY <1>1 DEF Known
<1>2. CASE c \notin DOMAIN e
  <2> DEFINE new == NewState(at)
             more == [k \in DOMAIN e \cup {c} |-> IF k = c THEN new ELSE e[k]]
  <2>1. Known(e, c, at) = more
    BY <1>2 DEF Known
  <2>2. new \in ContractState /\ Sound(new, c) /\ Flagged(new)
    BY NewStateType, NewStateSound
  <2> HIDE DEF new
  <2>3. Good(more)
    BY <1>2, <2>2 DEF Good, Typed
  <2> QED
    BY <2>1, <2>3
<1> QED
  BY <1>1, <1>2

LEMMA LeavesGood ==
  ASSUME NEW e, Good(e), NEW c \in DOMAIN e, NEW done,
         Keeps(e[c], c, done), Leaves(e, c, done), failures \in Nat
  PROVE  Good(engine') /\ DOMAIN engine' = DOMAIN e /\ failures' \in Nat
<1>1. engine' = [e EXCEPT ![c] = done.state] /\ failures' \in Nat
  BY DEF Leaves
<1>2. done.state \in ContractState /\ Sound(done.state, c) /\ Flagged(done.state)
  BY DEF Keeps, Good
<1> DEFINE new == done.state
<1> HIDE DEF new
<1>3. engine' = [e EXCEPT ![c] = new] /\ new \in ContractState /\ Sound(new, c) /\ Flagged(new)
  BY <1>1, <1>2 DEF new
<1> QED
  BY <1>1, <1>3 DEF Good, Typed

\* The invariants about the engine are that its states are good.
LEMMA GoodEngine ==
  Good(engine) <=> /\ Typed(engine) /\ BucketHoldsItsMinute /\ AlertedMatchesWindow
BY DEF Good, BucketHoldsItsMinute, AlertedMatchesWindow, Sound, Flagged

\* One contract of a flush: nothing is added, and the alerts match.
LEMMA LooksGood ==
  ASSUME Good(engine), failures \in Nat, NEW c \in DOMAIN engine, NEW m \in Nat, Looks(c, m)
  PROVE  Good(engine') /\ DOMAIN engine' = DOMAIN engine /\ failures' \in Nat
<1>1. CASE engine[c].bucket.start < m
  <2>1. PICK failing \in {0, 1, 2} : Leaves(engine, c, Close(engine[c], m, failing))
    BY <1>1 DEF Looks
  <2>2. Keeps(engine[c], c, Close(engine[c], m, failing))
    BY CloseKeeps DEF Good, Typed
  <2> QED
    BY <2>1, <2>2, LeavesGood
<1>2. CASE ~(engine[c].bucket.start < m)
  BY <1>2 DEF Looks
<1> QED
  BY <1>1, <1>2

-----------------------------------------------------------------------------
\* The line of the trades: what is put at the end of a queue, and what is taken
\* from its front.
LEMMA OfferRises ==
  ASSUME NEW q \in Seq(Trade), NEW t \in Trade, Rising(q), \A x \in Range(q) : x.n < t.n
  PROVE  /\ Offer(q, t) \in Seq(Trade) /\ Rising(Offer(q, t))
         /\ Range(Offer(q, t)) \subseteq Range(q) \cup {t}
<1> DEFINE all == Append(q, t)
<1>1. /\ all \in Seq(Trade)
      /\ \A i \in DOMAIN all : (i \in DOMAIN q /\ all[i] = q[i]) \/ (i = Len(q) + 1 /\ all[i] = t)
      /\ \A i \in DOMAIN q : i \in 1..Len(q)
  BY AppendPart, Zenon
<1>2. \A i \in DOMAIN q : q[i].n < t.n
  BY DEF Range
<1> HIDE DEF all
<1>3. Rising(all)
  <2> SUFFICES ASSUME NEW i \in DOMAIN all, NEW j \in DOMAIN all, i < j
               PROVE  all[i].n < all[j].n
    BY DEF Rising
  <2>1. Len(q) \in Nat
    OBVIOUS
  <2> QED
    BY <1>1, <1>2, <2>1 DEF Rising
<1>4. Range(all) \subseteq Range(q) \cup {t}
  BY <1>1 DEF Range
<1> QED
  BY <1>1, <1>3, <1>4 DEF Offer, all

LEMMA TailRises ==
  ASSUME NEW q \in Seq(Trade), q # <<>>, Rising(q)
  PROVE  /\ Head(q) \in Trade /\ Head(q) \in Range(q)
         /\ Tail(q) \in Seq(Trade) /\ Rising(Tail(q))
         /\ Range(Tail(q)) \subseteq Range(q)
         /\ \A x \in Range(Tail(q)) : Head(q).n < x.n
<1> DEFINE r == Tail(q)
<1>1. /\ Head(q) = q[1] /\ 1 \in DOMAIN q /\ q[1] \in Trade /\ r \in Seq(Trade)
      /\ \A i \in DOMAIN r : i + 1 \in DOMAIN q /\ r[i] = q[i + 1]
      /\ \A i \in DOMAIN r : i \in Nat /\ 1 < i + 1
  BY TailPart
<1> HIDE DEF r
<1>2. Rising(r)
  BY <1>1 DEF Rising
<1>3. \A i \in DOMAIN r : q[1].n < r[i].n
  BY <1>1 DEF Rising
<1> QED
  BY <1>1, <1>2, <1>3 DEF Range, r

LEMMA SplitRises ==
  ASSUME NEW q \in Seq(Trade), Rising(q), NEW k \in Nat, k <= Len(q)
  PROVE  LET p == SubSeq(q, 1, k)
             r == SubSeq(q, k + 1, Len(q))
         IN  /\ p \in Seq(Trade) /\ Rising(p) /\ Range(p) \subseteq Range(q)
             /\ r \in Seq(Trade) /\ Rising(r) /\ Range(r) \subseteq Range(q)
             /\ Before(p, r)
<1> DEFINE p == SubSeq(q, 1, k)
           r == SubSeq(q, k + 1, Len(q))
<1>1. /\ p \in Seq(Trade)
      /\ \A i \in DOMAIN p : i \in Nat /\ i \in DOMAIN q /\ i <= k /\ p[i] = q[i]
  BY SubSeqPart
<1>2. /\ r \in Seq(Trade)
      /\ \A i \in DOMAIN r : i \in Nat \ {0} /\ i + k \in DOMAIN q /\ r[i] = q[i + k]
  BY SubSeqPart
<1> HIDE DEF p, r
<1>3. Rising(p) /\ Range(p) \subseteq Range(q)
  BY <1>1 DEF Rising, Range
<1>4. Rising(r)
  BY SMTT(30), <1>2 DEF Rising
<1>5. Range(r) \subseteq Range(q)
  BY <1>2 DEF Range
<1>6. Before(p, r)
  <2>1. \A i \in DOMAIN p, j \in DOMAIN r : i < j + k /\ j + k \in DOMAIN q
    BY <1>1, <1>2
  <2> QED
    BY <1>1, <1>2, <2>1 DEF Before, Rising, Range
<1> QED
  BY <1>1, <1>2, <1>3, <1>4, <1>5, <1>6 DEF p, r

LEMMA NothingRises == Rising(<<>>) /\ <<>> \in Seq(Trade) /\ Range(<<>>) = {}
BY DEF Rising, Range

-----------------------------------------------------------------------------
\* The relay.
LEMMA PublishStep ==
  ASSUME IInv, NEW c \in Contracts, Publish(c) PROVE IInv'
<1> DEFINE t == [n |-> published + 1, c |-> c, at |-> now, premium |-> 1, side |-> "BUY"]
<1>1. t \in Trade /\ t.n = published + 1
  BY DEF IInv, TypeOK, Trade
<1>2. /\ published' = published + 1
      /\ outbox' = IF linked THEN Offer(outbox, t) ELSE outbox
      /\ UNCHANGED <<now, linked, inbox, engine, tasks, taken, saved, failures>>
  BY DEF Publish
<1> HIDE DEF t
<1>3. published \in Nat /\ outbox \in Seq(Trade)
  BY DEF IInv, TypeOK
<1>4. /\ \A x \in Range(batch) \cup Range(inbox) \cup Range(outbox) : x.n \in Nat /\ x.n < t.n
      /\ \A k \in Range(taken) : k \in Nat /\ k < t.n
  <2>1. /\ \A q \in Seq(Trade) : \A x \in Range(q) : x \in Trade
        /\ Range(taken) \subseteq Nat
    BY DEF Range, IInv, TypeOK
  <2>2. \A x \in Trade : x.n \in Nat
    BY DEF Trade
  <2>3. \A x \in Range(batch) \cup Range(inbox) \cup Range(outbox) : x.n \in Nat
    BY <2>1, <2>2 DEF IInv, TypeOK
  <2> QED
    BY <1>1, <1>3, <2>1, <2>3 DEF IInv, InLine
<1>5. /\ outbox' \in Seq(Trade) /\ Rising(outbox')
      /\ Range(outbox') \subseteq Range(outbox) \cup {t}
  BY <1>1, <1>2, <1>3, <1>4, OfferRises DEF IInv, InLine
<1>6. TypeOK' /\ BucketHoldsItsMinute' /\ AlertedMatchesWindow'
  BY <1>2, <1>3, <1>5 DEF IInv, TypeOK, tasks, BucketHoldsItsMinute, AlertedMatchesWindow
<1>7. InLine'
  <2>1. /\ Before(batch, outbox') /\ Before(inbox, outbox') /\ TakenBefore(outbox')
    BY <1>4, <1>5 DEF IInv, InLine, Before, TakenBefore
  <2>2. /\ \A k \in Range(taken) : k <= published'
        /\ \A x \in Range(batch) \cup Range(inbox) \cup Range(outbox') : x.n <= published'
    BY <1>1, <1>2, <1>3, <1>4, <1>5
  <2> QED
    BY <1>2, <1>5, <2>1, <2>2 DEF IInv, InLine, tasks, TakenInOrder, Before, TakenBefore
<1> QED
  BY <1>6, <1>7 DEF IInv

LEMMA DeliverStep ==
  ASSUME IInv, Deliver PROVE IInv'
<1> DEFINE t == Head(outbox)
<1>1. /\ outbox # <<>> /\ inbox' = Offer(inbox, t) /\ outbox' = Tail(outbox)
      /\ UNCHANGED <<linked, now, published, engine, tasks, taken, saved, failures>>
  BY DEF Deliver
<1>2. /\ t \in Trade /\ t \in Range(outbox)
      /\ outbox' \in Seq(Trade) /\ Rising(outbox') /\ Range(outbox') \subseteq Range(outbox)
      /\ \A x \in Range(outbox') : t.n < x.n
  BY <1>1, TailRises DEF IInv, TypeOK, InLine
<1> HIDE DEF t
<1>3. \A x \in Range(inbox) : x.n < t.n
  BY <1>2 DEF IInv, InLine, Before
<1>4. /\ inbox' \in Seq(Trade) /\ Rising(inbox') /\ Range(inbox') \subseteq Range(inbox) \cup {t}
  BY <1>1, <1>2, <1>3, OfferRises DEF IInv, TypeOK, InLine
<1>5. TypeOK' /\ BucketHoldsItsMinute' /\ AlertedMatchesWindow'
  BY <1>1, <1>2, <1>4 DEF IInv, TypeOK, tasks, BucketHoldsItsMinute, AlertedMatchesWindow
<1>6. InLine'
  <2>1. /\ Before(batch, inbox') /\ TakenBefore(inbox')
    BY <1>2, <1>4 DEF IInv, InLine, Before, TakenBefore
  <2>2. /\ Before(batch, outbox') /\ TakenBefore(outbox') /\ Before(inbox', outbox')
    BY <1>2, <1>4 DEF IInv, InLine, Before, TakenBefore
  <2>3. \A x \in Range(batch) \cup Range(inbox') \cup Range(outbox') : x.n <= published
    BY <1>2, <1>4 DEF IInv, InLine
  <2> QED
    BY <1>1, <1>2, <1>4, <2>1, <2>2, <2>3
    DEF IInv, InLine, tasks, TakenInOrder, Before, TakenBefore
<1> QED
  BY <1>5, <1>6 DEF IInv

LEMMA ConnectionStep ==
  ASSUME IInv, Disconnect \/ Reconnect PROVE IInv'
<1>1. /\ linked' \in BOOLEAN /\ (outbox' = <<>> \/ outbox' = outbox)
      /\ UNCHANGED <<inbox, now, published, engine, tasks, taken, saved, failures>>
  BY DEF Disconnect, Reconnect
<1>2. outbox' \in Seq(Trade) /\ Rising(outbox') /\ Range(outbox') \subseteq Range(outbox)
  BY <1>1, NothingRises DEF IInv, TypeOK, InLine
<1>3. TypeOK' /\ BucketHoldsItsMinute' /\ AlertedMatchesWindow'
  BY <1>1, <1>2 DEF IInv, TypeOK, tasks, BucketHoldsItsMinute, AlertedMatchesWindow
<1>4. InLine'
  BY <1>1, <1>2 DEF IInv, InLine, tasks, TakenInOrder, Before, TakenBefore
<1> QED
  BY <1>3, <1>4 DEF IInv

-----------------------------------------------------------------------------
\* The trade consumer.
LEMMA CollectStep ==
  ASSUME IInv, Collect PROVE IInv'
<1>1. PICK k \in 1..Batch :
        /\ k <= Len(inbox)
        /\ batch' = SubSeq(inbox, 1, k) /\ inbox' = SubSeq(inbox, k + 1, Len(inbox))
  BY DEF Collect
<1>2. /\ trader' = "ready"
      /\ UNCHANGED <<now, published, linked, outbox, engine, flusher, minute, remaining, lock,
                     orphans, taken, saved, failures>>
  BY DEF Collect
<1>3. k \in Nat
  BY WhaleAssumption
<1>4. /\ batch' \in Seq(Trade) /\ Rising(batch') /\ Range(batch') \subseteq Range(inbox)
      /\ inbox' \in Seq(Trade) /\ Rising(inbox') /\ Range(inbox') \subseteq Range(inbox)
      /\ Before(batch', inbox')
  BY <1>1, <1>3, SplitRises DEF IInv, TypeOK, InLine
<1>5. TypeOK' /\ BucketHoldsItsMinute' /\ AlertedMatchesWindow'
  BY <1>2, <1>4 DEF IInv, TypeOK, BucketHoldsItsMinute, AlertedMatchesWindow
<1>6. InLine'
  BY <1>2, <1>4 DEF IInv, InLine, TakenInOrder, Before, TakenBefore
<1> QED
  BY <1>5, <1>6 DEF IInv

\* The engine takes the first trade of the batch.
LEMMA TraderCountsStep ==
  ASSUME IInv, TraderCounts PROVE IInv'
<1> DEFINE t == Head(batch)
           known == Known(engine, t.c, t.at)
<1>1. /\ batch # <<>> /\ taken' = Append(taken, t.n)
      /\ UNCHANGED <<now, published, relay, flusher, minute, remaining, orphans>>
  BY DEF TraderCounts
<1>2. PICK failing \in {0, 1, 2} :
        LET done == ProcessTrade(known[t.c], t, failing)
        IN  /\ Leaves(known, t.c, done)
            /\ IF done.failed
               THEN trader' = "failed" /\ lock' = "free" /\ batch' = <<>>
               ELSE batch' = Tail(batch) /\ UNCHANGED <<trader, lock>>
  BY DEF TraderCounts
<1> DEFINE done == ProcessTrade(known[t.c], t, failing)
<1>3. /\ t \in Trade /\ t \in Range(batch) /\ t.n \in Nat /\ t.c \in Contracts /\ t.at \in Nat
      /\ Tail(batch) \in Seq(Trade) /\ Rising(Tail(batch))
      /\ Range(Tail(batch)) \subseteq Range(batch)
      /\ \A x \in Range(Tail(batch)) : t.n < x.n
  <2>1. \A x \in Trade : x.n \in Nat /\ x.c \in Contracts /\ x.at \in Nat
    BY DEF Trade
  <2> QED
    BY <1>1, <2>1, TailRises DEF IInv, TypeOK, InLine
<1> HIDE DEF t
<1>4. Good(known) /\ DOMAIN known = DOMAIN engine \cup {t.c}
  BY <1>3, GoodEngine, KnownGood DEF IInv, TypeOK, Typed
<1> HIDE DEF known
<1>5. Keeps(known[t.c], t.c, done)
  BY <1>3, <1>4, TradeKeeps DEF Good, Typed
<1> HIDE DEF done
<1>6. Good(engine') /\ DOMAIN engine' = DOMAIN engine \cup {t.c} /\ failures' \in Nat
  BY <1>2, <1>4, <1>5, LeavesGood DEF IInv, TypeOK, done
<1>7. /\ (batch' = <<>> \/ batch' = Tail(batch))
      /\ trader' \in {"failed", trader} /\ lock' \in {"free", lock}
  BY <1>2
<1>8. /\ batch' \in Seq(Trade) /\ Rising(batch') /\ Range(batch') \subseteq Range(batch)
      /\ \A x \in Range(batch') : t.n < x.n
  BY <1>3, <1>7, NothingRises
<1>9. taken' \in Seq(Nat) /\ Range(taken') \subseteq Range(taken) \cup {t.n} /\ TakenInOrder'
  <2>1. /\ taken \in Seq(Nat) /\ \A i \in DOMAIN taken : taken[i] < t.n
    BY <1>3 DEF IInv, TypeOK, InLine, TakenBefore, Range
  <2>2. /\ taken' \in Seq(Nat) /\ Len(taken) \in Nat
        /\ \A i \in DOMAIN taken' : \/ i \in DOMAIN taken /\ taken'[i] = taken[i]
                                    \/ i = Len(taken) + 1 /\ taken'[i] = t.n
        /\ \A i \in DOMAIN taken : i \in 1..Len(taken)
    BY <1>1, <1>3, <2>1, AppendPart, SMTT(30)
  <2>3. TakenInOrder'
    <3>1. \A i, j \in DOMAIN taken : i < j => taken[i] < taken[j]
      BY DEF TakenInOrder, IInv, InLine
    <3> SUFFICES ASSUME NEW i \in DOMAIN taken', NEW j \in DOMAIN taken', i < j
                 PROVE  taken'[i] < taken'[j]
      BY DEF TakenInOrder
    <3> QED
      BY <2>1, <2>2, <3>1
  <2> QED
    BY <2>2, <2>3 DEF Range
<1>10. orphans' \in Seq([minute : Nat, remaining : SUBSET DOMAIN engine'])
  <2>1. [minute : Nat, remaining : SUBSET DOMAIN engine]
          \subseteq [minute : Nat, remaining : SUBSET DOMAIN engine']
    BY <1>6
  <2> QED
    BY <1>1, <2>1, WiderSeq DEF IInv, TypeOK
<1>11. TypeOK' /\ BucketHoldsItsMinute' /\ AlertedMatchesWindow'
  <2>1. Typed(engine') /\ BucketHoldsItsMinute' /\ AlertedMatchesWindow'
    BY <1>6 DEF Good, Typed, BucketHoldsItsMinute, AlertedMatchesWindow, Sound, Flagged
  <2> QED
    BY <1>1, <1>6, <1>7, <1>8, <1>9, <1>10, <2>1 DEF IInv, TypeOK, Typed, relay
<1>12. InLine'
  <2>1. UNCHANGED <<inbox, outbox, published>>
    BY <1>1 DEF relay
  <2>2. /\ Before(batch', inbox) /\ Before(batch', outbox)
        /\ \A k \in Range(taken'), y \in Range(batch') \cup Range(inbox) \cup Range(outbox) : k < y.n
        /\ \A k \in Range(taken') : k <= published
    BY <1>3, <1>8, <1>9 DEF IInv, InLine, Before, TakenBefore
  <2> QED
    BY <1>8, <1>9, <2>1, <2>2 DEF IInv, InLine, Before, TakenBefore
<1> QED
  BY <1>11, <1>12 DEF IInv

\* The steps that leave the line and the engine alone.
LEMMA TaskOnlyStep ==
  ASSUME IInv, UNCHANGED <<published, outbox, inbox, batch, engine, taken>>, TypeOK'
  PROVE  IInv'
BY DEF IInv, InLine, BucketHoldsItsMinute, AlertedMatchesWindow, TakenInOrder, TakenBefore

\* The consumer's run ends: the trade its collector had fetched is dropped.
LEMMA RunEndsStep ==
  ASSUME IInv, RunEnds PROVE IInv'
<1>1. PICK k \in {0, 1} :
        (k = 1 => inbox # <<>>) /\ inbox' = SubSeq(inbox, k + 1, Len(inbox))
  BY DEF RunEnds
<1>2. /\ trader' = "backoff" /\ flusher' = "none" /\ lock' = "free" /\ remaining' = {}
      /\ orphans' = IF flusher = "calling"
                    THEN Append(orphans, [minute |-> minute, remaining |-> remaining])
                    ELSE orphans
      /\ UNCHANGED <<now, published, linked, outbox, engine, batch, minute, taken,
                     saved, failures>>
  BY DEF RunEnds
<1>3. k \in Nat /\ k <= Len(inbox)
  BY <1>1 DEF IInv, TypeOK
<1>4. inbox' \in Seq(Trade) /\ Rising(inbox') /\ Range(inbox') \subseteq Range(inbox)
  BY <1>1, <1>3, SplitRises DEF IInv, TypeOK, InLine
<1>5. orphans' \in Seq([minute : Nat, remaining : SUBSET DOMAIN engine])
  <2> DEFINE Orphan == [minute : Nat, remaining : SUBSET DOMAIN engine]
             o == [minute |-> minute, remaining |-> remaining]
  <2>1. orphans \in Seq(Orphan) /\ o \in Orphan
    BY DEF IInv, TypeOK
  <2> HIDE DEF Orphan, o
  <2>2. Append(orphans, o) \in Seq(Orphan)
    BY <2>1, AppendPart
  <2> QED
    BY <1>2, <2>1, <2>2 DEF Orphan, o
<1>6. TypeOK' /\ BucketHoldsItsMinute' /\ AlertedMatchesWindow'
  BY <1>2, <1>4, <1>5 DEF IInv, TypeOK, BucketHoldsItsMinute, AlertedMatchesWindow
<1>7. InLine'
  BY <1>2, <1>4 DEF IInv, InLine, TakenInOrder, Before, TakenBefore
<1> QED
  BY <1>6, <1>7 DEF IInv

-----------------------------------------------------------------------------
\* The flush, and the thread of a cancelled one.
LEMMA FlushStep ==
  ASSUME IInv, Good(engine'), DOMAIN engine' = DOMAIN engine, failures' \in Nat,
         UNCHANGED <<now, published, relay, trader, batch, minute, taken>>,
         flusher' \in {"none", "asleep", "waiting", "calling", "dead"},
         lock' \in {"free", "trades", "flush"}, remaining' \subseteq DOMAIN engine,
         orphans' \in Seq([minute : Nat, remaining : SUBSET DOMAIN engine])
  PROVE  IInv'
<1>1. Typed(engine') /\ BucketHoldsItsMinute' /\ AlertedMatchesWindow'
  BY DEF Good, Typed, BucketHoldsItsMinute, AlertedMatchesWindow, Sound, Flagged
<1>2. TypeOK'
  BY <1>1 DEF IInv, TypeOK, Typed, relay
<1>3. InLine'
  BY DEF IInv, InLine, TakenInOrder, TakenBefore, relay
<1> QED
  BY <1>1, <1>2, <1>3 DEF IInv

LEMMA FlushLooksStep ==
  ASSUME IInv, NEW c \in remaining, FlushLooks(c) PROVE IInv'
<1>1. Good(engine) /\ failures \in Nat /\ c \in DOMAIN engine /\ minute \in Nat
  BY GoodEngine DEF IInv, TypeOK, Typed
<1>2. Good(engine') /\ DOMAIN engine' = DOMAIN engine /\ failures' \in Nat
  BY <1>1, LooksGood DEF FlushLooks
<1> QED
  BY <1>2, FlushStep DEF FlushLooks, IInv, TypeOK

LEMMA OrphanLooksStep ==
  ASSUME IInv, NEW i \in DOMAIN orphans, NEW c \in orphans[i].remaining, OrphanLooks(i, c)
  PROVE  IInv'
<1> DEFINE Orphan == [minute : Nat, remaining : SUBSET DOMAIN engine]
<1>1. orphans \in Seq(Orphan) /\ orphans[i] \in Orphan
  <2>1. orphans \in Seq(Orphan)
    BY DEF IInv, TypeOK
  <2> HIDE DEF Orphan
  <2> QED
    BY <2>1, ElementOf
<1>2. Good(engine) /\ failures \in Nat /\ c \in DOMAIN engine /\ orphans[i].minute \in Nat
  BY <1>1, GoodEngine DEF IInv, TypeOK, Typed
<1>3. Good(engine') /\ DOMAIN engine' = DOMAIN engine /\ failures' \in Nat
  BY <1>2, LooksGood DEF OrphanLooks
<1>4. orphans' \in Seq(Orphan)
  <2>1. RemoveAt(orphans, i) \in Seq(Orphan)
    BY <1>1, RemoveAtPart
  <2>2. [orphans EXCEPT ![i].remaining = @ \ {c}] \in Seq(Orphan)
    <3> DEFINE o == [orphans[i] EXCEPT !.remaining = @ \ {c}]
    <3>1. o \in Orphan
      BY <1>1
    <3>2. [orphans EXCEPT ![i].remaining = @ \ {c}] = [orphans EXCEPT ![i] = o]
      BY <1>1
    <3> HIDE DEF o, Orphan
    <3> QED
      BY <1>1, <3>1, <3>2, ElementOf
  <2> QED
    BY <2>1, <2>2 DEF OrphanLooks
<1> QED
  BY <1>3, <1>4, FlushStep DEF OrphanLooks, IInv, TypeOK

-----------------------------------------------------------------------------
LEMMA Step == IInv /\ [Next]_vars => IInv'
<1> SUFFICES ASSUME IInv, [Next]_vars PROVE IInv'
  OBVIOUS
<1>1. ASSUME NEW c \in Contracts, Publish(c) PROVE IInv'
  BY <1>1, PublishStep
<1>2. CASE RelayStep
  BY <1>2, DeliverStep, ConnectionStep DEF RelayStep
<1>3. CASE TraderLocks \/ TraderReturns \/ Restart \/ FlushDue
  <2>1. TypeOK'
    BY <1>3 DEF IInv, TypeOK, TraderLocks, TraderReturns, Restart, FlushDue, relay
  <2> QED
    BY <1>3, <2>1, TaskOnlyStep DEF TraderLocks, TraderReturns, Restart, FlushDue, relay
<1>4. CASE FlushReturns \/ FlushLocks
  <2>1. TypeOK'
    BY <1>4 DEF IInv, TypeOK, FlushReturns, FlushLocks, relay
  <2> QED
    BY <1>4, <2>1, TaskOnlyStep DEF FlushReturns, FlushLocks, relay
<1>7. CASE Tick
  <2>1. TypeOK'
    BY <1>7 DEF IInv, TypeOK, Tick, relay, tasks
  <2> QED
    BY <1>7, <2>1, TaskOnlyStep DEF Tick, relay, tasks
<1>5. ASSUME NEW i \in DOMAIN orphans, OrphanReturns(i) PROVE IInv'
  <2>1. TypeOK'
    BY <1>5, RemoveAtPart DEF IInv, TypeOK, OrphanReturns, relay
  <2> QED
    BY <1>5, <2>1, TaskOnlyStep DEF OrphanReturns, relay
<1>6. CASE UNCHANGED vars
  <2>1. TypeOK'
    BY <1>6 DEF IInv, TypeOK, vars, relay, tasks
  <2> QED
    BY <1>6, <2>1, TaskOnlyStep DEF vars, relay, tasks
<1> QED
  BY <1>1, <1>2, <1>3, <1>4, <1>5, <1>6, <1>7, CollectStep, TraderCountsStep,
     RunEndsStep, FlushLooksStep, OrphanLooksStep DEF Next, TaskStep

LEMMA Start == Init => IInv
<1> SUFFICES ASSUME Init PROVE IInv
  OBVIOUS
<1>1. DOMAIN None = {} /\ None \in [DOMAIN None -> ContractState]
  BY DEF None
<1>2. TypeOK /\ BucketHoldsItsMinute /\ AlertedMatchesWindow
  BY <1>1, NoneInLine DEF Init, TypeOK, BucketHoldsItsMinute, AlertedMatchesWindow
<1>3. InLine
  BY <1>2, NothingRises, NoneInLine
  DEF Init, InLine, TakenInOrder, Before, TakenBefore
<1> QED
  BY <1>2, <1>3 DEF IInv

\* The inductive invariant holds throughout.
THEOREM WhaleInvariance == Spec => []IInv
BY Start, Step, PTL DEF Spec

\* Whatever connections break, queues overflow, writes fail and tasks restart, the
\* engine takes each trade once and in order, and counts it in its own minute.
THEOREM TradesKeepTheirPlace == Spec => []TradesInPlace
<1>1. IInv => TradesInPlace
  BY DEF IInv, InLine, TradesInPlace
<1> QED
  BY <1>1, WhaleInvariance, PTL

\* The sustained flag speaks of the window as it is, whichever write failed on
\* the way: an episode is alerted once, and the next one again.
THEOREM FlagsMatchWindows == Spec => []AlertedMatchesWindow
BY WhaleInvariance, PTL DEF IInv

-----------------------------------------------------------------------------
\* Who holds the lock is in an engine call, and only a run that a failed write has
\* ended leaves a call behind.
LockTells ==
  /\ (lock = "trades") <=> (trader = "calling")
  /\ (lock = "flush") <=> (flusher = "calling")
  /\ trader = "backoff" => flusher = "none"
  /\ failures = 0 => orphans = <<>> /\ trader \notin {"failed", "backoff"}

\* What is left of "a flush call and a process_trade() call ... can never run
\* concurrently" (run()): those of one run never do, and none do before a write fails.
CallsApart ==
  /\ ~(trader = "calling" /\ flusher = "calling")
  /\ failures = 0 => OneCallAtATime

LEMMA LockStep == TypeOK /\ LockTells /\ [Next]_vars => LockTells'
<1> SUFFICES ASSUME TypeOK, LockTells, [Next]_vars PROVE LockTells'
  OBVIOUS
<1> USE DEF LockTells
<1>1. failures \in Nat
  BY DEF TypeOK
<1>2. CASE TraderLocks \/ TraderReturns
  BY <1>2 DEF TraderLocks, TraderReturns
<1>3. CASE TraderCounts
  <2>1. /\ trader = "calling" /\ UNCHANGED <<flusher, orphans>>
        /\ \/ failures' = failures + 1 /\ trader' = "failed" /\ lock' = "free"
           \/ failures' = failures /\ UNCHANGED <<trader, lock>>
    BY <1>3 DEF TraderCounts, Leaves
  <2> QED
    BY <1>1, <2>1
<1>4. CASE RunEnds
  BY <1>4 DEF RunEnds
<1>5. CASE Restart \/ FlushDue
  BY <1>5 DEF Restart, FlushDue
<1>6. CASE FlushLocks \/ FlushReturns
  BY <1>6 DEF FlushLocks, FlushReturns
<1>7. ASSUME NEW c, NEW m, Looks(c, m) PROVE failures' \in {failures, failures + 1}
  BY <1>7 DEF Looks, Leaves
<1>8. ASSUME NEW c \in remaining, FlushLooks(c) PROVE LockTells'
  <2>1. failures' \in {failures, failures + 1}
    BY <1>7, <1>8 DEF FlushLooks
  <2> QED
    BY <1>1, <1>8, <2>1 DEF FlushLooks
<1>9. ASSUME NEW i \in DOMAIN orphans, NEW c, OrphanLooks(i, c) PROVE LockTells'
  <2>1. failures' \in {failures, failures + 1}
    BY <1>7, <1>9 DEF OrphanLooks
  <2>2. orphans # <<>>
    BY <1>9, NoneInLine
  <2> QED
    BY <1>1, <1>9, <2>1, <2>2 DEF OrphanLooks
<1>10. ASSUME NEW i \in DOMAIN orphans, OrphanReturns(i) PROVE LockTells'
  BY <1>10, NoneInLine DEF OrphanReturns
<1>11. CASE UNCHANGED <<tasks, failures>>
  BY <1>11 DEF tasks
<1>12. CASE Collect
  BY <1>12 DEF Collect
<1> QED
  BY <1>2, <1>3, <1>4, <1>5, <1>6, <1>8, <1>9, <1>10, <1>11, <1>12
  DEF Next, TaskStep, RelayStep, Publish, Deliver, Disconnect, Reconnect, Tick, vars, tasks

\* The two sides of a run never call the engine together, and without a failed
\* write there is never more than one call: the sentence of run() fails by the
\* threads that a failed run leaves behind and by nothing else.
THEOREM EngineCallsApart == Spec => []CallsApart
<1>1. Init => LockTells
  BY DEF Init, LockTells
<1>2. TypeOK /\ LockTells => CallsApart
  <2> SUFFICES ASSUME TypeOK, LockTells PROVE CallsApart
    OBVIOUS
  <2>1. Len(<<>>) = 0
    OBVIOUS
  <2> QED
    BY <2>1 DEF LockTells, CallsApart, OneCallAtATime, Calls
<1>3. IInv => TypeOK
  BY DEF IInv
<1> QED
  BY <1>1, <1>2, <1>3, LockStep, WhaleInvariance, PTL DEF Spec

-----------------------------------------------------------------------------
\* The alerts an engine call stores in one step.
StoredNow == {saved'[i] : i \in DOMAIN saved' \ DOMAIN saved}

\* A sustained-flow alert of a contract is stored in the step that makes its window
\* due, and in no other: once an episode.
SustainedStartsEpisode ==
  [][\A a \in StoredNow : Sustains(a.alert) =>
       /\ a.c \in DOMAIN engine /\ ~Due(engine[a.c].window)
       /\ Due(engine'[a.c].window)]_vars

\* What is stored is a sequence.
SavedSeq == saved \in Seq(Range(saved))

\* One contract's part of a call stores the alerts of that contract.
LEMMA LeavesStart ==
  ASSUME NEW e, Typed(e), NEW c \in DOMAIN e, NEW done, Starts(e[c], done),
         Leaves(e, c, done), NEW a \in StoredNow, Sustains(a.alert), SavedSeq
  PROVE  a.c = c /\ ~e[c].alerted /\ Due(engine'[c].window) /\ done.alerts # <<>>
<1> DEFINE named == Named(c, done.alerts)
<1>1. PICK n \in Nat : DOMAIN done.alerts = 1..n
  BY DEF Starts
<1>2. /\ DOMAIN named = 1..n
      /\ \A i \in 1..n : named[i] = [c |-> c, alert |-> done.alerts[i]]
  BY <1>1 DEF Named
<1> HIDE DEF named
<1>3. \A i \in 1..n : named[i].c = c /\ named[i].alert = done.alerts[i]
  BY <1>2
<1>4. named \in Seq({named[i] : i \in 1..n}) /\ Len(named) = n
  <2>1. named = [i \in 1..n |-> named[i]]
    BY <1>1 DEF Named, named
  <2> QED
    BY <2>1
<1>5. saved' = saved \o named
  BY DEF Leaves, named
<1>6. PICK i \in DOMAIN saved' \ DOMAIN saved : a = saved'[i]
  BY DEF StoredNow
<1>7. PICK j \in 1..n : a = named[j]
  BY <1>2, <1>4, <1>5, <1>6
<1>8. \E k \in DOMAIN done.alerts : Sustains(done.alerts[k])
  BY <1>1, <1>3, <1>7 DEF Sustains
<1>9. engine'[c].window = done.state.window
  BY DEF Leaves, Typed
<1> QED
  BY <1>3, <1>7, <1>8, <1>9, NothingStarts DEF Starts

LEMMA RangeSeq ==
  ASSUME NEW T, NEW q \in Seq(T)
  PROVE  q \in Seq(Range(q))
<1>1. q \in [1..Len(q) -> Range(q)] /\ Len(q) \in Nat
  BY DEF Range
<1> QED
  BY <1>1

LEMMA SavedMore ==
  ASSUME SavedSeq, NEW e, NEW c, NEW done, NEW s, Starts(s, done), Leaves(e, c, done)
  PROVE  SavedSeq'
<1> DEFINE named == Named(c, done.alerts)
<1>1. PICK n \in Nat : DOMAIN done.alerts = 1..n
  BY DEF Starts
<1>2. named = [i \in 1..n |-> named[i]]
  BY <1>1 DEF Named
<1> HIDE DEF named
<1>3. named \in Seq({named[i] : i \in 1..n})
  BY <1>2
<1> DEFINE S == Range(saved) \cup {named[i] : i \in 1..n}
<1>4. saved \in Seq(S) /\ named \in Seq(S)
  BY <1>3, WiderSeq DEF SavedSeq
<1>5. saved' = saved \o named
  BY DEF Leaves, named
<1> HIDE DEF S
<1>6. saved' \in Seq(S)
  BY <1>4, <1>5
<1> QED
  BY <1>6, RangeSeq DEF SavedSeq

\* A step stores nothing, or what one contract's part of a call leaves.
LEMMA StoresOnePart ==
  ASSUME IInv, SavedSeq, [Next]_vars
  PROVE  \/ UNCHANGED saved
         \/ \E c \in DOMAIN engine : \E done :
              Starts(engine[c], done) /\ Leaves(engine, c, done)
         \/ \E e, c, done :
              /\ Typed(e) /\ c \in DOMAIN e /\ Starts(e[c], done) /\ Leaves(e, c, done)
              /\ done.alerts = <<>>
<1>1. Good(engine) /\ Typed(engine)
  BY GoodEngine DEF IInv, TypeOK, Typed
<1>2. ASSUME NEW c \in DOMAIN engine, NEW m \in Nat, Looks(c, m)
      PROVE  \/ UNCHANGED saved
             \/ \E done : Starts(engine[c], done) /\ Leaves(engine, c, done)
  <2>1. CASE engine[c].bucket.start < m
    <3>1. PICK failing \in {0, 1, 2} : Leaves(engine, c, Close(engine[c], m, failing))
      BY <1>2, <2>1 DEF Looks
    <3>2. Starts(engine[c], Close(engine[c], m, failing))
      BY <1>1, CloseKeeps DEF Typed, Keeps
    <3> QED
      BY <3>1, <3>2
  <2>2. CASE ~(engine[c].bucket.start < m)
    BY <1>2, <2>2 DEF Looks
  <2> QED
    BY <2>1, <2>2
<1>3. ASSUME NEW c \in remaining, FlushLooks(c)
      PROVE  \/ UNCHANGED saved
             \/ \E k \in DOMAIN engine : \E done :
                  Starts(engine[k], done) /\ Leaves(engine, k, done)
  BY <1>2, <1>3 DEF FlushLooks, IInv, TypeOK
<1>4. ASSUME NEW i \in DOMAIN orphans, NEW c \in orphans[i].remaining, OrphanLooks(i, c)
      PROVE  \/ UNCHANGED saved
             \/ \E k \in DOMAIN engine : \E done :
                  Starts(engine[k], done) /\ Leaves(engine, k, done)
  <2>1. orphans[i] \in [minute : Nat, remaining : SUBSET DOMAIN engine]
    <3> DEFINE Orphan == [minute : Nat, remaining : SUBSET DOMAIN engine]
    <3>1. orphans \in Seq(Orphan)
      BY DEF IInv, TypeOK
    <3> HIDE DEF Orphan
    <3>2. orphans[i] \in Orphan
      BY <3>1, ElementOf
    <3> QED
      BY <3>2 DEF Orphan
  <2> QED
    BY <1>2, <1>4, <2>1 DEF OrphanLooks
<1>5. ASSUME TraderCounts
      PROVE  \/ \E c \in DOMAIN engine : \E done :
                  Starts(engine[c], done) /\ Leaves(engine, c, done)
             \/ \E e, c, done :
                  /\ Typed(e) /\ c \in DOMAIN e /\ Starts(e[c], done) /\ Leaves(e, c, done)
                  /\ done.alerts = <<>>
  <2> DEFINE t == Head(batch)
             known == Known(engine, t.c, t.at)
  <2>1. PICK failing \in {0, 1, 2} :
          Leaves(known, t.c, ProcessTrade(known[t.c], t, failing))
    BY <1>5 DEF TraderCounts
  <2> DEFINE done == ProcessTrade(known[t.c], t, failing)
  <2>2. t \in Trade /\ t.c \in Contracts /\ t.at \in Nat
    <3>1. t \in Trade
      BY <1>5, TailPart DEF TraderCounts, IInv, TypeOK
    <3> HIDE DEF t
    <3> QED
      BY <3>1 DEF Trade
  <2> HIDE DEF t
  <2>3. Typed(known) /\ t.c \in DOMAIN known
    <3>1. Good(known) /\ DOMAIN known = DOMAIN engine \cup {t.c}
      BY <1>1, <2>2, KnownGood
    <3> HIDE DEF known
    <3> QED
      BY <3>1 DEF Good
  <2>4. Starts(known[t.c], done)
    BY <2>2, <2>3, TradeKeeps DEF Keeps, Typed
  <2>5. CASE t.c \in DOMAIN engine
    <3>1. known = engine
      BY <2>5 DEF Known
    <3> QED
      BY <2>1, <2>4, <2>5, <3>1
  <2>6. CASE t.c \notin DOMAIN engine
    <3>1. known[t.c] = NewState(t.at)
      BY <2>6 DEF Known
    <3>2. known[t.c].bucket.start = t.at
      BY <3>1 DEF NewState, NewBucket
    <3> HIDE DEF known
    <3>3. done.alerts = <<>>
      BY <3>2 DEF ProcessTrade
    <3> HIDE DEF done
    <3> QED
      BY <2>1, <2>3, <2>4, <3>3 DEF done
  <2> QED
    BY <2>5, <2>6
<1>6. CASE TaskStep
  <2>1. CASE \/ Collect \/ TraderLocks \/ TraderReturns \/ RunEnds \/ Restart
             \/ FlushDue \/ FlushReturns \/ \E i \in DOMAIN orphans : OrphanReturns(i)
    BY <2>1 DEF Collect, TraderLocks, TraderReturns, RunEnds, Restart, FlushDue, FlushReturns,
       OrphanReturns
  <2> QED
    BY <1>3, <1>4, <1>5, <1>6, <2>1 DEF TaskStep
<1>7. CASE ~TaskStep
  BY <1>7 DEF Next, RelayStep, Publish, Deliver, Disconnect, Reconnect, FlushLocks, Tick, vars
<1> QED
  BY <1>6, <1>7

\* A contract's sustained-flow alert is stored when its window becomes due, so once
\* for every episode (_finalize_bucket: "if not state.sustained_alerted").
THEOREM OneAlertAnEpisode == Spec => SustainedStartsEpisode
<1> DEFINE Right == \A a \in StoredNow : Sustains(a.alert) =>
                      /\ a.c \in DOMAIN engine /\ ~Due(engine[a.c].window)
                      /\ Due(engine'[a.c].window)
<1>1. ASSUME IInv, SavedSeq, [Next]_vars PROVE SavedSeq' /\ Right
  <2>1. CASE UNCHANGED saved
    BY <1>1, <2>1 DEF SavedSeq, StoredNow
  <2>2. CASE \E c \in DOMAIN engine : \E done :
               Starts(engine[c], done) /\ Leaves(engine, c, done)
    <3>1. PICK c \in DOMAIN engine :
            \E done : Starts(engine[c], done) /\ Leaves(engine, c, done)
      BY <2>2
    <3>2. Typed(engine) /\ engine[c].alerted = Due(engine[c].window)
      BY <1>1 DEF IInv, TypeOK, Typed, AlertedMatchesWindow
    <3> QED
      BY <1>1, <3>1, <3>2, LeavesStart, SavedMore
  <2>3. CASE \E e, c, done :
               /\ Typed(e) /\ c \in DOMAIN e /\ Starts(e[c], done) /\ Leaves(e, c, done)
               /\ done.alerts = <<>>
    BY <1>1, <2>3, LeavesStart, SavedMore
  <2> QED
    BY <1>1, <2>1, <2>2, <2>3, StoresOnePart
<1>2. Init => SavedSeq
  BY NoneInLine DEF Init, SavedSeq
<1>3. SavedSeq /\ IInv /\ [Next]_vars => [Right]_vars
  BY <1>1
<1> QED
  BY <1>1, <1>2, <1>3, WhaleInvariance, PTL DEF Spec, SustainedStartsEpisode
=============================================================================
