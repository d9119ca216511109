------------------------- MODULE CalculationsProofs -------------------------
(***************************************************************************)
(* Proofs about the calculations and the guard of IndexGuard.              *)
(*                                                                         *)
(* The guard, for any prices, clock and hold times.  Two arguments: the    *)
(* fact "the index is replaced" travels from the guard through the changes *)
(* and the publisher to the row without ever being inverted, and the time  *)
(* since which an open episode looks healthy starts after its last         *)
(* unhealthy tick.                                                         *)
(*                                                                         *)
(* The futures, for any storage and caches: which offset a page may be     *)
(* moved by, and what a page moved by it shows.                            *)
(***************************************************************************)
EXTENDS Calculations, FiniteSetTheorems, TLAPS

StatusRows == [active : BOOLEAN, since : Nat, updated_at : Nat]
Changes == [active : BOOLEAN, at : Nat]
Publishers == [open_since : Nat \cup {None}, last_written : Nat \cup {None},
               pending : StatusRows \cup {None}]

GuardTypes ==
  /\ now \in Nat
  /\ DOMAIN guard = DOMAIN IndexState /\ guard.healthy_since \in Nat \cup {None}
  /\ changes \in Seq(Changes)
  /\ publisher \in Publishers
  /\ publisher.pending # None => publisher.pending.updated_at <= now
  /\ row \in StatusRows /\ row.updated_at <= now
  /\ unhealthy_at \in Nat \cup {None} /\ (unhealthy_at # None => unhealthy_at <= now)
  /\ restarted_at \in Nat \cup {None} /\ (restarted_at # None => restarted_at <= now)

\* The last change, or with none the publisher's open episode, says what the guard does.
ChangesTell ==
  IF changes = <<>> THEN publisher.open_since # None <=> Active
  ELSE changes[Len(changes)].active <=> Active

\* What the publisher still has to write, or with nothing the row, says what the
\* publisher knows; only a restart leaves an active row behind, an old one.
RowTells ==
  IF publisher.pending # None
  THEN publisher.pending.active <=> publisher.open_since # None
  ELSE \/ row.active <=> publisher.open_since # None
       \/ restarted_at # None /\ row.updated_at <= restarted_at

\* The wait of an open episode started after its last unhealthy tick.
WaitIsQuiet ==
  Active => /\ unhealthy_at # None
            /\ guard.healthy_since # None => unhealthy_at <= guard.healthy_since
                                             /\ guard.healthy_since <= now

IInv == GuardTypes /\ ChangesTell /\ RowTells /\ WaitIsQuiet

-----------------------------------------------------------------------------
LEMMA NoRowIsNone == None \notin StatusRows
BY GuardAssumption DEF StatusRows

\* The change of the state is noted exactly when the guard starts or stops
\* replacing the index, and tells which.
LEMMA ChangesFromTells ==
  ASSUME GuardTypes, ChangesTell, changes' = changes \o ChangesFrom(guard, guard'),
         now' = now, publisher' = publisher
  PROVE  changes' \in Seq(Changes) /\ ChangesTell'
<1>1. CASE (guard.active_ratio = None) = (guard'.active_ratio = None)
  BY <1>1 DEF ChangesFrom, GuardTypes, ChangesTell, Active
<1>2. CASE (guard.active_ratio = None) # (guard'.active_ratio = None)
  <2>1. changes' = Append(changes, [active |-> guard'.active_ratio # None, at |-> now])
    BY <1>2 DEF ChangesFrom, GuardTypes
  <2> DEFINE change == [active |-> guard'.active_ratio # None, at |-> now]
  <2>2. change \in Changes /\ (change.active <=> guard'.active_ratio # None)
    BY DEF GuardTypes, Changes
  <2> HIDE DEF change
  <2> QED
    BY <2>1, <2>2 DEF GuardTypes, ChangesTell, Active, change
<1> QED
  BY <1>1, <1>2

\* What a tick of the index makes of the guard: an episode opens on an unhealthy
\* tick, and closes only on a healthy one after the hold time.
LEMMA TickTells ==
  ASSUME GuardTypes, NEW price, NEW lagging \in BOOLEAN, NEW told,
         told = ObserveIndex(price, lagging)
  PROVE  /\ DOMAIN told.state = DOMAIN IndexState
         /\ Active /\ told.state.active_ratio = None =>
              told.healthy /\ now - Since(guard.healthy_since, now) >= RECOVER_HOLD
         /\ Active /\ told.state.active_ratio # None =>
              told.state.healthy_since = IF told.healthy THEN Since(guard.healthy_since, now)
                                         ELSE None
         /\ ~Active /\ told.state.active_ratio # None =>
              ~told.healthy /\ told.state.healthy_since = None
         /\ told.state.active_ratio = None => 
              told.state.healthy_since \in {None, guard.healthy_since}
BY DEF ObserveIndex, InEpisode, OutsideEpisode, Start, Sample, IndexState, GuardTypes, Active

\* A tick of the proxy opens an episode or leaves the guard as it is.
LEMMA ProxyTells ==
  ASSUME GuardTypes
  PROVE  /\ DOMAIN ObserveProxy = DOMAIN IndexState
         /\ \/ ObserveProxy = guard
            \/ /\ ~Active /\ ObserveProxy.active_ratio # None
               /\ ObserveProxy.healthy_since = None /\ ObserveProxy # guard
BY DEF ObserveProxy, Start, IndexState, GuardTypes, Active

\* The publisher after it drained the changes: its open episode is the guard's,
\* and what it will write says so.
LEMMA DrainedTells ==
  ASSUME GuardTypes, ChangesTell, RowTells
  PROVE  /\ Drained \in Publishers
         /\ Drained.open_since # None <=> Active
         /\ Drained.pending # None => (Drained.pending.active <=> Active)
                                      /\ Drained.pending.updated_at <= now
         /\ Drained.pending = None => publisher.pending = None /\ changes = <<>>
<1>1. CASE changes = <<>>
  BY <1>1 DEF Drained, GuardTypes, ChangesTell, RowTells, StatusRows
<1>2. CASE changes # <<>>
  <2> DEFINE change == changes[Len(changes)]
             since == IF change.active THEN change.at
                      ELSE Since(OpenAfter(Len(changes) - 1), change.at)
  <2>0. Len(changes) \in Nat /\ Len(changes) > 0
    BY <1>2 DEF GuardTypes
  <2>1. /\ change \in Changes
        /\ Len(changes) - 1 # 0 => changes[Len(changes) - 1] \in Changes
    <3>1. \A i \in 1..Len(changes) : changes[i] \in Changes
      BY DEF GuardTypes
    <3>2. ASSUME NEW n \in Nat, n > 0
          PROVE  n \in 1..n /\ (n - 1 # 0 => n - 1 \in 1..n)
      BY <3>2
    <3> QED
      BY <2>0, <3>1, <3>2
  <2>2. /\ OpenAfter(Len(changes)) \in Nat \cup {None}
        /\ OpenAfter(Len(changes)) # None <=> change.active
        /\ OpenAfter(Len(changes) - 1) \in Nat \cup {None}
    <3>1. publisher.open_since \in Nat \cup {None}
      BY DEF GuardTypes, Publishers
    <3>2. OpenAfter(Len(changes)) = IF change.active THEN change.at ELSE None
      BY <2>0 DEF OpenAfter
    <3>3. OpenAfter(Len(changes) - 1) \in Nat \cup {None}
      BY <2>1, <3>1 DEF OpenAfter, Changes
    <3> QED
      BY <2>1, <3>2, <3>3, GuardAssumption DEF Changes
  <2>3. since \in Nat
    BY <2>1, <2>2 DEF Since, Changes
  <2> HIDE DEF since
  <2>4. StatusRow(change.active, since) \in StatusRows /\ StatusRow(change.active, since) # None
    <3>1. StatusRow(change.active, since) \in StatusRows
      BY <2>1, <2>3 DEF StatusRow, StatusRows, GuardTypes, Changes
    <3> QED
      BY <3>1, NoRowIsNone
  <2>5. Drained = [publisher EXCEPT !.open_since = OpenAfter(Len(changes)),
                                    !.pending = StatusRow(change.active, since)]
    BY <1>2 DEF Drained, since
  <2>6. /\ StatusRow(change.active, since).active = change.active
        /\ StatusRow(change.active, since).updated_at = now
    BY DEF StatusRow
  <2>7. change.active <=> Active
    BY <1>2 DEF ChangesTell
  <2> DEFINE status == StatusRow(change.active, since)
             open == OpenAfter(Len(changes))
  <2> HIDE DEF change, status, open
  <2>8. /\ Drained = [publisher EXCEPT !.open_since = open, !.pending = status]
        /\ open \in Nat \cup {None} /\ (open # None <=> Active)
        /\ status \in StatusRows /\ status # None
        /\ status.active <=> Active
        /\ status.updated_at = now /\ now \in Nat
    BY <2>2, <2>4, <2>5, <2>6, <2>7 DEF status, open, GuardTypes
  <2>9. publisher \in Publishers
    BY DEF GuardTypes
  <2>10. /\ Drained \in Publishers
         /\ Drained.open_since = open /\ Drained.pending = status
    BY <2>8, <2>9 DEF Publishers
  <2> QED
    BY <2>8, <2>10
<1> QED
  BY <1>1, <1>2

\* The heartbeat keeps all that.
LEMMA RefreshedTells ==
  ASSUME GuardTypes, ChangesTell, RowTells
  PROVE  LET p == Refreshed(Drained)
         IN  /\ p \in Publishers
             /\ p.open_since # None <=> Active
             /\ p.pending # None => /\ p.pending.active <=> Active
                                    /\ p.pending \in StatusRows /\ p.pending.updated_at <= now
             /\ p.pending = None => publisher.pending = None /\ changes = <<>>
<1> DEFINE d == Drained
           status == StatusRow(TRUE, d.open_since)
<1>1. Active <=> guard.active_ratio # None
  BY DEF Active
<1>2. d.open_since # None => /\ status \in StatusRows /\ status # None
                             /\ status.active /\ status.updated_at <= now
  <2>1. d.open_since # None => status \in StatusRows
    BY DrainedTells DEF StatusRow, StatusRows, GuardTypes, Publishers
  <2>2. status.active /\ status.updated_at = now
    BY DEF StatusRow
  <2>3. now \in Nat
    BY DEF GuardTypes
  <2> HIDE DEF status, d
  <2> QED
    BY <2>1, <2>2, <2>3, NoRowIsNone
<1>3. Refreshed(d) = d \/ /\ d.open_since # None /\ Active
                          /\ Refreshed(d) = [d EXCEPT !.pending = status]
  BY <1>1 DEF Refreshed
<1> HIDE DEF status
<1> QED
  BY DrainedTells, <1>2, <1>3 DEF Publishers

-----------------------------------------------------------------------------
LEMMA Step == IInv /\ [GuardNext]_guardVars => IInv'
<1> SUFFICES ASSUME IInv, [GuardNext]_guardVars PROVE IInv'
  OBVIOUS
<1> USE DEF IInv
<1>1. CASE IndexTick
  <2>0. PICK price \in IndexPrices, lagging \in BOOLEAN :
          \E told \in {ObserveIndex(price, lagging)} :
            /\ guard' = told.state
            /\ changes' = changes \o ChangesFrom(guard, told.state)
            /\ unhealthy_at' = IF told.healthy THEN unhealthy_at ELSE now
    BY <1>1 DEF IndexTick
  <2> DEFINE told == ObserveIndex(price, lagging)
  <2>1. /\ guard' = told.state
        /\ changes' = changes \o ChangesFrom(guard, told.state)
        /\ unhealthy_at' = IF told.healthy THEN unhealthy_at ELSE now
    BY <2>0
  <2>2. UNCHANGED <<now, proxy, publisher, row, restarted_at>>
    BY <1>1 DEF IndexTick
  <2>3. changes' \in Seq(Changes) /\ ChangesTell'
    BY <2>1, <2>2, ChangesFromTells
  <2>4. /\ DOMAIN guard' = DOMAIN IndexState
        /\ Active /\ guard'.active_ratio = None =>
             told.healthy /\ now - Since(guard.healthy_since, now) >= RECOVER_HOLD
        /\ Active /\ guard'.active_ratio # None =>
             guard'.healthy_since = IF told.healthy THEN Since(guard.healthy_since, now) ELSE None
        /\ ~Active /\ guard'.active_ratio # None => ~told.healthy /\ guard'.healthy_since = None
        /\ guard'.active_ratio = None => guard'.healthy_since \in {None, guard.healthy_since}
    BY <2>1, TickTells
  <2> HIDE DEF told
  <2>5. GuardTypes'
    BY <2>1, <2>2, <2>3, <2>4 DEF GuardTypes, Since, Active
  <2>6. WaitIsQuiet'
    <3>1. /\ now \in Nat /\ now # None
          /\ guard.healthy_since \in Nat \cup {None}
          /\ unhealthy_at # None => unhealthy_at \in Nat /\ unhealthy_at <= now
      BY GuardAssumption DEF GuardTypes
    <3>2. CASE told.healthy
      BY <2>1, <2>2, <2>4, <3>1, <3>2 DEF WaitIsQuiet, Since, Active
    <3>3. CASE ~told.healthy
      BY <2>1, <2>2, <2>4, <3>1, <3>3 DEF WaitIsQuiet, Since, Active
    <3> QED
      BY <3>2, <3>3
  <2> QED
    BY <2>2, <2>3, <2>5, <2>6 DEF RowTells
<1>2. CASE ProxyTick
  <2>1. /\ guard' = ObserveProxy
        /\ changes' = changes \o ChangesFrom(guard, guard')
        /\ unhealthy_at' = IF guard' = guard THEN unhealthy_at ELSE now
        /\ UNCHANGED <<now, publisher, row, restarted_at>>
    BY <1>2 DEF ProxyTick
  <2>2. changes' \in Seq(Changes) /\ ChangesTell'
    BY <2>1, ChangesFromTells
  <2>3. GuardTypes'
    BY <2>1, <2>2, ProxyTells DEF GuardTypes
  <2>4. WaitIsQuiet'
    BY <2>1, ProxyTells, GuardAssumption DEF WaitIsQuiet, GuardTypes, Active
  <2> QED
    BY <2>1, <2>2, <2>3, <2>4 DEF RowTells
<1>3. CASE Publish
  <2> DEFINE p == Refreshed(Drained)
  <2>1. /\ changes' = <<>> /\ UNCHANGED <<now, guard, proxy, unhealthy_at, restarted_at>>
        /\ \/ p.pending # None /\ row' = p.pending
              /\ publisher' = [p EXCEPT !.pending = None, !.last_written = now]
           \/ publisher' = p /\ row' = row
    BY <1>3 DEF Publish
  <2>2. /\ p \in Publishers
        /\ p.open_since # None <=> Active
        /\ p.pending # None => /\ p.pending.active <=> Active
                               /\ p.pending \in StatusRows /\ p.pending.updated_at <= now
        /\ p.pending = None => publisher.pending = None /\ changes = <<>>
    BY RefreshedTells
  <2> HIDE DEF p
  <2>3. CASE /\ p.pending # None /\ row' = p.pending
             /\ publisher' = [p EXCEPT !.pending = None, !.last_written = now]
    <3>1. /\ publisher' \in Publishers
          /\ publisher'.pending = None /\ publisher'.open_since = p.open_since
          /\ row' \in StatusRows /\ row'.updated_at <= now /\ (row'.active <=> Active)
      BY <2>2, <2>3 DEF GuardTypes, Publishers
    <3>2. GuardTypes'
      BY <2>1, <3>1 DEF GuardTypes
    <3> QED
      BY <2>1, <2>2, <3>1, <3>2 DEF ChangesTell, RowTells, WaitIsQuiet, Active
  <2>4. CASE publisher' = p /\ row' = row
    <3>1. GuardTypes'
      BY <2>1, <2>2, <2>4 DEF GuardTypes
    <3>2. p.pending = None => RowTells'
      BY <2>1, <2>2, <2>4 DEF RowTells, ChangesTell, Active
    <3> QED
      BY <2>1, <2>2, <2>4, <3>1, <3>2 DEF ChangesTell, RowTells, WaitIsQuiet, Active
  <2> QED
    BY <2>1, <2>3, <2>4
<1>4. CASE Pass
  <2>0. /\ row.updated_at \in Nat
        /\ publisher.pending # None => publisher.pending.updated_at \in Nat
    BY DEF GuardTypes, Publishers, StatusRows
  <2>1. GuardTypes'
    BY <1>4, <2>0 DEF Pass, GuardTypes
  <2>2. WaitIsQuiet'
    <3>1. /\ now \in Nat /\ now' \in Nat /\ now <= now'
          /\ guard.healthy_since \in Nat \cup {None}
          /\ UNCHANGED <<guard, unhealthy_at>>
      BY <1>4, GuardAssumption DEF Pass, GuardTypes
    <3> QED
      BY <3>1 DEF WaitIsQuiet, GuardTypes, Active
  <2> QED
    BY <1>4, <2>1, <2>2 DEF Pass, ChangesTell, RowTells, Active
<1>5. CASE RestartProcessor
  <2>1. /\ restarted_at' = now /\ changes' = <<>> /\ UNCHANGED <<now, row, unhealthy_at>>
        /\ DOMAIN guard' = DOMAIN IndexState
        /\ guard'.active_ratio = None /\ guard'.healthy_since = None
    BY <1>5 DEF RestartProcessor, IndexState
  <2>2. /\ publisher'.open_since = None /\ publisher'.pending = None
        /\ publisher' \in Publishers
    BY <1>5 DEF RestartProcessor, Publisher, Publishers
  <2>3. GuardTypes'
    BY <2>1, <2>2 DEF GuardTypes
  <2>4. now # None
    BY GuardAssumption DEF GuardTypes
  <2> QED
    BY <2>1, <2>2, <2>3, <2>4 DEF GuardTypes, ChangesTell, RowTells, WaitIsQuiet, Active
<1>6. CASE UNCHANGED guardVars
  BY <1>6 DEF guardVars, GuardTypes, ChangesTell, RowTells, WaitIsQuiet, Active
<1> QED
  BY <1>1, <1>2, <1>3, <1>4, <1>5, <1>6 DEF GuardNext

\* The inductive invariant holds throughout.
THEOREM GuardInvariance == GuardSpec => []IInv
<1>1. GuardInit => IInv
  <2> SUFFICES ASSUME GuardInit PROVE IInv
    OBVIOUS
  <2>1. /\ guard.active_ratio = None /\ guard.healthy_since = None
        /\ publisher.open_since = None /\ publisher.pending = None
        /\ publisher \in Publishers
    BY DEF GuardInit, IndexState, Publisher, Publishers
  <2>2. row \in StatusRows /\ row.updated_at = 0 /\ ~row.active
    BY DEF GuardInit, NoRow, StatusRows
  <2> QED
    BY <2>1, <2>2 DEF GuardInit, IInv, GuardTypes, ChangesTell, RowTells, WaitIsQuiet, Active
<1> QED
  BY <1>1, Step, PTL DEF GuardSpec

\* The page says the index is replaced only while it is, or for STATUS_STALE after
\* a restart that forgot the episode: over ticks, failed writes and heartbeats.
THEOREM BannerIsTrue == GuardSpec => []BannerTrue
<1>1. IInv => BannerTrue
  <2> SUFFICES ASSUME IInv, changes = <<>>, publisher.pending = None, TrustedActive, ~Active
               PROVE  restarted_at # None /\ now - restarted_at <= STATUS_STALE
    BY DEF BannerTrue
  <2>1. restarted_at # None /\ row.updated_at <= restarted_at
    BY DEF IInv, ChangesTell, RowTells, TrustedActive
  <2>2. /\ now \in Nat /\ row.updated_at \in Nat /\ restarted_at \in Nat
        /\ STATUS_STALE \in Nat
    BY <2>1, GuardAssumption DEF IInv, GuardTypes, StatusRows
  <2>3. now - row.updated_at <= STATUS_STALE
    BY DEF TrustedActive
  <2> QED
    BY <2>1, <2>2, <2>3
<1> QED
  BY <1>1, GuardInvariance, PTL

\* An episode ends only after RECOVER_HOLD without a lagging or drifting tick.
THEOREM QuietRecovery == GuardSpec => QuietBeforeRecovery
<1> DEFINE Quiet == Active /\ ~Active' /\ restarted_at' = restarted_at =>
                      now - unhealthy_at >= RECOVER_HOLD
<1>1. ASSUME IInv, [GuardNext]_guardVars PROVE [Quiet]_guardVars
  <2> SUFFICES ASSUME Active, ~Active', restarted_at' = restarted_at
               PROVE  now - unhealthy_at >= RECOVER_HOLD
    OBVIOUS
  <2>1. CASE IndexTick
    <3>1. PICK price \in IndexPrices, lagging \in BOOLEAN :
            \E told \in {ObserveIndex(price, lagging)} : guard' = told.state
      BY <2>1 DEF IndexTick
    <3>2. now - Since(guard.healthy_since, now) >= RECOVER_HOLD
      BY <1>1, <3>1, TickTells DEF IInv, Active
    <3>3. /\ now \in Nat /\ unhealthy_at \in Nat /\ guard.healthy_since \in Nat \cup {None}
          /\ unhealthy_at <= now
          /\ guard.healthy_since # None => unhealthy_at <= guard.healthy_since
      BY <1>1 DEF IInv, GuardTypes, WaitIsQuiet
    <3>4. RECOVER_HOLD \in Nat
      BY GuardAssumption
    <3> QED
      BY <3>2, <3>3, <3>4 DEF Since
  <2>2. CASE ProxyTick
    BY <1>1, <2>2, ProxyTells DEF ProxyTick, IInv, Active
  <2>3. CASE RestartProcessor
    BY <1>1, <2>3, GuardAssumption DEF RestartProcessor, IInv, GuardTypes
  <2>4. CASE Publish \/ Pass \/ UNCHANGED guardVars
    BY <2>4 DEF Publish, Pass, guardVars, Active
  <2> QED
    BY <1>1, <2>1, <2>2, <2>3, <2>4 DEF GuardNext
<1> QED
  BY <1>1, GuardInvariance, PTL DEF GuardSpec, QuietBeforeRecovery

-----------------------------------------------------------------------------
\* The questions leave the guard alone: the behaviours of the whole module are,
\* for the guard, its own.
LEMMA GuardRuns == Spec => GuardSpec
<1>1. Init => GuardInit
  BY DEF Init, NothingYet
<1>2. [Next]_vars => [GuardNext]_guardVars
  <2> SUFFICES ASSUME [Next]_vars PROVE [GuardNext]_guardVars
    OBVIOUS
  <2>1. CASE AskViews
    BY <2>1 DEF AskViews, Ask
  <2>2. CASE AskOffset
    BY <2>2 DEF AskOffset, Ask
  <2>3. CASE AskVwap
    BY <2>3 DEF AskVwap, Ask
  <2>4. CASE AskMove
    BY <2>4 DEF AskMove, Ask
  <2>5. CASE AskPages
    BY <2>5 DEF AskPages, Ask
  <2>6. CASE AskRoll
    BY <2>6 DEF AskRoll, Ask
  <2>7. CASE AnchorDay
    BY <2>7 DEF AnchorDay
  <2>8. CASE Guarded \/ UNCHANGED vars
    BY <2>8 DEF Guarded, vars
  <2> QED
    BY <2>1, <2>2, <2>3, <2>4, <2>5, <2>6, <2>7, <2>8 DEF Next
<1> QED
  BY <1>1, <1>2, PTL DEF Spec, GuardSpec

\* Both results for the behaviours that also ask questions.
THEOREM GuardAmongCalculations == Spec => []BannerTrue /\ QuietBeforeRecovery
BY GuardRuns, BannerIsTrue, QuietRecovery

-----------------------------------------------------------------------------
\* The offset of a page (resolve_future_offset): with an anchor it is the anchor
\* or a live basis within LIVE_BASIS_MAX_GAP of it; a basis of earlier days is
\* used only without an anchor and without a live basis; and the source names
\* what was used.  For every storage, and whatever earlier pages left in the caches.
THEOREM OffsetKeepsToAnchor ==
  ASSUME NEW future, NEW w, NEW caches, NEW a, a = resolve_future_offset(future, w, caches)
  PROVE  /\ a.anchor # None =>
              /\ a.offset # None
              /\ a.offset = a.anchor \/ Abs(a.offset - a.anchor) <= LIVE_BASIS_MAX_GAP[future]
         /\ a.source = "ninjatrader_last" => a.anchor = None /\ a.live = None
         /\ a.source = "anchor" => a.offset = a.anchor
         /\ a.source = "ninjatrader" => a.offset = a.live
         /\ a.offset = None => a.anchor = None /\ a.live = None
<1> DEFINE found == AnchorOffset(w, caches.opens)
           live == LiveFutureBasis(caches.live, w)
           last == LastKnownBasis(caches.last, w)
           offset == WithLiveBasis(future, found.offset, live.basis)
<1>1. /\ a.offset = IF offset # None THEN offset ELSE last.basis
      /\ a.source = IF offset # None
                    THEN IF offset = found.offset THEN "anchor" ELSE "ninjatrader"
                    ELSE IF last.basis = None THEN None ELSE "ninjatrader_last"
      /\ a.anchor = found.offset /\ a.live = live.basis
  BY DEF resolve_future_offset
<1>2. \/ /\ offset = live.basis /\ live.basis # None
         /\ \/ found.offset = None
            \/ Abs(live.basis - found.offset) <= LIVE_BASIS_MAX_GAP[future]
      \/ /\ offset = found.offset
         /\ live.basis = None \/ found.offset # None
  BY DEF WithLiveBasis, trusted_basis
<1>3. None \notin {"anchor", "ninjatrader", "ninjatrader_last"}
  BY SourceAssumption
<1> HIDE DEF found, live, last, offset
<1> QED
  BY <1>1, <1>2, <1>3

-----------------------------------------------------------------------------
\* What a page may find in the storage, and what a later one finds: the readings
\* that arrived in between are later than those there were.
IsWorld(w) ==
  /\ w.now \in Int /\ IsFiniteSet(w.readings)
  /\ \A r \in w.readings : r.as_of \in Int
  /\ \A b \in w.bars : b.minute \in Int

GrowsTo(w, v) ==
  /\ w.now <= v.now /\ w.bars \subseteq v.bars /\ w.readings \subseteq v.readings
  /\ \A r \in v.readings \ w.readings, s \in w.readings : s.as_of < r.as_of

\* What the caches hold stands: a live basis was read with a fresh bar, and an open
\* is the median of a first minute that is over.
SessionOf(w, day) == {r \in w.readings : day * DaySeconds + MARKET_OPEN_ET <= r.as_of}

OpenStands(w, day, price) ==
  /\ price = MedianPrice(FirstMinute(SessionOf(w, day)))
  /\ \E r \in SessionOf(w, day) : MinuteOver(SessionOf(w, day), r.as_of)

BasisStands(w, entry) ==
  entry # None =>
    /\ entry.at \in Int
    /\ entry.basis # None => \E b \in w.bars : entry.at - (b.minute + 60) <= LIVE_BASIS_FRESH

CachesStand(w, caches) ==
  /\ BasisStands(w, caches.live)
  /\ \A day \in DOMAIN caches.opens : OpenStands(w, day, caches.opens[day])

\* A storage with readings has a latest one.  (A smallest set without one would have
\* a smaller one: take any element away.)
LEMMA LatestIsNewest ==
  ASSUME NEW S, IsFiniteSet(S), \A r \in S : r.as_of \in Int, S # {}
  PROVE  Latest(S) \in S /\ \A r \in S : r.as_of <= Latest(S).as_of
<1> DEFINE HasLatest(U) == \E x \in U : \A y \in U : y.as_of <= x.as_of
           Bad == {U \in FiniteSubsetsOf(S) : U # {} /\ ~HasLatest(U)}
<1>1. HasLatest(S)
  <2> SUFFICES ASSUME ~HasLatest(S) PROVE FALSE
    OBVIOUS
  <2>1. S \in Bad /\ Bad \subseteq FiniteSubsetsOf(S)
    BY DEF FiniteSubsetsOf
  <2>2. IsWellFoundedOn(StrictSubsetOrdering(S), FiniteSubsetsOf(S))
    BY FS_StrictSubsetOrderingWellFounded
  <2>3. PICK U \in Bad : \A W \in Bad : <<W, U>> \notin StrictSubsetOrdering(S)
    <3> HIDE DEF Bad
    <3> QED
      BY <2>1, <2>2, WFMin
  <2>4. PICK x : x \in U
    OBVIOUS
  <2> DEFINE W == U \ {x}
  <2>5. /\ W \in FiniteSubsetsOf(S) /\ U \subseteq S /\ U = W \cup {x}
        /\ <<W, U>> \in StrictSubsetOrdering(S)
    BY <2>4, FS_RemoveElement DEF FiniteSubsetsOf, StrictSubsetOrdering
  <2>6. W = {} \/ HasLatest(W)
    BY <2>3, <2>5
  <2>7. x.as_of \in Int /\ \A y \in W : y.as_of \in Int
    BY <2>4, <2>5
  <2> HIDE DEF W
  <2>8. HasLatest(U)
    <3>1. CASE W = {}
      BY <2>5, <2>7, <3>1
    <3>2. CASE HasLatest(W)
      <4>1. PICK z \in W : \A y \in W : y.as_of <= z.as_of
        BY <3>2
      <4>2. CASE z.as_of <= x.as_of
        BY <2>5, <2>7, <4>1, <4>2
      <4>3. CASE ~(z.as_of <= x.as_of)
        BY <2>5, <2>7, <4>1, <4>3
      <4> QED
        BY <4>2, <4>3
    <3> QED
      BY <2>6, <3>1, <3>2
  <2> QED
    BY <2>8
<1> QED
  BY <1>1 DEF Latest

\* The readings of the session of the latest one are all those since its opening.
LEMMA SessionOfLatest ==
  ASSUME NEW w, IsWorld(w), w.readings # {},
         NEW latest, latest = Latest(w.readings),
         NEW history, history = OfSession(w.readings, latest.as_of)
  PROVE  /\ history = SessionOf(w, DayOf(latest.as_of))
         /\ history # {} => latest \in history
<1>1. latest \in w.readings /\ \A r \in w.readings : r.as_of \in Int /\ r.as_of <= latest.as_of
  BY LatestIsNewest DEF IsWorld
<1> DEFINE open == DayOf(latest.as_of) * DaySeconds + MARKET_OPEN_ET
<1>2. open \in Int
  BY <1>1 DEF DayOf, DaySeconds, MARKET_OPEN_ET
<1>3. calculate_session_open(latest.as_of) = open
  BY DEF calculate_session_open
<1> HIDE DEF open
<1>4. history = {r \in w.readings : open <= r.as_of}
  BY <1>1, <1>3 DEF OfSession
<1>5. SessionOf(w, DayOf(latest.as_of)) = {r \in w.readings : open <= r.as_of}
  BY DEF SessionOf, open
<1>6. ASSUME history # {} PROVE latest \in history
  <2>1. PICK r \in w.readings : open <= r.as_of
    BY <1>4, <1>6
  <2>2. open <= latest.as_of
    BY <1>1, <1>2, <2>1
  <2> QED
    BY <1>1, <1>4, <2>2
<1> QED
  BY <1>4, <1>5, <1>6

\* Later readings do not change a first minute that is over.
LEMMA OpenStandsOn ==
  ASSUME NEW w, NEW v, IsWorld(w), IsWorld(v), GrowsTo(w, v),
         NEW day, NEW price, OpenStands(w, day, price)
  PROVE  OpenStands(v, day, price)
<1> DEFINE S == SessionOf(w, day)
           T == SessionOf(v, day)
<1>1. /\ S \subseteq T /\ \A r \in T : r.as_of \in Int
      /\ \A r \in T : r \in S \/ \A s \in S : s.as_of < r.as_of
  BY DEF SessionOf, IsWorld, GrowsTo
<1>2. PICK t \in S, s \in S : t.as_of >= s.as_of + OPENING_REFERENCE_SECONDS
  BY DEF OpenStands, MinuteOver
<1>3. OPENING_REFERENCE_SECONDS = 60
  BY DEF OPENING_REFERENCE_SECONDS
<1>4. price = MedianPrice(FirstMinute(S))
  BY DEF OpenStands
<1> HIDE DEF S, T
<1>5. FirstMinute(T) = FirstMinute(S)
  <2>1. ASSUME NEW r \in FirstMinute(T) PROVE r \in FirstMinute(S)
    <3>1. r \in T /\ \A x \in T : r.as_of <= x.as_of + 60
      BY <1>3, <2>1 DEF FirstMinute
    <3>2. r \in S
      <4>1. ~(t.as_of < r.as_of)
        BY <1>1, <1>2, <1>3, <3>1
      <4> QED
        BY <1>1, <1>2, <3>1, <4>1
    <3> QED
      BY <1>1, <1>3, <3>1, <3>2 DEF FirstMinute
  <2>2. ASSUME NEW r \in FirstMinute(S) PROVE r \in FirstMinute(T)
    <3>1. r \in S /\ \A x \in S : r.as_of <= x.as_of + 60
      BY <1>3, <2>2 DEF FirstMinute
    <3>2. \A x \in T : r.as_of <= x.as_of + 60
      BY <1>1, <3>1
    <3> QED
      BY <1>1, <1>3, <3>1, <3>2 DEF FirstMinute
  <2> QED
    BY <2>1, <2>2
<1>6. \E r \in T : MinuteOver(T, r.as_of)
  BY <1>1, <1>2 DEF MinuteOver
<1> QED
  BY <1>4, <1>5, <1>6 DEF OpenStands, T

\* So the caches stand for every later page, too.
LEMMA CachesStandOn ==
  ASSUME NEW w, NEW v, IsWorld(w), IsWorld(v), GrowsTo(w, v),
         NEW caches, CachesStand(w, caches)
  PROVE  CachesStand(v, caches)
<1>1. BasisStands(v, caches.live)
  BY DEF CachesStand, BasisStands, GrowsTo
<1> QED
  BY <1>1, OpenStandsOn DEF CachesStand

\* The anchor of a page, and the opens it leaves, from opens that stand: the anchor
\* is the one of a page that remembers nothing.
LEMMA AnchorStands ==
  ASSUME NEW w, IsWorld(w), NEW opens,
         \A day \in DOMAIN opens : OpenStands(w, day, opens[day]),
         NEW found, found = AnchorOffset(w, opens)
  PROVE  /\ found.offset = AnchorOffset(w, [d \in {} |-> 0]).offset
         /\ \A day \in DOMAIN found.opens : OpenStands(w, day, found.opens[day])
<1> DEFINE latest == Latest(w.readings)
           today == DayOf(latest.as_of)
           history == OfSession(w.readings, latest.as_of)
           open == opening_reference(history, latest.as_of)
           afresh == AnchorOffset(w, [d \in {} |-> 0])
<1>1. CASE w.readings = {} \/ today \notin DOMAIN w.anchors
  BY <1>1 DEF AnchorOffset
<1>2. CASE w.readings # {} /\ today \in DOMAIN w.anchors
  <2>1. /\ history = SessionOf(w, today)
        /\ history # {} => latest \in history
    BY <1>2, SessionOfLatest
  <2>2. history # {} => /\ open.price = MedianPrice(FirstMinute(history))
                        /\ open.complete = MinuteOver(history, latest.as_of)
    BY DEF opening_reference
  <2>3. afresh.offset = IF history = {} THEN None ELSE w.anchors[today] - open.price
    BY <1>2 DEF AnchorOffset
  <2>4. found = IF today \in DOMAIN opens
                THEN [offset |-> w.anchors[today] - opens[today], opens |-> opens]
                ELSE IF history = {} THEN [offset |-> None, opens |-> opens]
                ELSE [offset |-> w.anchors[today] - open.price,
                      opens |-> IF open.complete THEN remember_open(opens, today, open.price) ELSE opens]
    BY <1>2 DEF AnchorOffset
  <2> HIDE DEF latest, today, history, open, afresh
  <2>5. CASE today \in DOMAIN opens
    <3>1. OpenStands(w, today, opens[today])
      BY <2>5
    <3>2. history # {} /\ opens[today] = open.price
      BY <2>1, <2>2, <3>1 DEF OpenStands
    <3> QED
      BY <2>3, <2>4, <2>5, <3>2 DEF afresh
  <2>6. CASE today \notin DOMAIN opens
    <3>1. found.offset = afresh.offset
      BY <2>3, <2>4, <2>6
    <3>2. CASE history # {} /\ open.complete
      <4>1. OpenStands(w, today, open.price)
        BY <2>1, <2>2, <3>2 DEF OpenStands
      <4>2. found.opens = remember_open(opens, today, open.price)
        BY <2>4, <2>6, <3>2
      <4> QED
        BY <3>1, <4>1, <4>2 DEF remember_open, afresh
    <3>3. CASE ~(history # {} /\ open.complete)
      <4>1. found.opens = opens
        BY <2>4, <2>6, <3>3
      <4> QED
        BY <3>1, <4>1 DEF afresh
    <3> QED
      BY <3>2, <3>3
  <2> QED
    BY <2>5, <2>6
<1> QED
  BY <1>1, <1>2

\* The live basis of a page: from the cache, at most LIVE_BASIS_CACHE_SECONDS old, or
\* read with a bar that is fresh now.
LEMMA BasisIsFresh ==
  ASSUME NEW w, IsWorld(w), NEW entry, BasisStands(w, entry),
         NEW live, live = LiveFutureBasis(entry, w)
  PROVE  /\ BasisStands(w, live)
         /\ live.basis # None =>
              \E b \in w.bars : w.now - (b.minute + 60)
                                  <= LIVE_BASIS_FRESH + LIVE_BASIS_CACHE_SECONDS
<1>1. LIVE_BASIS_FRESH = 600 /\ LIVE_BASIS_CACHE_SECONDS = 5
  BY DEF LIVE_BASIS_FRESH, LIVE_BASIS_CACHE_SECONDS
<1>2. CASE Cached(entry, w.now, LIVE_BASIS_CACHE_SECONDS)
  <2>1. live = entry /\ entry # None /\ w.now - entry.at < 5
    BY <1>1, <1>2 DEF LiveFutureBasis, Remembered, Cached
  <2>2. entry.at \in Int /\ w.now \in Int
    BY <2>1 DEF BasisStands, IsWorld
  <2>3. ASSUME entry.basis # None
        PROVE  \E b \in w.bars : w.now - (b.minute + 60) <= 605
    <3>1. PICK b \in w.bars : entry.at - (b.minute + 60) <= 600
      BY <1>1, <2>1, <2>3 DEF BasisStands
    <3>2. w.now - (b.minute + 60) <= 605
      BY <2>1, <2>2, <3>1 DEF IsWorld
    <3> QED
      BY <3>2
  <2> QED
    BY <1>1, <2>1, <2>3
<1>3. CASE ~Cached(entry, w.now, LIVE_BASIS_CACHE_SECONDS)
  <2> DEFINE bars == {b \in w.bars : b.minute >= w.now - LIVE_BASIS_FRESH - 60 * (LIVE_BASIS_BARS + 2)}
  <2>1. live = [at |-> w.now, basis |-> IF ~w.readable THEN None
                                         ELSE live_basis(bars, w.now, LIVE_BASIS_FRESH)]
    BY <1>3 DEF LiveFutureBasis, Remembered
  <2>2. w.now \in Int /\ LIVE_BASIS_FRESH # None
    BY <1>1, GuardAssumption DEF IsWorld
  <2>3. ASSUME live.basis # None
        PROVE  \E b \in w.bars : w.now - (b.minute + 60) <= 600
    <3>1. live_basis(bars, w.now, LIVE_BASIS_FRESH) # None
      BY <2>1, <2>3
    <3>2. ~TooOld(Usable(bars), w.now, LIVE_BASIS_FRESH)
      BY <3>1 DEF live_basis
    <3>3. PICK b \in Usable(bars) : ~(w.now - (b.minute + 60) > 600)
      BY <1>1, <2>2, <3>2 DEF TooOld
    <3>4. b \in w.bars /\ b.minute \in Int
      BY <3>3 DEF Usable, IsWorld
    <3> QED
      BY <2>2, <3>3, <3>4
  <2> QED
    BY <1>1, <2>1, <2>2, <2>3 DEF BasisStands, IsWorld
<1> QED
  BY <1>2, <1>3

\* However many pages were answered before, and whatever arrived between them, the
\* caches stand: a page leaves them standing (and CachesStandOn carries them on), its
\* live basis is at most as old as bars and cache allow, and its anchor is the one
\* of a page that remembers nothing (resolve_future_offset).
THEOREM PagesKeepCaches ==
  ASSUME NEW future, NEW w, IsWorld(w), NEW caches, CachesStand(w, caches),
         NEW a, a = resolve_future_offset(future, w, caches)
  PROVE  /\ \A v : IsWorld(v) /\ GrowsTo(w, v) => CachesStand(v, a.caches)
         /\ a.anchor = AnchorOffset(w, [d \in {} |-> 0]).offset
         /\ a.source = "ninjatrader" =>
              \E b \in w.bars : w.now - (b.minute + 60)
                                  <= LIVE_BASIS_FRESH + LIVE_BASIS_CACHE_SECONDS
<1> DEFINE found == AnchorOffset(w, caches.opens)
           live == LiveFutureBasis(caches.live, w)
<1>1. /\ a.anchor = found.offset /\ a.live = live.basis
      /\ a.caches.live = live /\ a.caches.opens = found.opens
  BY DEF resolve_future_offset
<1>2. a.source = "ninjatrader" => a.live # None
  <2>1. a.source = "ninjatrader" => a.offset = a.live
    BY OffsetKeepsToAnchor
  <2>2. a.source = "ninjatrader" => a.offset # None
    BY SourceAssumption DEF resolve_future_offset
  <2> QED
    BY <2>1, <2>2
<1> HIDE DEF found, live
<1>3. /\ found.offset = AnchorOffset(w, [d \in {} |-> 0]).offset
      /\ \A day \in DOMAIN found.opens : OpenStands(w, day, found.opens[day])
  BY AnchorStands DEF CachesStand, found
<1>4. /\ BasisStands(w, live)
      /\ live.basis # None =>
           \E b \in w.bars : w.now - (b.minute + 60) <= LIVE_BASIS_FRESH + LIVE_BASIS_CACHE_SECONDS
  BY BasisIsFresh DEF CachesStand, live
<1>5. CachesStand(w, a.caches)
  BY <1>1, <1>3, <1>4 DEF CachesStand
<1> QED
  BY <1>1, <1>2, <1>3, <1>4, <1>5, CachesStandOn

-----------------------------------------------------------------------------
\* The storages the question about the offset is put to.
LEMMA KnownIsWorld ==
  ASSUME NEW at \in Int, NEW bars \in SUBSET Bars, NEW anchor, NEW readable
  PROVE  IsWorld(Known(at, bars, anchor, readable))
<1> DEFINE w == Known(at, bars, anchor, readable)
<1>1. Opening \in Int
  BY DEF Opening, DaySeconds, MARKET_OPEN_ET
<1>2. IsFiniteSet(OpeningReadings)
  <2>1. \A x, y, z, u : IsFiniteSet({x, y, z, u})
    <3> SUFFICES ASSUME NEW x, NEW y, NEW z, NEW u PROVE IsFiniteSet({x, y, z, u})
      OBVIOUS
    <3>1. IsFiniteSet({x}) /\ IsFiniteSet({x} \cup {y})
      BY FS_Singleton, FS_AddElement
    <3>2. IsFiniteSet(({x} \cup {y}) \cup {z})
      BY <3>1, FS_AddElement
    <3>3. IsFiniteSet((({x} \cup {y}) \cup {z}) \cup {u})
      BY <3>2, FS_AddElement
    <3>4. (({x} \cup {y}) \cup {z}) \cup {u} = {x, y, z, u}
      OBVIOUS
    <3> QED
      BY <3>3, <3>4
  <2> QED
    BY <2>1 DEF OpeningReadings
<1>3. \A r \in OpeningReadings : r.as_of \in Int
  BY <1>1 DEF OpeningReadings, Reading
<1>4. \A b \in Bars : b.minute \in Int
  BY <1>1 DEF Bars, Bar, DaySeconds
<1>5. /\ w.now = Opening + at /\ w.readings \subseteq OpeningReadings /\ w.bars \subseteq Bars
  BY DEF Known
<1> HIDE DEF w
<1>6. IsFiniteSet(w.readings)
  BY <1>2, <1>5, FS_Subset
<1>7. IsWorld(w)
  BY <1>1, <1>3, <1>4, <1>5, <1>6 DEF IsWorld
<1> QED
  BY <1>7 DEF w

LEMMA KnownGrows ==
  ASSUME NEW at \in Int, NEW later \in Nat, NEW bars \in SUBSET Bars,
         NEW anchor, NEW other, NEW readable, NEW again
  PROVE  GrowsTo(Known(at, bars, anchor, readable), Known(at + later, bars, other, again))
<1> DEFINE w == Known(at, bars, anchor, readable)
           v == Known(at + later, bars, other, again)
<1>1. Opening \in Int
  BY DEF Opening, DaySeconds, MARKET_OPEN_ET
<1>2. \A r \in OpeningReadings : r.as_of \in Int
  BY <1>1 DEF OpeningReadings, Reading
<1>3. \A b \in Bars : b.minute \in Int
  BY <1>1 DEF Bars, Bar, DaySeconds
<1>4. /\ w.now = Opening + at /\ v.now = Opening + (at + later)
      /\ w.readings = {r \in OpeningReadings : r.as_of <= Opening + at}
      /\ v.readings = {r \in OpeningReadings : r.as_of <= Opening + (at + later)}
      /\ w.bars = {b \in bars : b.minute + 60 <= Opening + at}
      /\ v.bars = {b \in bars : b.minute + 60 <= Opening + (at + later)}
  BY DEF Known
<1> HIDE DEF w, v
<1>5. GrowsTo(w, v)
  BY <1>1, <1>2, <1>3, <1>4 DEF GrowsTo
<1> QED
  BY <1>5 DEF w, v

LEMMA EmptyCachesStand ==
  ASSUME NEW w
  PROVE  CachesStand(w, NoCaches)
BY DEF CachesStand, BasisStands, NoCaches

\* The answer to the question.
LEMMA AnswerStands ==
  ASSUME NEW first, NEW second, IsWorld(first), IsWorld(second), GrowsTo(first, second),
         NEW caches, caches = resolve_future_offset("ES", first, NoCaches).caches,
         NEW a, a = resolve_future_offset("ES", second, caches)
  PROVE  /\ a.anchor # None =>
              /\ a.offset # None
              /\ a.offset = a.anchor \/ Abs(a.offset - a.anchor) <= LIVE_BASIS_MAX_GAP["ES"]
         /\ a.source = "ninjatrader" =>
              \E b \in second.bars : second.now - (b.minute + 60)
                                       <= LIVE_BASIS_FRESH + LIVE_BASIS_CACHE_SECONDS
         /\ a.source = "ninjatrader_last" => a.anchor = None
         /\ a.anchor = AnchorOffset(second, [d \in {} |-> 0]).offset
<1>1. CachesStand(second, caches)
  BY EmptyCachesStand, PagesKeepCaches
<1>2. /\ a.anchor = AnchorOffset(second, [d \in {} |-> 0]).offset
      /\ a.source = "ninjatrader" =>
           \E b \in second.bars : second.now - (b.minute + 60)
                                    <= LIVE_BASIS_FRESH + LIVE_BASIS_CACHE_SECONDS
  BY <1>1, PagesKeepCaches
<1> QED
  BY <1>2, OffsetKeepsToAnchor

\* The offset a page moves the levels by stays near the anchor, comes from bars that
\* are fresh, and the opening reference remembered for it is the one a page that
\* remembers nothing would take; also for a page after another one.
THEOREM OffsetStandsAlways == Spec => []OffsetStands
<1> DEFINE Inv == asked # None => "kind" \in DOMAIN asked /\ (asked.kind = "offset" => OffsetStands)
<1>1. Init => Inv
  BY DEF Init, NothingYet
<1>2. Inv /\ [Next]_vars => Inv'
  <2> SUFFICES ASSUME Inv, [Next]_vars PROVE Inv'
    OBVIOUS
  <2>1. CASE AskOffset
    <3>1. PICK first_at \in {-40, 8, 40, 80, 130}, later \in {3, 10, 61, 700}, bars \in SUBSET Bars,
               anchors \in {<<None, None>>, <<None, 60>>, <<60, 60>>}, readable \in [1..2 -> BOOLEAN] :
            \E first \in {Known(first_at, bars, anchors[1], readable[1])},
               second \in {Known(first_at + later, bars, anchors[2], readable[2])} :
              \E caches \in {resolve_future_offset("ES", first, NoCaches).caches} :
                Ask([kind |-> "offset", world |-> second, bars |-> bars,
                     answer |-> resolve_future_offset("ES", second, caches)])
      BY <2>1 DEF AskOffset
    <3> DEFINE first == Known(first_at, bars, anchors[1], readable[1])
               second == Known(first_at + later, bars, anchors[2], readable[2])
               caches == resolve_future_offset("ES", first, NoCaches).caches
               a == resolve_future_offset("ES", second, caches)
    <3>2. asked' = [kind |-> "offset", world |-> second, bars |-> bars, answer |-> a]
      BY <3>1 DEF Ask
    <3>3. first_at \in Int /\ later \in Nat /\ first_at + later \in Int
      OBVIOUS
    <3>4. IsWorld(first) /\ IsWorld(second) /\ GrowsTo(first, second)
      BY <3>3, KnownIsWorld, KnownGrows
    <3>5. second.bars \subseteq bars
      BY DEF Known
    <3> HIDE DEF first, second
    <3>6. /\ a.anchor # None =>
               /\ a.offset # None
               /\ a.offset = a.anchor \/ Abs(a.offset - a.anchor) <= LIVE_BASIS_MAX_GAP["ES"]
          /\ a.source = "ninjatrader" =>
               \E b \in second.bars : second.now - (b.minute + 60)
                                        <= LIVE_BASIS_FRESH + LIVE_BASIS_CACHE_SECONDS
          /\ a.source = "ninjatrader_last" => a.anchor = None
          /\ a.anchor = AnchorOffset(second, [d \in {} |-> 0]).offset
      BY <3>4, AnswerStands
    <3> HIDE DEF a
    <3>7. /\ asked'.answer = a /\ asked'.world = second /\ asked'.bars = bars
          /\ asked'.kind = "offset" /\ "kind" \in DOMAIN asked'
      BY <3>2
    <3>8. OffsetInForce'
      BY <3>5, <3>6, <3>7 DEF OffsetInForce
    <3>9. RememberedOpenStands'
      BY <3>6, <3>7 DEF RememberedOpenStands
    <3> QED
      BY <3>7, <3>8, <3>9 DEF OffsetStands
  <2>2. CASE AskViews
    <3>1. "kind" \in DOMAIN asked' /\ asked'.kind = "views"
      BY <2>2 DEF AskViews, Ask
    <3> QED
      BY <3>1
  <2>3. CASE AskVwap
    <3>1. "kind" \in DOMAIN asked' /\ asked'.kind = "vwap"
      BY <2>3 DEF AskVwap, Ask
    <3> QED
      BY <3>1
  <2>4. CASE AskMove
    <3>1. "kind" \in DOMAIN asked' /\ asked'.kind = "move"
      BY <2>4 DEF AskMove, Ask
    <3> QED
      BY <3>1
  <2>5. CASE AskPages
    <3>1. "kind" \in DOMAIN asked' /\ asked'.kind = "pages"
      BY <2>5 DEF AskPages, Ask
    <3> QED
      BY <3>1
  <2>6. CASE AskRoll
    <3>1. "kind" \in DOMAIN asked' /\ asked'.kind = "roll"
      BY <2>6 DEF AskRoll, Ask
    <3> QED
      BY <3>1
  <2>7. CASE AnchorDay
    <3>1. asked # None /\ asked.kind = "roll"
      BY <2>7 DEF AnchorDay
    <3>2. DOMAIN asked' = DOMAIN asked /\ asked'.kind = "roll"
      BY <2>7, <3>1 DEF AnchorDay
    <3> QED
      BY <3>1, <3>2
  <2>8. CASE Guarded \/ UNCHANGED vars
    BY <2>8 DEF Guarded, vars, OffsetStands, OffsetInForce, RememberedOpenStands, Asked
  <2> QED
    BY <2>1, <2>2, <2>3, <2>4, <2>5, <2>6, <2>7, <2>8 DEF Next
<1>3. Inv => OffsetStands
  BY DEF OffsetStands, OffsetInForce, RememberedOpenStands, Asked
<1> QED
  BY <1>1, <1>2, <1>3, PTL DEF Spec

-----------------------------------------------------------------------------
\* The levels that are never None: 0 says that there is none.
StrikeLevels == {"peak", "pain", "closing"}

\* The snapshot of an index as build_market_snapshot makes it: prices and levels
\* are numbers, a level may be missing.
IsSnapshot(s) ==
  /\ {"price", "gamma", "expected_move", "anchored_vwap", "atr_range", "closing_dynamics",
      "recent_flow"} \subseteq DOMAIN s
  /\ {"gamma_flip", "call_wall", "put_wall", "max_pain", "absolute_gamma_strike", "items",
      "net_gamma"} \subseteq DOMAIN s.gamma
  /\ {"upper_bound", "lower_bound"} \subseteq DOMAIN s.expected_move
  /\ {"today_open", "outer_upper_band", "outer_lower_band", "inner_upper_band",
      "inner_lower_band"} \subseteq DOMAIN s.atr_range
  /\ {"magnet_strike", "max_pain"} \subseteq DOMAIN s.closing_dynamics
  /\ s.price \in Int
  /\ s.expected_move.upper_bound \in Int /\ s.expected_move.lower_bound \in Int
  /\ \A l \in DOMAIN LevelsOf(s) :
        LevelsOf(s)[l] \in Int \cup IF l \in StrikeLevels THEN {} ELSE {None}

LEMMA ShiftKeeps ==
  ASSUME NEW x \in Int \cup {None}, NEW o \in Int, NEW p \in Int
  PROVE  /\ x = None => Shift(x, o) = None
         /\ x # None => Shift(x, o) # None /\ (p + o) - Shift(x, o) = p - x
         /\ x = 0 => ShiftStrike(x, o) = 0
         /\ x \in Int \ {0} => (p + o) - ShiftStrike(x, o) = p - x
BY GuardAssumption DEF Shift, ShiftStrike

\* The gamma view of a moved snapshot.
LEMMA MovedView ==
  ASSUME NEW s, IsSnapshot(s), NEW o \in Int, NEW m, m = shift_market_snapshot(s, o)
  PROVE  /\ m.price = s.price + o
         /\ m.gamma.net_gamma = s.gamma.net_gamma
         /\ m.gamma.gamma_flip = Shift(s.gamma.gamma_flip, o)
         /\ m.gamma.call_wall = Shift(s.gamma.call_wall, o)
         /\ m.gamma.put_wall = Shift(s.gamma.put_wall, o)
         /\ m.gamma.max_pain = ShiftStrike(s.gamma.max_pain, o)
         /\ m.gamma.absolute_gamma_strike = ShiftStrike(s.gamma.absolute_gamma_strike, o)
<1>1. m.price = s.price + o /\ m.gamma = shift_gamma_aggregate(s.gamma, o)
  BY DEF IsSnapshot, shift_market_snapshot
<1> DEFINE g == s.gamma
<1>2. {"gamma_flip", "call_wall", "put_wall", "max_pain", "absolute_gamma_strike", "items",
       "net_gamma"} \subseteq DOMAIN g
  BY DEF IsSnapshot
<1> HIDE DEF g
<1>3. LET h == shift_gamma_aggregate(g, o)
      IN  /\ h.net_gamma = g.net_gamma
          /\ h.gamma_flip = Shift(g.gamma_flip, o)
          /\ h.call_wall = Shift(g.call_wall, o) /\ h.put_wall = Shift(g.put_wall, o)
          /\ h.max_pain = ShiftStrike(g.max_pain, o)
          /\ h.absolute_gamma_strike = ShiftStrike(g.absolute_gamma_strike, o)
  BY <1>2 DEF shift_gamma_aggregate
<1> QED
  BY <1>1, <1>3 DEF g

\* The rest of it.
LEMMA MovedPanels ==
  ASSUME NEW s, IsSnapshot(s), NEW o \in Int, NEW m, m = shift_market_snapshot(s, o)
  PROVE  /\ m.expected_move.upper_bound = s.expected_move.upper_bound + o
         /\ m.expected_move.lower_bound = s.expected_move.lower_bound + o
         /\ m.atr_range.today_open = Shift(s.atr_range.today_open, o)
         /\ m.atr_range.outer_upper_band = Shift(s.atr_range.outer_upper_band, o)
         /\ m.atr_range.outer_lower_band = Shift(s.atr_range.outer_lower_band, o)
         /\ m.atr_range.inner_upper_band = Shift(s.atr_range.inner_upper_band, o)
         /\ m.atr_range.inner_lower_band = Shift(s.atr_range.inner_lower_band, o)
         /\ m.closing_dynamics.magnet_strike = Shift(s.closing_dynamics.magnet_strike, o)
         /\ m.closing_dynamics.max_pain = ShiftStrike(s.closing_dynamics.max_pain, o)
<1> DEFINE e == s.expected_move
           a == s.atr_range
           c == s.closing_dynamics
<1>0. {"price", "gamma", "expected_move", "anchored_vwap", "atr_range", "closing_dynamics",
       "recent_flow"} \subseteq DOMAIN s
  BY DEF IsSnapshot
<1>1. /\ m.expected_move = [e EXCEPT !.upper_bound = @ + o, !.lower_bound = @ + o]
      /\ m.atr_range = ShiftBands(a, o) /\ m.closing_dynamics = ShiftMagnet(c, o)
  BY <1>0 DEF shift_market_snapshot
<1>2. /\ {"upper_bound", "lower_bound"} \subseteq DOMAIN e
      /\ {"today_open", "outer_upper_band", "outer_lower_band", "inner_upper_band",
          "inner_lower_band"} \subseteq DOMAIN a
      /\ {"magnet_strike", "max_pain"} \subseteq DOMAIN c
  BY DEF IsSnapshot
<1> HIDE DEF e, a, c
<1>3. /\ m.expected_move.upper_bound = e.upper_bound + o
      /\ m.expected_move.lower_bound = e.lower_bound + o
  BY <1>1, <1>2
<1>4. /\ m.atr_range.today_open = Shift(a.today_open, o)
      /\ m.atr_range.outer_upper_band = Shift(a.outer_upper_band, o)
      /\ m.atr_range.outer_lower_band = Shift(a.outer_lower_band, o)
      /\ m.atr_range.inner_upper_band = Shift(a.inner_upper_band, o)
      /\ m.atr_range.inner_lower_band = Shift(a.inner_lower_band, o)
  BY <1>1, <1>2 DEF ShiftBands
<1>5. /\ m.closing_dynamics.magnet_strike = Shift(c.magnet_strike, o)
      /\ m.closing_dynamics.max_pain = ShiftStrike(c.max_pain, o)
  BY <1>1, <1>2 DEF ShiftMagnet
<1> QED
  BY <1>3, <1>4, <1>5 DEF e, a, c

\* A moved snapshot keeps the distance of its price to every level, what is
\* missing stays missing, and the side of the flip the price is on is judged alike.
LEMMA MovedSnapshot ==
  ASSUME NEW s, IsSnapshot(s), NEW o \in Int, NEW m, m = shift_market_snapshot(s, o)
  PROVE  /\ \A l \in DOMAIN LevelsOf(s) :
              LET is == LevelsOf(s)[l]
                  fs == LevelsOf(m)[l]
              IN  \/ is = None /\ fs = None /\ l \notin StrikeLevels
                  \/ is = 0 /\ fs = 0 /\ l \in StrikeLevels
                  \/ m.price - fs = s.price - is
         /\ DealerMode(m) = DealerMode(s)
         /\ DealerModeConfirmed(m) = DealerModeConfirmed(s)
         /\ agreement_component(m.gamma, m.price) = agreement_component(s.gamma, s.price)
<1> DEFINE Kept(is, fs, l) == \/ is = None /\ fs = None /\ l \notin StrikeLevels
                              \/ is = 0 /\ fs = 0 /\ l \in StrikeLevels
                              \/ m.price - fs = s.price - is
<1>1. m.price = s.price + o /\ s.price \in Int
  BY MovedView DEF IsSnapshot
<1>2. /\ s.gamma.gamma_flip \in Int \cup {None}
      /\ s.gamma.call_wall \in Int \cup {None} /\ s.gamma.put_wall \in Int \cup {None}
      /\ s.gamma.absolute_gamma_strike \in Int /\ s.gamma.max_pain \in Int
      /\ s.atr_range.today_open \in Int \cup {None}
      /\ s.atr_range.outer_upper_band \in Int \cup {None}
      /\ s.atr_range.outer_lower_band \in Int \cup {None}
      /\ s.atr_range.inner_upper_band \in Int \cup {None}
      /\ s.atr_range.inner_lower_band \in Int \cup {None}
      /\ s.closing_dynamics.magnet_strike \in Int \cup {None}
      /\ s.closing_dynamics.max_pain \in Int
      /\ s.expected_move.upper_bound \in Int /\ s.expected_move.lower_bound \in Int
  BY DEF IsSnapshot, LevelsOf, StrikeLevels
<1>3. ASSUME NEW is \in Int \cup {None}, NEW l, l \notin StrikeLevels
      PROVE  Kept(is, Shift(is, o), l)
  <2> DEFINE p == s.price
  <2>1. p \in Int /\ m.price = p + o
    BY <1>1
  <2> HIDE DEF p
  <2>2. \/ is = None /\ Shift(is, o) = None
        \/ (p + o) - Shift(is, o) = p - is
    BY <2>1, <1>3, ShiftKeeps
  <2> QED
    BY <2>1, <2>2, <1>3 DEF p
<1>4. ASSUME NEW is \in Int, NEW l \in StrikeLevels
      PROVE  Kept(is, ShiftStrike(is, o), l)
  <2> DEFINE p == s.price
  <2>1. p \in Int /\ m.price = p + o
    BY <1>1
  <2> HIDE DEF p
  <2>2. \/ is = 0 /\ ShiftStrike(is, o) = 0
        \/ (p + o) - ShiftStrike(is, o) = p - is
    BY <2>1, <1>4, ShiftKeeps
  <2> QED
    BY <2>1, <2>2, <1>4 DEF p
<1>5. /\ (m.price - m.expected_move.upper_bound) = s.price - s.expected_move.upper_bound
      /\ (m.price - m.expected_move.lower_bound) = s.price - s.expected_move.lower_bound
  BY <1>1, <1>2, MovedPanels
<1>9. "peak" \in StrikeLevels /\ "pain" \in StrikeLevels /\ "closing" \in StrikeLevels
  BY DEF StrikeLevels
<1>10. StrikeLevels \cap {"flip", "call", "put", "open", "outer_upper", "outer_lower",
                        "inner_upper", "inner_lower", "magnet"} = {}
  BY DEF StrikeLevels
<1>6. \A l \in DOMAIN LevelsOf(s) : Kept(LevelsOf(s)[l], LevelsOf(m)[l], l)
  <2> HIDE DEF Kept
  <2>1. /\ Kept(s.expected_move.upper_bound, m.expected_move.upper_bound, "above")
        /\ Kept(s.expected_move.lower_bound, m.expected_move.lower_bound, "below")
    BY <1>5 DEF Kept
  <2>2. /\ Kept(s.gamma.gamma_flip, Shift(s.gamma.gamma_flip, o), "flip")
        /\ Kept(s.gamma.call_wall, Shift(s.gamma.call_wall, o), "call")
        /\ Kept(s.gamma.put_wall, Shift(s.gamma.put_wall, o), "put")
        /\ Kept(s.atr_range.today_open, Shift(s.atr_range.today_open, o), "open")
        /\ Kept(s.atr_range.outer_upper_band, Shift(s.atr_range.outer_upper_band, o),
                "outer_upper")
        /\ Kept(s.atr_range.outer_lower_band, Shift(s.atr_range.outer_lower_band, o),
                "outer_lower")
        /\ Kept(s.atr_range.inner_upper_band, Shift(s.atr_range.inner_upper_band, o),
                "inner_upper")
        /\ Kept(s.atr_range.inner_lower_band, Shift(s.atr_range.inner_lower_band, o),
                "inner_lower")
        /\ Kept(s.closing_dynamics.magnet_strike, Shift(s.closing_dynamics.magnet_strike, o),
                "magnet")
    BY <1>2, <1>3, <1>10
  <2>3. /\ Kept(s.gamma.absolute_gamma_strike, ShiftStrike(s.gamma.absolute_gamma_strike, o),
                "peak")
        /\ Kept(s.gamma.max_pain, ShiftStrike(s.gamma.max_pain, o), "pain")
        /\ Kept(s.closing_dynamics.max_pain, ShiftStrike(s.closing_dynamics.max_pain, o),
                "closing")
    BY <1>2, <1>4, <1>9
  <2>4. /\ LevelsOf(m).flip = Shift(s.gamma.gamma_flip, o)
        /\ LevelsOf(m).call = Shift(s.gamma.call_wall, o)
        /\ LevelsOf(m).put = Shift(s.gamma.put_wall, o)
        /\ LevelsOf(m).peak = ShiftStrike(s.gamma.absolute_gamma_strike, o)
        /\ LevelsOf(m).pain = ShiftStrike(s.gamma.max_pain, o)
    BY MovedView DEF LevelsOf
  <2>5. /\ LevelsOf(m).open = Shift(s.atr_range.today_open, o)
        /\ LevelsOf(m).outer_upper = Shift(s.atr_range.outer_upper_band, o)
        /\ LevelsOf(m).outer_lower = Shift(s.atr_range.outer_lower_band, o)
        /\ LevelsOf(m).inner_upper = Shift(s.atr_range.inner_upper_band, o)
        /\ LevelsOf(m).inner_lower = Shift(s.atr_range.inner_lower_band, o)
        /\ LevelsOf(m).magnet = Shift(s.closing_dynamics.magnet_strike, o)
        /\ LevelsOf(m).closing = ShiftStrike(s.closing_dynamics.max_pain, o)
    BY MovedPanels DEF LevelsOf
  <2>6. /\ LevelsOf(m).above = m.expected_move.upper_bound
        /\ LevelsOf(m).below = m.expected_move.lower_bound
    BY DEF LevelsOf
  <2> QED
    BY <2>1, <2>2, <2>3, <2>4, <2>5, <2>6 DEF LevelsOf
<1>7. /\ m.gamma.net_gamma = s.gamma.net_gamma
      /\ m.gamma.gamma_flip = None <=> s.gamma.gamma_flip = None
      /\ s.gamma.gamma_flip # None =>
           (m.price >= m.gamma.gamma_flip <=> s.price >= s.gamma.gamma_flip)
  <2>1. /\ m.gamma.net_gamma = s.gamma.net_gamma
        /\ m.gamma.gamma_flip = Shift(s.gamma.gamma_flip, o)
    BY MovedView
  <2>2. s.gamma.gamma_flip \in Int \cup {None}
    BY <1>2
  <2> QED
    BY <1>1, <2>1, <2>2, GuardAssumption DEF Shift
<1>8. /\ PriceDealerMode(m) = PriceDealerMode(s)
      /\ agreement_component(m.gamma, m.price) = agreement_component(s.gamma, s.price)
  BY <1>7 DEF PriceDealerMode, agreement_component
<1> QED
  BY <1>6, <1>7, <1>8 DEF DealerMode, DealerModeConfirmed

\* The page of a future (build_market_snapshot): without an offset there is none;
\* with one it is found when that of its index is, every level as far from the
\* price as on the index's page, and the dealers judged alike.
THEOREM FuturePageFollowsIndex ==
  ASSUME NEW st, NEW future, IsFuture(future),
         NEW i, i = build_market_snapshot(st, PRICE_PROXY_SYMBOL_BY_FUTURE[future]),
         NEW f, f = build_market_snapshot(st, future),
         NEW offset \in Int \cup {None}, offset = FutureOffset(st, future)
  PROVE  /\ offset = None => f = NoOpeningPrice
         /\ offset # None /\ ~i.found => f = i
         /\ offset # None /\ i.found /\ IsSnapshot(i.value) =>
              LET s == i.value
                  m == f.value
              IN  /\ f.found
                  /\ m.price - s.price = offset
                  /\ \A l \in DOMAIN LevelsOf(s) :
                       \/ LevelsOf(s)[l] = None /\ LevelsOf(m)[l] = None /\ l \notin StrikeLevels
                       \/ LevelsOf(s)[l] = 0 /\ LevelsOf(m)[l] = 0 /\ l \in StrikeLevels
                       \/ m.price - LevelsOf(m)[l] = s.price - LevelsOf(s)[l]
                  /\ DealerMode(m) = DealerMode(s)
                  /\ agreement_component(m.gamma, m.price) = agreement_component(s.gamma, s.price)
<1> DEFINE index == PRICE_PROXY_SYMBOL_BY_FUTURE[future]
<1>1. ~IsFuture(index)
  BY DEF IsFuture, PRICE_PROXY_SYMBOL_BY_FUTURE
<1>2. i = IndexSnapshot(st, index)
  BY <1>1 DEF build_market_snapshot
<1>3. f = Moved(i, offset, NoOpeningPrice, shift_market_snapshot(i.value, offset))
  BY <1>2 DEF build_market_snapshot
<1>4. ASSUME offset # None, i.found
      PROVE  f.found /\ f.value = shift_market_snapshot(i.value, offset)
  BY <1>3, <1>4 DEF Moved, Found
<1>5. offset = None => f = NoOpeningPrice
  BY <1>3 DEF Moved
<1>6. offset # None /\ ~i.found => f = i
  BY <1>3 DEF Moved
<1>7. ASSUME offset # None, i.found, IsSnapshot(i.value)
      PROVE  LET s == i.value
                 m == f.value
             IN  /\ f.found
                 /\ m.price - s.price = offset
                 /\ \A l \in DOMAIN LevelsOf(s) :
                      \/ LevelsOf(s)[l] = None /\ LevelsOf(m)[l] = None /\ l \notin StrikeLevels
                      \/ LevelsOf(s)[l] = 0 /\ LevelsOf(m)[l] = 0 /\ l \in StrikeLevels
                      \/ m.price - LevelsOf(m)[l] = s.price - LevelsOf(s)[l]
                 /\ DealerMode(m) = DealerMode(s)
                 /\ agreement_component(m.gamma, m.price) = agreement_component(s.gamma, s.price)
  <2>1. offset \in Int /\ f.value = shift_market_snapshot(i.value, offset) /\ f.found
    BY <1>4, <1>7
  <2>2. f.value.price - i.value.price = offset
    <3> DEFINE s == i.value
    <3>1. IsSnapshot(s)
      BY <1>7
    <3> HIDE DEF s
    <3>2. s.price \in Int /\ shift_market_snapshot(s, offset).price = s.price + offset
      BY <2>1, <3>1, MovedView DEF IsSnapshot
    <3>3. shift_market_snapshot(s, offset).price - s.price = offset
      BY <2>1, <3>2
    <3> QED
      BY <2>1, <3>3 DEF s
  <2> QED
    BY <1>7, <2>1, <2>2, MovedSnapshot
<1> QED
  BY <1>5, <1>6, <1>7
=============================================================================
