---------------------------- MODULE StorageProofs ----------------------------
(***************************************************************************)
(* Proofs about Storage for any symbols, times and number of saves, over   *)
(* every save of the adapters.  Two arguments: the ids of underlyings come *)
(* from a sequence that never goes back, so neither a row nor the cache    *)
(* can give the id of one symbol to another, whatever transactions fail;   *)
(* and of the twenty-odd saves only two touch future_price_anchors, none   *)
(* of which takes a row away.  Then two kinds of answers: those of the     *)
(* synchronous and asynchronous reads, and those of InMemoryStorage where  *)
(* a table has one row per key that a save replaces.                       *)
(***************************************************************************)
EXTENDS Storage, FiniteSetTheorems, TLAPS

Underlyings == [id : Nat, symbol : Symbols, kind : {"configured", "equity"}]

\* Ids and symbols are unique, all ids were drawn from the sequence, and a
\* cached id is no other symbol's.
IdsFit(rows, ids, n) ==
  /\ n \in Nat /\ rows \subseteq Underlyings
  /\ DOMAIN ids \subseteq Symbols /\ ids = [s \in DOMAIN ids |-> ids[s]]
  /\ \A u \in rows : u.id < n
  /\ \A s \in DOMAIN ids : ids[s] \in Nat /\ ids[s] < n
  /\ \A u, w \in rows : u.id = w.id \/ u.symbol = w.symbol => u = w
  /\ \A r, s \in DOMAIN ids : ids[r] = ids[s] => r = s
  /\ \A s \in DOMAIN ids, u \in rows : ids[s] = u.id <=> s = u.symbol

\* The primary key of future_price_anchors.
OneAnchorADay ==
  \A a, b \in db.anchors : a.uid = b.uid /\ a.day = b.day => a = b

\* An automatic saver that saved left a row, which is still there.
SavedIsThere ==
  \A a \in Savers : auto[a] = "saved" =>
     /\ Future \in DOMAIN cache
     /\ HasAnchor(db, cache[Future], Day)

Tables ==
  /\ family \in Families /\ now \in Start..MaxNow
  /\ DOMAIN db = DOMAIN NoTables
  /\ auto \in [Savers -> {"idle", "absent", "exists", "check_failed", "saved"}]

\* Of the two automatic savers one at most says that it saved the anchor.
OneSaverSaves ==
  \A a, b \in Savers : auto[a] = "saved" /\ auto[b] = "saved" => a = b

IInv ==
  /\ Tables /\ IdsFit(db.underlyings, cache, next)
  /\ OneAnchorADay /\ SavedIsThere /\ OneSaverSaves

\* A cached id is the id of no other symbol: of the row of its own symbol, or
\* of none when the transaction that drew it was rolled back.
CachedIdsAreOwn ==
  \A s \in DOMAIN cache, u \in db.underlyings : cache[s] = u.id <=> s = u.symbol

-----------------------------------------------------------------------------
\* The family stays, and the time at most moves on by one.
Onward ==
  /\ family' = family
  /\ \/ now' = now
     \/ now < MaxNow /\ now' = now + 1

\* A step that leaves the anchors and their savers alone, and may resolve the
\* id of one symbol, whether its transaction commits or not.
Quiet ==
  /\ Onward
  /\ DOMAIN db' = DOMAIN db /\ db'.anchors = db.anchors /\ auto' = auto
  /\ \/ db'.underlyings = db.underlyings /\ UNCHANGED <<cache, next>>
     \/ \E s \in Symbols :
          /\ cache' = Ensured(s).cache /\ next' = Ensured(s).next
          /\ db'.underlyings \in {db.underlyings, Ensured(s).db.underlyings}

\* The save gives other rows of other tables than these two.
Keeps(d, e) ==
  DOMAIN e = DOMAIN d /\ e.underlyings = d.underlyings /\ e.anchors = d.anchors

\* Resolving an id keeps the ids unique, committed or rolled back, and the ids
\* that were cached before.
LEMMA Ensures ==
  ASSUME Tables, IdsFit(db.underlyings, cache, next), NEW s \in Symbols,
         NEW e, e = Ensured(s)
  PROVE  /\ IdsFit(e.db.underlyings, e.cache, e.next)
         /\ IdsFit(db.underlyings, e.cache, e.next)
         /\ DOMAIN e.db = DOMAIN db /\ e.db.anchors = db.anchors
         /\ DOMAIN e.cache = DOMAIN cache \cup {s} /\ e.cache[s] = e.id
         /\ \A r \in DOMAIN cache : e.cache[r] = cache[r]
<1>0. "underlyings" \in DOMAIN db /\ "anchors" \in DOMAIN db
  BY DEF Tables, NoTables
<1>1. CASE s \in DOMAIN cache
  BY <1>1 DEF Ensured, EnsureUnderlying
<1>2. CASE s \notin DOMAIN cache
  <2> DEFINE old == {u \in db.underlyings : u.symbol = s}
             found == CHOOSE u \in old : TRUE
             row == IF old = {} THEN [id |-> next, symbol |-> s, kind |-> KindOf(s)]
                    ELSE IF s \in Configured THEN [found EXCEPT !.kind = KindOf(s)] ELSE found
  <2>1. /\ e.db = [db EXCEPT !.underlyings = (@ \ old) \cup {row}]
        /\ e.id = row.id /\ e.cache = WithId(cache, s, row.id) /\ e.next = next + 1
    BY <1>2 DEF Ensured, EnsureUnderlying
  <2>2. KindOf(s) \in {"configured", "equity"}
    BY DEF KindOf
  <2>3. /\ row \in Underlyings /\ row.symbol = s /\ row.id < next + 1
        /\ old = {} => row.id = next
        /\ old # {} => found \in old /\ row.id = found.id
    BY <2>2 DEF IdsFit, Underlyings
  <2>4. /\ DOMAIN e.db = DOMAIN db /\ e.db.anchors = db.anchors
        /\ e.db.underlyings = (db.underlyings \ old) \cup {row}
    BY <1>0, <2>1
  <2>5. /\ DOMAIN e.cache = DOMAIN cache \cup {s} /\ e.cache[s] = row.id
        /\ e.cache = [r \in DOMAIN e.cache |-> e.cache[r]]
        /\ \A r \in DOMAIN cache : e.cache[r] = cache[r]
    BY <1>2, <2>1 DEF WithId
  <2>6. \A u \in db.underlyings \ old : u.symbol # s /\ u.id # row.id
    BY <2>3 DEF IdsFit, Underlyings
  <2>7. \A r \in DOMAIN cache : cache[r] # row.id
    BY <1>2, <2>3 DEF IdsFit, Underlyings
  <2>8. \A u \in db.underlyings : u.id = row.id <=> u.symbol = s
    BY <2>3, <2>6 DEF IdsFit, Underlyings
  <2>9. row.id \in Nat
    BY <2>3 DEF Underlyings
  <2> HIDE DEF row, old
  <2>10. \A r \in DOMAIN e.cache : r # s => r \in DOMAIN cache
    BY <2>5
  <2>11. IdsFit(db.underlyings, e.cache, e.next)
    BY <2>1, <2>3, <2>5, <2>7, <2>8, <2>9, <2>10 DEF IdsFit, Underlyings
  <2>12. IdsFit(e.db.underlyings, e.cache, e.next)
    BY <2>1, <2>3, <2>4, <2>5, <2>6, <2>7, <2>8, <2>9, <2>10, <2>11 DEF IdsFit, Underlyings
  <2> QED
    BY <2>1, <2>4, <2>5, <2>11, <2>12
<1> QED
  BY <1>1, <1>2

\* Of all saves only two write into future_price_anchors.
LEMMA SavesKeep ==
  ASSUME NEW d, "underlyings" \in DOMAIN d, "anchors" \in DOMAIN d,
         NEW id, NEW x, NEW at, NEW cutoff
  PROVE  /\ Keeps(d, SaveWhaleThreshold(d, id, x)) /\ Keeps(d, CreateUser(d, x))
         /\ Keeps(d, UpdateUserPassword(d, x)) /\ Keeps(d, CreateInvite(d, x))
         /\ Keeps(d, MarkInviteUsed(d, x)) /\ Keeps(d, SaveScreenerPresetSettings(d, x))
         /\ Keeps(d, SaveUserChartSettings(d, x)) /\ Keeps(d, SaveChainSnapshot(d, id, x))
         /\ Keeps(d, SaveGammaAggregate(d, id, x)) /\ Keeps(d, SaveGammaFastItems(d, id, x))
         /\ Keeps(d, SaveMarketPrice(d, id, x)) /\ Keeps(d, SaveFlowEvent(d, x))
         /\ Keeps(d, SaveDailyGammaReference(d, id, x)) /\ Keeps(d, SaveDailyBar(d, id, x))
         /\ Keeps(d, SaveMinuteBar(d, id, x)) /\ Keeps(d, SaveWhaleAlert(d, id, x))
         /\ Keeps(d, SaveSymbolFlowPressure(d, id, x))
         /\ Keeps(d, SaveCumulativeVolumes(d, x, at, cutoff))
         /\ Keeps(d, SaveVolumeCorrections(d, x, at, cutoff))
         /\ Keeps(d, SaveIndexPriceFallback(d, x)) /\ Keeps(d, SaveFallback(d, x))
         /\ Keeps(d, SaveFuturesLiveQuote(d, x)) /\ Keeps(d, SaveFuturesLiveBars(d, x))
         /\ Keeps(d, SaveFuturesEvents(d, x))
<1>1. ASSUME NEW t, t # "underlyings", t # "anchors", NEW rows
      PROVE  Keeps(d, [d EXCEPT ![t] = rows])
  BY <1>1 DEF Keeps
<1>2. Keeps(d, SaveChainSnapshot(d, id, x)) /\ Keeps(d, SaveGammaAggregate(d, id, x))
  BY DEF Keeps, SaveChainSnapshot, SaveGammaAggregate
<1> QED
  BY <1>1, <1>2 DEF SaveWhaleThreshold, CreateUser, UpdateUserPassword, CreateInvite,
     MarkInviteUsed, SaveScreenerPresetSettings, SaveUserChartSettings, SaveGammaFastItems,
     SaveMarketPrice, SaveFlowEvent, SaveDailyGammaReference, SaveDailyBar, SaveMinuteBar,
     SaveWhaleAlert, SaveSymbolFlowPressure, SaveCumulativeVolumes, SaveVolumeCorrections,
     SaveIndexPriceFallback, SaveFallback, SaveFuturesLiveQuote, SaveFuturesLiveBars,
     SaveFuturesEvents

-----------------------------------------------------------------------------
\* The three shapes of a save, when it leaves the anchors alone.
LEMMA ThroughIsQuiet ==
  ASSUME IInv, NEW f, NEW x, x.s \in Symbols, NEW d, NEW m,
         Through(f, x, d, m), Keeps(Ensured(x.s).db, d)
  PROVE  Quiet
<1>1. Ensured(x.s).db.anchors = db.anchors /\ DOMAIN Ensured(x.s).db = DOMAIN db
  BY Ensures DEF IInv
<1> QED
  BY <1>1 DEF Through, Keeps, Quiet, Onward
LEMMA DirectlyIsQuiet ==
  ASSUME NEW f, NEW x, NEW d, NEW m, Directly(f, x, d, m), Keeps(db, d)
  PROVE  Quiet
BY DEF Directly, Keeps, Quiet, Onward
LEMMA MinutelyIsQuiet ==
  ASSUME NEW f, NEW x, NEW mt, NEW m, Minutely(f, x, mt, m)
  PROVE  Quiet
BY DEF Minutely, Quiet, Onward

\* Every step but the three about anchors is of that kind.
LEMMA OtherStepsAreQuiet ==
  ASSUME IInv, [Next]_vars
  PROVE  \/ Quiet \/ TypeAnchor
         \/ \E a \in Savers : AutoWrites(a) \/ \E ok \in BOOLEAN : AutoReads(a, ok)
<1>0. "underlyings" \in DOMAIN db /\ "anchors" \in DOMAIN db
  BY DEF IInv, Tables, NoTables
<1>1. ASSUME NEW s \in Symbols
      PROVE  "underlyings" \in DOMAIN Ensured(s).db /\ "anchors" \in DOMAIN Ensured(s).db
  BY <1>0, Ensures DEF IInv
<1>2. CASE Tick \/ UNCHANGED vars
  BY <1>2 DEF Tick, vars, Quiet, Onward
<1>3. CASE \E s \in Symbols : SaveFails(s)
  BY <1>3 DEF SaveFails, Ensured, Quiet, Onward
<1>4. CASE Threshold
  <2>1. \E f, x, d, m : x.s \in Symbols /\ Through(f, x, d, m) /\ Keeps(Ensured(x.s).db, d)
    <3>1. ASSUME NEW s \in Symbols, NEW id, NEW x
          PROVE  Keeps(Ensured(s).db, SaveWhaleThreshold(Ensured(s).db, id, x))
      BY <1>1, SavesKeep
    <3> QED
      BY <1>4, <3>1 DEF Threshold
  <2> QED
    BY <2>1, ThroughIsQuiet
<1>5. CASE NewUser \/ Password \/ Invite \/ InviteUsed \/ Preset \/ Chart
  <2>1. \E f, x, d, m : Directly(f, x, d, m) /\ Keeps(db, d)
    <3>0. Keeps(db, db)
      BY DEF Keeps
    <3>1. CASE NewUser
      BY <1>0, <3>0, <3>1, SavesKeep DEF NewUser
    <3>2. CASE Password
      BY <1>0, <3>2, SavesKeep DEF Password
    <3>3. CASE Invite \/ InviteUsed
      BY <1>0, <3>3, SavesKeep DEF Invite, InviteUsed
    <3>4. CASE Preset \/ Chart
      BY <1>0, <3>4, SavesKeep DEF Preset, Chart
    <3> QED
      BY <1>5, <3>1, <3>2, <3>3, <3>4
  <2> QED
    BY <2>1, DirectlyIsQuiet
<1>6. CASE Volume \/ Feed \/ Flow
  <2>1. \E f, x, d, m : Directly(f, x, d, m) /\ Keeps(db, d)
    <3>1. CASE Volume
      BY <1>0, <3>1, SavesKeep DEF Volume
    <3>2. CASE Flow
      BY <1>0, <3>2, SavesKeep DEF Flow
    <3>3. CASE Feed
      <4>1. ASSUME NEW x PROVE Keeps(db, SaveFallback(SaveIndexPriceFallback(db, x), x))
        BY <1>0, SavesKeep DEF Keeps
      <4> QED
        BY <1>0, <3>3, <4>1, SavesKeep DEF Feed
    <3> QED
      BY <1>6, <3>1, <3>2, <3>3
  <2> QED
    BY <2>1, DirectlyIsQuiet
<1>7. CASE Chain \/ Gamma \/ Price \/ Reference \/ Alert \/ Pressure
  <2>1. \E f, x, d, m : x.s \in Symbols /\ Through(f, x, d, m) /\ Keeps(Ensured(x.s).db, d)
    <3>1. CASE Chain
      BY <1>1, <3>1, SavesKeep DEF Chain
    <3>2. CASE Gamma
      BY <1>1, <3>2, SavesKeep DEF Gamma
    <3>3. ASSUME NEW s \in Symbols, NEW id, NEW x
          PROVE  /\ Keeps(Ensured(s).db, SaveMarketPrice(Ensured(s).db, id, x))
                 /\ Keeps(Ensured(s).db, SaveDailyGammaReference(Ensured(s).db, id, x))
                 /\ Keeps(Ensured(s).db, SaveWhaleAlert(Ensured(s).db, id, x))
                 /\ Keeps(Ensured(s).db, SaveSymbolFlowPressure(Ensured(s).db, id, x))
      BY <1>1, SavesKeep
    <3>4. CASE Price
      BY <3>3, <3>4 DEF Price
    <3>5. CASE Reference
      BY <3>3, <3>5 DEF Reference
    <3>6. CASE Alert
      BY <3>3, <3>6 DEF Alert
    <3>7. CASE Pressure
      BY <3>3, <3>7 DEF Pressure
    <3> QED
      BY <1>7, <3>1, <3>2, <3>4, <3>5, <3>6, <3>7
  <2> QED
    BY <2>1, ThroughIsQuiet
<1>8. CASE Bar
  <2>1. ASSUME NEW s \in Symbols, NEW id, NEW x
        PROVE  Keeps(Ensured(s).db, SaveDailyBar(SaveMinuteBar(Ensured(s).db, id, x), id, x))
    <3> DEFINE d == Ensured(s).db
               e == SaveMinuteBar(d, id, x)
    <3>1. Keeps(d, e)
      BY <1>1, SavesKeep
    <3>2. "underlyings" \in DOMAIN e /\ "anchors" \in DOMAIN e
      BY <1>1, <3>1 DEF Keeps
    <3> HIDE DEF d, e
    <3>3. Keeps(e, SaveDailyBar(e, id, x))
      BY <3>2, SavesKeep
    <3>4. Keeps(d, SaveDailyBar(e, id, x))
      BY <3>1, <3>3 DEF Keeps
    <3> QED
      BY <3>4 DEF d, e
  <2>2. \E f, x, d, m : x.s \in Symbols /\ Through(f, x, d, m) /\ Keeps(Ensured(x.s).db, d)
    BY <1>8, <2>1 DEF Bar
  <2> QED
    BY <2>2, ThroughIsQuiet
<1>9. CASE Fast
  <2>1. \/ \E f, x, d, m : x.s \in Symbols /\ Through(f, x, d, m) /\ Keeps(Ensured(x.s).db, d)
        \/ \E f, x, d, m : Directly(f, x, d, m) /\ Keeps(db, d)
    BY <1>1, <1>9, SavesKeep DEF Fast, Keeps
  <2> QED
    BY <2>1, ThroughIsQuiet, DirectlyIsQuiet
<1>10. CASE QuoteMinute \/ FlowMinute \/ StrikeMinute \/ Prints
  <2>1. \E f, x, mt, m : Minutely(f, x, mt, m)
    BY <1>10 DEF QuoteMinute, FlowMinute, StrikeMinute, Prints
  <2> QED
    BY <2>1, MinutelyIsQuiet
<1> QED
  BY <1>2, <1>3, <1>4, <1>5, <1>6, <1>7, <1>8, <1>9, <1>10 DEF Next

-----------------------------------------------------------------------------
\* An upsert by key keeps the key unique and every key that was there; the row
\* it replaces has the key of the new one.
LEMMA UpsertedAnchor ==
  ASSUME NEW rows, NEW row, NEW new, new = Upserted(rows, {"uid", "day"}, row),
         \A a, b \in rows : a.uid = b.uid /\ a.day = b.day => a = b
  PROVE  /\ \A a, b \in new : a.uid = b.uid /\ a.day = b.day => a = b
         /\ row \in new
         /\ \A a \in rows : a \in new \/ (a.uid = row.uid /\ a.day = row.day)
BY DEF Upserted

\* What typing an anchor does: the id is resolved, the row of the day is put in
\* the place of any other.
LEMMA TypeAnchorDoes ==
  ASSUME IInv, TypeAnchor
  PROVE  Onward /\ \E s \in Symbols, row \in db'.anchors :
           /\ row.source = "manual"
           /\ db'.anchors = Upserted(db.anchors, {"uid", "day"}, row)
           /\ cache' = Ensured(s).cache /\ next' = Ensured(s).next
           /\ db'.underlyings = Ensured(s).db.underlyings
           /\ DOMAIN db' = DOMAIN db /\ auto' = auto
<1>1. PICK s \in Symbols :
        LET x == [s |-> s, day |-> Day, v |-> V, source |-> "manual", t |-> now] IN
        Through("anchors", x, SetFuturePriceAnchor(Ensured(s).db, Ensured(s).id, x, now),
                M!SetFuturePriceAnchor(mem, x, now))
  BY DEF TypeAnchor
<1> DEFINE x == [s |-> s, day |-> Day, v |-> V, source |-> "manual", t |-> now]
           row == AnchorRow(Ensured(s).id, x, now)
           d == Ensured(s).db
<1>2. /\ db' = SetFuturePriceAnchor(d, Ensured(s).id, x, now)
      /\ cache' = Ensured(s).cache /\ next' = Ensured(s).next /\ auto' = auto
      /\ Onward
  BY <1>1 DEF Through, Onward
<1>3. DOMAIN d = DOMAIN db /\ d.anchors = db.anchors
  BY Ensures DEF IInv
<1>4. "underlyings" \in DOMAIN d /\ "anchors" \in DOMAIN d
  BY <1>3 DEF IInv, Tables, NoTables
<1>5. row.source = "manual"
  BY DEF AnchorRow
<1> HIDE DEF d
<1>6. db' = [d EXCEPT !.anchors = Upserted(d.anchors, {"uid", "day"}, row)]
  BY <1>2 DEF SetFuturePriceAnchor
<1> HIDE DEF row, x
<1>7. /\ DOMAIN db' = DOMAIN db /\ db'.underlyings = d.underlyings
      /\ db'.anchors = Upserted(db.anchors, {"uid", "day"}, row)
  BY <1>3, <1>4, <1>6
<1>8. row \in db'.anchors
  BY <1>7 DEF Upserted
<1> QED
  BY <1>2, <1>5, <1>7, <1>8 DEF d

\* What an automatic saver does: it adds a row to a day without one, and says
\* that it saved exactly then.
LEMMA AutoWritesDoes ==
  ASSUME IInv, NEW a \in Savers, AutoWrites(a)
  PROVE  LET id == Ensured(Future).id
         IN  /\ Onward
             /\ cache' = Ensured(Future).cache /\ next' = Ensured(Future).next
             /\ db'.underlyings = Ensured(Future).db.underlyings /\ DOMAIN db' = DOMAIN db
             /\ \/ /\ HasAnchor(db, id, Day) /\ db'.anchors = db.anchors
                   /\ auto' = [auto EXCEPT ![a] = "exists"]
                \/ /\ ~HasAnchor(db, id, Day) /\ auto' = [auto EXCEPT ![a] = "saved"]
                   /\ \E row : /\ row.uid = id /\ row.day = Day
                               /\ db'.anchors = db.anchors \cup {row}
<1> DEFINE x == [s |-> Future, day |-> Day, v |-> V, source |-> a, t |-> now]
           id == Ensured(Future).id
           row == AnchorRow(id, x, now)
           d == Ensured(Future).db
<1>1. /\ db' = AddFuturePriceAnchorIfAbsent(d, id, x, now)
      /\ cache' = Ensured(Future).cache /\ next' = Ensured(Future).next
      /\ auto' = [auto EXCEPT ![a] = IF HasAnchor(d, id, Day) THEN "exists" ELSE "saved"]
      /\ Onward
  BY DEF AutoWrites, Ensured, Onward
<1>2. Future \in Symbols
  BY StorageAssumption DEF Future
<1>3. DOMAIN d = DOMAIN db /\ d.anchors = db.anchors
  BY <1>2, Ensures DEF IInv
<1>4. "underlyings" \in DOMAIN d /\ "anchors" \in DOMAIN d
  BY <1>3 DEF IInv, Tables, NoTables
<1>5. row.uid = id /\ row.day = Day /\ x.day = Day
  BY DEF AnchorRow
<1>6. HasAnchor(d, id, Day) <=> HasAnchor(db, id, Day)
  BY <1>3 DEF HasAnchor
<1>7. \/ HasAnchor(d, id, Day) /\ db' = d
      \/ ~HasAnchor(d, id, Day) /\ db' = [d EXCEPT !.anchors = @ \cup {row}]
  BY <1>1, <1>5 DEF AddFuturePriceAnchorIfAbsent
<1> HIDE DEF d, row, x, id
<1>8. /\ DOMAIN db' = DOMAIN db /\ db'.underlyings = d.underlyings
      /\ \/ HasAnchor(d, id, Day) /\ db'.anchors = db.anchors
         \/ ~HasAnchor(d, id, Day) /\ db'.anchors = db.anchors \cup {row}
  BY <1>3, <1>4, <1>7
<1> QED
  BY <1>1, <1>5, <1>6, <1>8 DEF d, id

-----------------------------------------------------------------------------
\* Ids, and the row of a saver that saved, after any step that resolves at most
\* the id of one symbol and takes no key of the anchors away.
LEMMA ResolvedKeeps ==
  ASSUME IInv, NEW s \in Symbols,
         cache' = Ensured(s).cache, next' = Ensured(s).next,
         db'.underlyings \in {db.underlyings, Ensured(s).db.underlyings}
  PROVE  /\ IdsFit(db'.underlyings, cache', next')
         /\ \A r \in DOMAIN cache : r \in DOMAIN cache' /\ cache'[r] = cache[r]
BY Ensures DEF IInv

LEMMA OnwardFits ==
  ASSUME family \in Families, now \in Start..MaxNow, Onward
  PROVE  family' \in Families /\ now' \in Start..MaxNow
BY StorageAssumption DEF Onward

LEMMA Step == IInv /\ [Next]_vars => IInv'
<1> SUFFICES ASSUME IInv, [Next]_vars PROVE IInv'
  OBVIOUS
<1>1. CASE Quiet
  <2>1. /\ IdsFit(db'.underlyings, cache', next')
        /\ \A r \in DOMAIN cache : r \in DOMAIN cache' /\ cache'[r] = cache[r]
    BY <1>1, ResolvedKeeps DEF IInv, Quiet
  <2>2. Onward /\ DOMAIN db' = DOMAIN db /\ db'.anchors = db.anchors /\ auto' = auto
    BY <1>1 DEF Quiet
  <2>3. family' \in Families /\ now' \in Start..MaxNow
    BY <2>2, OnwardFits DEF IInv, Tables
  <2> QED
    BY <2>1, <2>2, <2>3 DEF IInv, Tables, OneAnchorADay, SavedIsThere, OneSaverSaves,
       HasAnchor
<1>2. CASE TypeAnchor
  <2>1. PICK s \in Symbols, row \in db'.anchors :
           /\ row.source = "manual"
           /\ db'.anchors = Upserted(db.anchors, {"uid", "day"}, row)
           /\ cache' = Ensured(s).cache /\ next' = Ensured(s).next
           /\ db'.underlyings = Ensured(s).db.underlyings
           /\ DOMAIN db' = DOMAIN db /\ auto' = auto
    BY <1>2, TypeAnchorDoes
  <2>2. /\ IdsFit(db'.underlyings, cache', next')
        /\ \A r \in DOMAIN cache : r \in DOMAIN cache' /\ cache'[r] = cache[r]
    BY <2>1, ResolvedKeeps
  <2>3. /\ OneAnchorADay' /\ row \in db'.anchors
        /\ \A a \in db.anchors : a \in db'.anchors \/ (a.uid = row.uid /\ a.day = row.day)
    BY <2>1, UpsertedAnchor DEF IInv, OneAnchorADay
  <2>4. SavedIsThere'
    BY <2>1, <2>2, <2>3 DEF IInv, SavedIsThere, HasAnchor
  <2>5. family' \in Families /\ now' \in Start..MaxNow
    BY <1>2, TypeAnchorDoes, OnwardFits DEF IInv, Tables
  <2> QED
    BY <2>1, <2>2, <2>3, <2>4, <2>5 DEF IInv, Tables, OneSaverSaves
<1>3. ASSUME NEW a \in Savers, AutoWrites(a) PROVE IInv'
  <2> DEFINE id == Ensured(Future).id
  <2>1. Future \in Symbols
    BY StorageAssumption DEF Future
  <2>2. /\ cache' = Ensured(Future).cache /\ next' = Ensured(Future).next
        /\ db'.underlyings = Ensured(Future).db.underlyings /\ DOMAIN db' = DOMAIN db
        /\ \/ /\ HasAnchor(db, id, Day) /\ db'.anchors = db.anchors
              /\ auto' = [auto EXCEPT ![a] = "exists"]
           \/ /\ ~HasAnchor(db, id, Day) /\ auto' = [auto EXCEPT ![a] = "saved"]
              /\ \E row : row.uid = id /\ row.day = Day /\ db'.anchors = db.anchors \cup {row}
    BY <1>3, AutoWritesDoes
  <2>3. /\ IdsFit(db'.underlyings, cache', next')
        /\ \A r \in DOMAIN cache : r \in DOMAIN cache' /\ cache'[r] = cache[r]
    BY <2>1, <2>2, ResolvedKeeps
  <2>4. Future \in DOMAIN cache' /\ cache'[Future] = id
    BY <2>1, <2>2, Ensures DEF IInv
  <2>8. Future \in DOMAIN cache => cache[Future] = id
    BY <2>3, <2>4
  <2> HIDE DEF id
  <2>5. Tables'
    <3>1. family' \in Families /\ now' \in Start..MaxNow
      BY <1>3, AutoWritesDoes, OnwardFits DEF IInv, Tables
    <3> QED
      BY <2>2, <3>1 DEF IInv, Tables
  <2>6. OneAnchorADay'
    BY <2>2 DEF IInv, OneAnchorADay, HasAnchor
  <2>7. SavedIsThere'
    BY <2>2, <2>3, <2>4 DEF IInv, Tables, SavedIsThere, HasAnchor
  <2>9. OneSaverSaves'
    BY <2>2, <2>8 DEF IInv, Tables, SavedIsThere, OneSaverSaves
  <2> QED
    BY <2>3, <2>5, <2>6, <2>7, <2>9 DEF IInv
<1>4. ASSUME NEW a \in Savers, NEW ok \in BOOLEAN, AutoReads(a, ok) PROVE IInv'
  BY <1>4 DEF AutoReads, IInv, Tables, IdsFit, OneAnchorADay, SavedIsThere,
     OneSaverSaves, HasAnchor
<1> QED
  BY <1>1, <1>2, <1>3, <1>4, OtherStepsAreQuiet

-----------------------------------------------------------------------------
\* The rows of the start have an id each, below the first of the sequence.
LEMMA SeedIdsApart ==
  /\ \A s \in Seeded : SeedIds[s] \in Nat /\ SeedIds[s] < Cardinality(Symbols) + 1
  /\ \A r, s \in Seeded : SeedIds[r] = SeedIds[s] => r = s
  /\ Cardinality(Symbols) \in Nat
<1> DEFINE n == Cardinality(Seeded)
           seq == SetToSeq(Seeded)
<1>1. IsFiniteSet(Seeded) /\ n \in Nat /\ n <= Cardinality(Symbols)
      /\ Cardinality(Symbols) \in Nat
  BY StorageAssumption, FS_Subset, FS_CardinalityType
<1>2. seq \in Injection(1..n, Seeded)
  <2>1. \E f \in [1..n -> Seeded] : IsInjective(f)
    BY <1>1, FS_CardinalityType DEF ExistsBijection, Bijection, Injection
  <2> QED
    BY <2>1 DEF SetToSeq, Injection
<1>3. seq \in Surjection(1..n, Seeded)
  <2>1. IsFiniteSet(1..n) /\ Cardinality(1..n) = n
    BY <1>1, FS_Interval
  <2> HIDE DEF seq
  <2> QED
    BY <1>1, <1>2, <2>1, FS_Injection
<1>4. \A s \in Seeded : \E i \in DOMAIN seq : seq[i] = s
  BY <1>3 DEF Surjection
<1>5. DOMAIN seq = 1..n
  BY <1>2 DEF Injection
<1> HIDE DEF seq, n
<1>6. \A s \in Seeded : SeedIds[s] \in 1..n /\ seq[SeedIds[s]] = s
  <2>1. SeedIds = [s \in Seeded |-> CHOOSE i \in DOMAIN seq : seq[i] = s]
    BY DEF SeedIds, seq
  <2> QED
    BY <1>4, <1>5, <2>1
<1> QED
  BY <1>1, <1>6

LEMMA Initially == Init => IInv
<1> SUFFICES ASSUME Init PROVE IInv
  OBVIOUS
<1> DEFINE rows == {[id |-> SeedIds[s], symbol |-> s, kind |-> KindOf(s)] : s \in Seeded}
<1>1. DOMAIN db = DOMAIN NoTables /\ db.underlyings = rows /\ db.anchors = {}
  <2>1. /\ DOMAIN SeededTables = DOMAIN NoTables
        /\ SeededTables.underlyings = rows /\ SeededTables.anchors = {}
    BY DEF SeededTables, NoTables
  <2>2. "underlyings" \in DOMAIN NoTables /\ "anchors" \in DOMAIN NoTables
    BY DEF NoTables
  <2>3. PICK s \in Symbols :
           db \in {SeededTables, WithOldChain(SeededTables, s), WithContracts(SeededTables, s)}
    BY DEF Init
  <2> HIDE DEF rows
  <2> QED
    BY <2>1, <2>2, <2>3 DEF WithOldChain, WithContracts
<1>2. \A u \in rows : u \in Underlyings /\ u.id = SeedIds[u.symbol] /\ u.symbol \in Seeded
                      /\ u.id < Cardinality(Symbols) + 1
                      /\ u = [id |-> u.id, symbol |-> u.symbol, kind |-> KindOf(u.symbol)]
  BY SeedIdsApart, StorageAssumption DEF Underlyings, KindOf
<1>3. \A u, w \in rows : u.id = w.id \/ u.symbol = w.symbol => u = w
  <2>1. \A u, w \in rows : u.id = w.id => u.symbol = w.symbol
    BY <1>2, SeedIdsApart
  <2> HIDE DEF rows
  <2> QED
    BY <1>2, <2>1
<1> HIDE DEF rows
<1>4. cache = <<>> /\ DOMAIN cache = {} /\ next = Cardinality(Symbols) + 1
  BY DEF Init
<1>5. IdsFit(db.underlyings, cache, next)
  BY <1>1, <1>2, <1>3, <1>4, SeedIdsApart DEF IdsFit
<1>6. auto = [a \in Savers |-> "idle"] /\ family \in Families /\ now \in Start..MaxNow
  BY StorageAssumption DEF Init
<1> QED
  BY <1>1, <1>5, <1>6 DEF IInv, Tables, OneAnchorADay, SavedIsThere, OneSaverSaves

\* The inductive invariant holds throughout.
THEOREM StorageInvariance == Spec => []IInv
BY Initially, Step, PTL DEF Spec

\* Type correctness.
THEOREM TypeCorrect == Spec => []TypeOK
<1>1. IInv => TypeOK
  BY DEF IInv, Tables, IdsFit, Underlyings, TypeOK
<1> QED
  BY <1>1, StorageInvariance, PTL

\* _ensure_underlying never hands the rows of one symbol to another: whichever
\* transactions fail after it, a cached id names the row of its own symbol or no
\* row at all (the case a run shows to exist).
THEOREM CachedIdsAreTheirOwn == Spec => []CachedIdsAreOwn
<1>1. IInv => CachedIdsAreOwn
  BY DEF IInv, IdsFit, CachedIdsAreOwn
<1> QED
  BY <1>1, StorageInvariance, PTL

\* Two automatic savers that both found the day empty do not both report that
\* they saved it, and the day never has two anchors.
THEOREM OneAutomaticAnchor == Spec => [](OneAnchorADay /\ OneSaverSaves)
<1>1. IInv => OneAnchorADay /\ OneSaverSaves
  BY DEF IInv
<1> QED
  BY <1>1, StorageInvariance, PTL

\* No save takes a typed anchor away: not a saver that looked before it was
\* typed, not any other table's save; only another typed anchor replaces it.
THEOREM TypedAnchors == Spec => TypedAnchorStands
<1> DEFINE Stands == \A a \in db.anchors : a.source = "manual" =>
                       \E b \in db'.anchors : b.uid = a.uid /\ b.day = a.day /\ b.source = "manual"
<1>1. ASSUME IInv, [Next]_vars PROVE [Stands]_vars
  <2> SUFFICES Stands
    OBVIOUS
  <2>1. CASE Quiet
    BY <2>1 DEF Quiet
  <2>2. CASE TypeAnchor
    <3>1. PICK row : row.source = "manual"
                     /\ db'.anchors = Upserted(db.anchors, {"uid", "day"}, row)
      BY <1>1, <2>2, TypeAnchorDoes
    <3> QED
      BY <1>1, <3>1, UpsertedAnchor DEF IInv, OneAnchorADay
  <2>3. ASSUME NEW a \in Savers, AutoWrites(a) PROVE Stands
    BY <1>1, <2>3, AutoWritesDoes
  <2>4. ASSUME NEW a \in Savers, NEW ok \in BOOLEAN, AutoReads(a, ok) PROVE Stands
    BY <2>4 DEF AutoReads
  <2> QED
    BY <1>1, <2>1, <2>2, <2>3, <2>4, OtherStepsAreQuiet
<1> QED
  BY <1>1, StorageInvariance, PTL DEF Spec, TypedAnchorStands

-----------------------------------------------------------------------------
\* MAX over the times of stored rows gives the latest of them.  (A smallest set
\* without a latest time would have a smaller one: take any element away.)
LEMMA MaxIsLatest ==
  ASSUME NEW S, IsFiniteSet(S), S \subseteq Int, S # {}
  PROVE  Max(S) \in S /\ \A y \in S : y <= Max(S)
<1> DEFINE HasMax(U) == \E x \in U : \A y \in U : x >= y
           Bad == {U \in FiniteSubsetsOf(S) : U # {} /\ ~HasMax(U)}
<1>1. HasMax(S)
  <2> SUFFICES ASSUME ~HasMax(S) PROVE FALSE
    OBVIOUS
  <2>1. S \in Bad
    BY DEF FiniteSubsetsOf
  <2>2. IsWellFoundedOn(StrictSubsetOrdering(S), FiniteSubsetsOf(S))
    BY FS_StrictSubsetOrderingWellFounded
  <2>3. PICK U \in Bad : \A W \in Bad : <<W, U>> \notin StrictSubsetOrdering(S)
    <3> HIDE DEF Bad
    <3>1. Bad \subseteq FiniteSubsetsOf(S)
      BY DEF Bad
    <3> QED
      BY <2>1, <2>2, <3>1, WFMin
  <2>4. PICK x : x \in U
    OBVIOUS
  <2> DEFINE W == U \ {x}
  <2>5. W \in FiniteSubsetsOf(S) /\ U \in FiniteSubsetsOf(S) /\ <<W, U>> \in StrictSubsetOrdering(S)
    BY <2>4, FS_RemoveElement DEF FiniteSubsetsOf, StrictSubsetOrdering
  <2>6. U \subseteq Int /\ U = W \cup {x}
    BY <2>4 DEF FiniteSubsetsOf
  <2>7. W = {} \/ HasMax(W)
    BY <2>3, <2>5
  <2>8. HasMax(U)
    <3> HIDE DEF W
    <3>1. CASE W = {}
      BY <2>6, <3>1
    <3>2. CASE HasMax(W)
      <4>1. PICK m \in W : \A y \in W : m >= y
        BY <3>2
      <4>2. CASE m >= x
        BY <2>6, <4>1, <4>2
      <4>3. CASE ~(m >= x)
        BY <2>6, <4>1, <4>3
      <4> QED
        BY <4>2, <4>3
    <3> QED
      BY <2>7, <3>1, <3>2
  <2> QED
    BY <2>3, <2>8
<1>2. Max(S) \in S /\ \A y \in S : Max(S) >= y
  BY <1>1, Zenon DEF Max
<1> QED
  BY <1>2

\* The rows of the latest time, as MAX finds them and as no later row tells.
LEMMA LatestRows ==
  ASSUME NEW rows, IsFiniteSet(rows), rows # {}, \A r \in rows : r.t \in Int
  PROVE  \A r \in rows : r.t = Max({q.t : q \in rows}) <=> \A q \in rows : q.t <= r.t
<1> DEFINE times == {q.t : q \in rows}
<1>1. IsFiniteSet(times)
  <2> DEFINE f == [q \in rows |-> q.t]
  <2>1. f \in Surjection(rows, times)
    BY DEF Surjection
  <2> QED
    BY <2>1, FS_Surjection
<1>2. times \subseteq Int /\ times # {}
  OBVIOUS
<1>3. Max(times) \in times /\ \A y \in times : y <= Max(times)
  BY <1>1, <1>2, MaxIsLatest
<1> QED
  BY <1>2, <1>3

-----------------------------------------------------------------------------
\* What the reads need of the tables: times that are numbers, none of a flow event
\* before the first that is asked for, and finitely many rows where one takes a MAX.
RowsFit(d) ==
  /\ DOMAIN d = DOMAIN NoTables
  /\ \A r \in d.prices \cup d.events \cup d.aggregates \cup d.snapshots : r.t \in Int
  /\ \A r \in d.flow : r.t \in Nat
  /\ IsFiniteSet(d.aggregates) /\ IsFiniteSet(d.snapshots)

\* A read of the asynchronous adapter and its synchronous twin, for any arguments.
TwinsAnswer(d, s, view, exp, occs, day, limit, from, to) ==
  /\ LatestPrice(d, s) = GetLatestPrice(d, s)
  /\ PriceHistory(d, s, from, to) = GetPriceHistory(d, s, from, to)
  /\ LatestGamma(d, s, view) = GetLatestGammaAggregate(d, s, view)
  /\ DailyBars(d, s, limit) = GetDailyBars(d, s, limit)
  /\ DailyGammaReferences(d, s, limit) = GetDailyGammaReferences(d, s, limit)
  /\ RecentFlow(d, s, limit) = GetRecentFlow(d, s, limit)
  /\ RecentWhaleAlerts(d, s, from, limit) = GetRecentWhaleAlerts(d, s, from, limit)
  /\ SymbolFlowPressure(d, s) = GetSymbolFlowPressure(d, s)
  /\ FuturePriceAnchor(d, s, day) = GetFuturePriceAnchor(d, s, day)
  /\ VolumeCorrections(d, occs, from) = GetVolumeCorrections(d, occs, from)
  /\ IndexPriceFallbacks(d) = GetIndexPriceFallbacks(d)
  /\ FuturesLiveQuote(d, s) = GetFuturesLiveQuote(d, s)
  /\ FuturesLiveBars(d, s, from) = GetFuturesLiveBars(d, s, from)
  /\ FuturesEvents(d, s, from, to) = GetFuturesEvents(d, s, from, to)
  /\ LatestChainWith(d, s, exp) = LatestChainOf(d, s, exp)

\* The asynchronous reads are written by hand after the synchronous ones, joins
\* where those have subqueries, MAX where those compare rows or the other way
\* round, half-open ranges where those have closed ones: over any tables they
\* give the same answers.  (The full chain of a symbol, whose tiers sort and count,
\* is left to the model checker.)
THEOREM TwinReads ==
  ASSUME NEW d, RowsFit(d), NEW s, NEW view, NEW exp, NEW occs, NEW day, NEW limit,
         NEW from \in Int, NEW to \in Int
  PROVE  TwinsAnswer(d, s, view, exp, occs, day, limit, from, to)
<1> USE DEF RowsFit
<1>1. LatestPrice(d, s) = GetLatestPrice(d, s)
  <2>1. {p \in d.prices : p.uid \in {u.id : u \in {u \in d.underlyings : u.symbol = s}}}
          = OfSymbol(d, d.prices, s)
    BY DEF OfSymbol
  <2> QED
    BY <2>1 DEF LatestPrice, GetLatestPrice
<1>2. PriceHistory(d, s, from, to) = GetPriceHistory(d, s, from, to)
  <2>1. {p \in OfSymbol(d, d.prices, s) : p.t \in from..to}
          = {p \in OfSymbol(d, d.prices, s) : from <= p.t /\ p.t <= to}
    BY DEF OfSymbol
  <2> QED
    BY <2>1 DEF PriceHistory, GetPriceHistory
<1>3. RecentFlow(d, s, limit) = GetRecentFlow(d, s, limit)
  <2>1. {f \in d.flow : f.occ \in {c.occ : c \in OfSymbol(d, d.contracts, s)}}
          = {f \in d.flow : f.t >= 0 /\ \E c \in OfSymbol(d, d.contracts, s) : c.occ = f.occ}
    OBVIOUS
  <2> QED
    BY <2>1 DEF RecentFlow, GetRecentFlow, GetFlowEvents
<1>4. RecentWhaleAlerts(d, s, from, limit) = GetRecentWhaleAlerts(d, s, from, limit)
  <2> DEFINE alerts == OfSymbol(d, d.alerts, s)
  <2>1. {a \in IF LeeReadyOnly THEN {a \in alerts : a.from = "lee_ready"} ELSE alerts :
           a.t >= from}
          = {a \in alerts : (LeeReadyOnly => a.from = "lee_ready") /\ a.t >= from}
    OBVIOUS
  <2> HIDE DEF alerts
  <2> QED
    BY <2>1 DEF RecentWhaleAlerts, GetRecentWhaleAlerts, alerts
<1>5. FuturePriceAnchor(d, s, day) = GetFuturePriceAnchor(d, s, day)
  BY DEF FuturePriceAnchor, GetFuturePriceAnchor, AnchorsOf
<1>6. FuturesEvents(d, s, from, to) = GetFuturesEvents(d, s, from, to)
  <2>1. {e \in d.events : e.s = s /\ e.t \in from..(to - 1)}
          = {e \in d.events : e.s = s /\ from <= e.t /\ e.t < to}
    OBVIOUS
  <2> QED
    BY <2>1 DEF FuturesEvents, GetFuturesEvents
<1>7. /\ DailyBars(d, s, limit) = GetDailyBars(d, s, limit)
      /\ DailyGammaReferences(d, s, limit) = GetDailyGammaReferences(d, s, limit)
      /\ SymbolFlowPressure(d, s) = GetSymbolFlowPressure(d, s)
      /\ VolumeCorrections(d, occs, from) = GetVolumeCorrections(d, occs, from)
  BY DEF DailyBars, GetDailyBars, DailyGammaReferences, GetDailyGammaReferences,
     SymbolFlowPressure, GetSymbolFlowPressure, VolumeCorrections, GetVolumeCorrections
<1>8. LatestGamma(d, s, view) = GetLatestGammaAggregate(d, s, view)
  <2> DEFINE rows == {g \in OfSymbol(d, d.aggregates, s) : g.view = view}
             top  == IF rows = {} THEN {} ELSE {Max({g.t : g \in rows})}
  <2>1. rows \subseteq d.aggregates
    BY DEF OfSymbol
  <2>2. IsFiniteSet(rows) /\ \A r \in rows : r.t \in Int
    BY <2>1, FS_Subset
  <2>3. {g \in rows : g.t \in top} = {g \in rows : \A h \in rows : h.t <= g.t}
    <3> HIDE DEF rows
    <3> QED
      BY <2>2, LatestRows
  <2> DEFINE As(g) == [t |-> g.t, v |-> g.v, items |-> GammaAggregateItems(d, g.uid, g.t, view)]
  <2>4. LatestGamma(d, s, view) = {As(g) : g \in {g \in rows : g.t \in top}}
    BY DEF LatestGamma, GammaAggregateItems
  <2>5. GetLatestGammaAggregate(d, s, view)
          = {As(g) : g \in {g \in rows : \A h \in rows : h.t <= g.t}}
    BY DEF GetLatestGammaAggregate
  <2> QED
    BY <2>3, <2>4, <2>5
<1>9. LatestChainWith(d, s, exp) = LatestChainOf(d, s, exp)
  <2> DEFINE rows == {r \in RowsOf(d, s) :
                        \E c \in d.contracts : c.occ = r.occ /\ c.exp = exp}
  <2>1. {r \in RowsOf(d, s) : r.occ \in {c.occ : c \in {c \in d.contracts : c.exp = exp}}} = rows
    OBVIOUS
  <2>2. rows \subseteq d.snapshots
    BY DEF RowsOf
  <2>3. IsFiniteSet(rows) /\ \A r \in rows : r.t \in Int
    BY <2>2, FS_Subset
  <2>4. LatestChainWith(d, s, exp) = {r \in rows : \A q \in rows : q.t <= r.t}
    BY <2>1 DEF LatestChainWith
  <2>5. LatestChainOf(d, s, exp) = IF rows = {} THEN {}
                                   ELSE {r \in rows : r.t = Max({q.t : q \in rows})}
    BY DEF LatestChainOf, AtTime
  <2> HIDE DEF rows
  <2> QED
    BY <2>3, <2>4, <2>5, LatestRows
<1>10. /\ IndexPriceFallbacks(d) = GetIndexPriceFallbacks(d)
       /\ FuturesLiveQuote(d, s) = GetFuturesLiveQuote(d, s)
       /\ FuturesLiveBars(d, s, from) = GetFuturesLiveBars(d, s, from)
  BY DEF IndexPriceFallbacks, GetIndexPriceFallbacks, FuturesLiveQuote, GetFuturesLiveQuote,
     FuturesLiveBars, GetFuturesLiveBars
<1> QED
  BY <1>1, <1>2, <1>3, <1>4, <1>5, <1>6, <1>7, <1>8, <1>9, <1>10 DEF TwinsAnswer

-----------------------------------------------------------------------------
\* What each save leaves, for rows with a time and chains with finitely many
\* contracts.
LEMMA OtherTable ==
  ASSUME NEW d, RowsFit(d), NEW rows, NEW t \in DOMAIN NoTables,
         t \notin {"prices", "events", "aggregates", "snapshots", "flow"}
  PROVE  RowsFit([d EXCEPT ![t] = rows])
BY DEF RowsFit, NoTables

LEMMA SavesOfOtherTables ==
  ASSUME NEW d, RowsFit(d), NEW id, NEW x, NEW at, NEW cutoff
  PROVE  /\ RowsFit(SaveWhaleThreshold(d, id, x)) /\ RowsFit(CreateUser(d, x))
         /\ RowsFit(UpdateUserPassword(d, x)) /\ RowsFit(CreateInvite(d, x))
         /\ RowsFit(MarkInviteUsed(d, x)) /\ RowsFit(SaveScreenerPresetSettings(d, x))
         /\ RowsFit(SaveUserChartSettings(d, x)) /\ RowsFit(SaveGammaFastItems(d, id, x))
         /\ RowsFit(SaveDailyGammaReference(d, id, x)) /\ RowsFit(SaveDailyBar(d, id, x))
         /\ RowsFit(SaveMinuteBar(d, id, x)) /\ RowsFit(SaveWhaleAlert(d, id, x))
         /\ RowsFit(SaveSymbolFlowPressure(d, id, x))
         /\ RowsFit(SaveCumulativeVolumes(d, x, at, cutoff))
         /\ RowsFit(SaveVolumeCorrections(d, x, at, cutoff))
         /\ RowsFit(SaveIndexPriceFallback(d, x)) /\ RowsFit(SaveFallback(d, x))
         /\ RowsFit(SaveFuturesLiveQuote(d, x)) /\ RowsFit(SaveFuturesLiveBars(d, x))
         /\ RowsFit(SetFuturePriceAnchor(d, id, x, at))
         /\ RowsFit(AddFuturePriceAnchorIfAbsent(d, id, x, at))
<1>1. \A t \in {"thresholds", "users", "invites", "presets", "chart", "fast", "references",
                "bars", "minutebars", "alerts", "pressure", "volumes", "corrections",
                "fallbacks", "quotes", "fbars", "anchors"} :
        t \in DOMAIN NoTables
        /\ t \notin {"prices", "events", "aggregates", "snapshots", "flow"}
  BY DEF NoTables
<1> QED
  BY <1>1, OtherTable DEF SaveWhaleThreshold, CreateUser, UpdateUserPassword, CreateInvite,
     MarkInviteUsed, SaveScreenerPresetSettings, SaveUserChartSettings, SaveGammaFastItems,
     SaveDailyGammaReference, SaveDailyBar, SaveMinuteBar,
     SaveWhaleAlert, SaveSymbolFlowPressure, SaveCumulativeVolumes, SaveVolumeCorrections,
     SaveIndexPriceFallback, SaveFallback, SaveFuturesLiveQuote, SaveFuturesLiveBars,
     SetFuturePriceAnchor, AddFuturePriceAnchorIfAbsent

LEMMA SavesOfReadTables ==
  ASSUME NEW d, RowsFit(d), NEW id, NEW x, x.t \in Nat
  PROVE  /\ RowsFit(SaveMarketPrice(d, id, x)) /\ RowsFit(SaveFlowEvent(d, x))
         /\ RowsFit(SaveFuturesEvents(d, x)) /\ RowsFit(SaveGammaAggregate(d, id, x))
         /\ IsFiniteSet(x.contracts) => RowsFit(SaveChainSnapshot(d, id, x))
<1>0. /\ DOMAIN d = DOMAIN NoTables
      /\ {"prices", "events", "aggregates", "snapshots", "flow", "items", "contracts"}
            \subseteq DOMAIN NoTables
  BY DEF RowsFit, NoTables
<1>1. RowsFit(SaveMarketPrice(d, id, x)) /\ RowsFit(SaveFuturesEvents(d, x))
  BY <1>0 DEF RowsFit, SaveMarketPrice, SaveFuturesEvents
<1>2. RowsFit(SaveFlowEvent(d, x))
  BY <1>0 DEF RowsFit, SaveFlowEvent
<1>3. RowsFit(SaveGammaAggregate(d, id, x))
  <2> DEFINE row == [uid |-> id, t |-> x.t, view |-> x.view, v |-> x.v]
             e == SaveGammaAggregate(d, id, x)
             new == Upserted(d.aggregates, {"uid", "t", "view"}, row)
  <2>1. new \subseteq d.aggregates \cup {row} /\ row.t = x.t
    BY DEF Upserted
  <2>2. IsFiniteSet(d.aggregates \cup {row})
    BY FS_Singleton, FS_Union DEF RowsFit
  <2>3. IsFiniteSet(new) /\ \A r \in new : r.t \in Int
    BY <2>1, <2>2, FS_Subset DEF RowsFit
  <2>4. /\ e.aggregates = new /\ e.prices = d.prices /\ e.events = d.events
        /\ e.snapshots = d.snapshots /\ e.flow = d.flow /\ DOMAIN e = DOMAIN d
    BY <1>0 DEF SaveGammaAggregate
  <2> HIDE DEF new, e
  <2>5. RowsFit(e)
    BY <2>3, <2>4 DEF RowsFit
  <2> QED
    BY <2>5 DEF e
<1>4. ASSUME IsFiniteSet(x.contracts) PROVE RowsFit(SaveChainSnapshot(d, id, x))
  <2> DEFINE added == {[t |-> x.t, occ |-> n.occ, uid |-> id, v |-> x.v] : n \in x.contracts}
             new == d.snapshots \cup added
             e == SaveChainSnapshot(d, id, x)
  <2>1. IsFiniteSet(added)
    <3> DEFINE f == [n \in x.contracts |-> [t |-> x.t, occ |-> n.occ, uid |-> id, v |-> x.v]]
    <3>1. f \in Surjection(x.contracts, added)
      BY DEF Surjection
    <3> QED
      BY <1>4, <3>1, FS_Surjection
  <2>2. IsFiniteSet(new) /\ \A r \in new : r.t \in Int
    <3>1. \A r \in added : r.t = x.t
      OBVIOUS
    <3> HIDE DEF added
    <3>2. IsFiniteSet(new)
      BY <2>1, FS_Union DEF RowsFit
    <3> QED
      BY <3>1, <3>2 DEF RowsFit
  <2>3. CASE x.contracts = {}
    BY <2>3 DEF SaveChainSnapshot
  <2>4. CASE x.contracts # {}
    <3>1. /\ e.snapshots = new /\ e.prices = d.prices /\ e.events = d.events
          /\ e.aggregates = d.aggregates /\ e.flow = d.flow /\ DOMAIN e = DOMAIN d
      BY <1>0, <2>4 DEF SaveChainSnapshot
    <3> HIDE DEF new, e
    <3>2. RowsFit(e)
      BY <2>2, <3>1 DEF RowsFit
    <3> QED
      BY <3>2 DEF e
  <2> QED
    BY <2>3, <2>4
<1> QED
  BY <1>1, <1>2, <1>3, <1>4

LEMMA FiniteContracts ==
  ASSUME NEW s, NEW exps, exps \in {{1}, {2}, {1, 2}}
  PROVE  IsFiniteSet(Contracts(s, exps))
<1> DEFINE f == [e \in exps |-> [occ |-> <<s, e>>, exp |-> e]]
<1>1. IsFiniteSet(exps)
  <2>1. IsFiniteSet({1}) /\ IsFiniteSet({2})
    BY FS_Singleton
  <2>2. IsFiniteSet({1} \cup {2}) /\ {1, 2} = {1} \cup {2}
    BY <2>1, FS_Union
  <2> QED
    BY <2>1, <2>2
<1>2. f \in Surjection(exps, Contracts(s, exps))
  BY DEF Surjection, Contracts
<1> QED
  BY <1>1, <1>2, FS_Surjection

LEMMA EnsuredFits ==
  ASSUME RowsFit(db), NEW s
  PROVE  RowsFit(Ensured(s).db)
BY OtherTable DEF Ensured, EnsureUnderlying, NoTables

\* Every step leaves rows of this shape.
LEMMA RowsStep ==
  ASSUME now \in Start..MaxNow, RowsFit(db), [Next]_vars
  PROVE  RowsFit(db')
<1>0. now \in Nat /\ \A t \in Times : t \in Nat
  BY StorageAssumption DEF Times
<1>1. \A s : RowsFit(Ensured(s).db)
  BY EnsuredFits
<1>2. CASE UNCHANGED vars \/ Tick \/ \E s \in Symbols : SaveFails(s)
  BY <1>2 DEF vars, Tick, SaveFails
<1>3. CASE QuoteMinute \/ FlowMinute \/ StrikeMinute \/ Prints
  BY <1>3 DEF QuoteMinute, FlowMinute, StrikeMinute, Prints, Minutely
<1>4. CASE NewUser \/ Password \/ Invite \/ InviteUsed \/ Preset \/ Chart
  <2>1. CASE NewUser
    BY <2>1, SavesOfOtherTables DEF NewUser, Directly
  <2>2. CASE Password
    BY <2>2, SavesOfOtherTables DEF Password, Directly
  <2>3. CASE Invite \/ InviteUsed
    BY <2>3, SavesOfOtherTables DEF Invite, InviteUsed, Directly
  <2>4. CASE Preset
    <3>1. \E x : db' = SaveScreenerPresetSettings(db, x)
      BY <2>4 DEF Preset, Directly
    <3> QED
      BY <3>1, SavesOfOtherTables
  <2>5. CASE Chart
    BY <2>5, SavesOfOtherTables DEF Chart, Directly
  <2> QED
    BY <1>4, <2>1, <2>2, <2>3, <2>4, <2>5
<1>5. CASE Threshold \/ Reference \/ Alert \/ Pressure
  <2>1. ASSUME NEW s, NEW id, NEW x
        PROVE  /\ RowsFit(SaveWhaleThreshold(Ensured(s).db, id, x))
               /\ RowsFit(SaveDailyGammaReference(Ensured(s).db, id, x))
               /\ RowsFit(SaveWhaleAlert(Ensured(s).db, id, x))
               /\ RowsFit(SaveSymbolFlowPressure(Ensured(s).db, id, x))
    BY <1>1, SavesOfOtherTables
  <2>2. CASE Threshold
    BY <2>1, <2>2 DEF Threshold, Through
  <2>3. CASE Reference
    BY <2>1, <2>3 DEF Reference, Through
  <2>4. CASE Alert
    BY <2>1, <2>4 DEF Alert, Through
  <2>5. CASE Pressure
    BY <2>1, <2>5 DEF Pressure, Through
  <2> QED
    BY <1>5, <2>2, <2>3, <2>4, <2>5
<1>6. CASE Bar
  <2>1. ASSUME NEW s, NEW id, NEW x
        PROVE  RowsFit(SaveDailyBar(SaveMinuteBar(Ensured(s).db, id, x), id, x))
    BY <1>1, SavesOfOtherTables
  <2> QED
    BY <1>6, <2>1 DEF Bar, Through
<1>7. CASE Fast
  <2>1. ASSUME NEW s, NEW id, NEW x
        PROVE  RowsFit(SaveGammaFastItems(Ensured(s).db, id, x))
    BY <1>1, SavesOfOtherTables
  <2> QED
    BY <1>7, <2>1 DEF Fast, Through, Directly
<1>8. CASE Volume
  BY <1>8, SavesOfOtherTables DEF Volume, Directly
<1>9. CASE Feed
  <2>1. ASSUME NEW x
        PROVE  /\ RowsFit(SaveFallback(SaveIndexPriceFallback(db, x), x))
               /\ RowsFit(SaveFuturesLiveQuote(db, x)) /\ RowsFit(SaveFuturesLiveBars(db, x))
               /\ x.t \in Nat => RowsFit(SaveFuturesEvents(db, x))
    BY SavesOfOtherTables, SavesOfReadTables
  <2>2. PICK s \in {"ES", "NQ"}, t \in Times, index \in {{}, {V}} :
          LET x == [s |-> s, t |-> t, v |-> V, index |-> index] IN
          \/ db' = SaveFallback(SaveIndexPriceFallback(db, x), x)
          \/ db' = SaveFuturesLiveQuote(db, x)
          \/ db' = SaveFuturesLiveBars(db, x)
          \/ db' = SaveFuturesEvents(db, x)
    <3>1. PICK s \in {"ES", "NQ"}, t \in Times, index \in {{}, {V}} :
            \E x, f, m, d : x = [s |-> s, t |-> t, v |-> V, index |-> index] /\
              Directly(f, x, d, m) /\
              d \in {SaveFallback(SaveIndexPriceFallback(db, x), x), SaveFuturesLiveQuote(db, x),
                     SaveFuturesLiveBars(db, x), SaveFuturesEvents(db, x)}
      BY <1>9 DEF Feed
    <3> QED
      BY <3>1 DEF Directly
  <2> QED
    BY <1>0, <2>1, <2>2
<1>10. CASE Flow
  <2>1. PICK s \in Symbols, t \in Times :
          db' = SaveFlowEvent(db, [s |-> s, t |-> t, v |-> V, occ |-> <<s, 1>>])
    BY <1>10 DEF Flow, Directly
  <2>2. ASSUME NEW x, x.t \in Nat PROVE RowsFit(SaveFlowEvent(db, x))
    BY <2>2, SavesOfReadTables
  <2> QED
    BY <1>0, <2>1, <2>2
<1>11. CASE Price
  <2>1. PICK s \in Symbols, t \in Times :
          db' = SaveMarketPrice(Ensured(s).db, Ensured(s).id, [s |-> s, t |-> t, v |-> V])
    BY <1>11 DEF Price, Through
  <2>2. ASSUME NEW x, x.t \in Nat, NEW id PROVE RowsFit(SaveMarketPrice(Ensured(s).db, id, x))
    BY <1>1, <2>2, SavesOfReadTables
  <2> QED
    BY <1>0, <2>1, <2>2
<1>12. CASE Gamma
  <2>1. PICK s \in Symbols, t \in Times, w \in {"structural", "0dte"}, ks \in {{1}, {1, 2}} :
          db' = SaveGammaAggregate(Ensured(s).db, Ensured(s).id,
                  [s |-> s, t |-> t, v |-> V, view |-> w, strikes |-> ks])
    <3>1. PICK s \in Symbols, t \in Times, w \in {"structural", "0dte"}, ks \in {{1}, {1, 2}} :
            \E f, x, m : x = [s |-> s, t |-> t, v |-> V, view |-> w, strikes |-> ks] /\
              Through(f, x, SaveGammaAggregate(Ensured(s).db, Ensured(s).id, x), m)
      BY <1>12 DEF Gamma
    <3> QED
      BY <3>1 DEF Through
  <2>2. ASSUME NEW x, x.t \in Nat, NEW id
        PROVE  RowsFit(SaveGammaAggregate(Ensured(s).db, id, x))
    BY <1>1, <2>2, SavesOfReadTables
  <2> QED
    BY <1>0, <2>1, <2>2
<1>13. CASE Chain
  <2>1. PICK s \in Symbols, t \in Times, exps \in {{1}, {2}, {1, 2}} :
          db' = SaveChainSnapshot(Ensured(s).db, Ensured(s).id,
                  [s |-> s, t |-> t, v |-> V, contracts |-> Contracts(s, exps)])
    <3>1. PICK s \in Symbols, t \in Times, exps \in {{1}, {2}, {1, 2}} :
            \E f, x, m : x = [s |-> s, t |-> t, v |-> V, contracts |-> Contracts(s, exps)] /\
              Through(f, x, SaveChainSnapshot(Ensured(s).db, Ensured(s).id, x), m)
      BY <1>13 DEF Chain
    <3> QED
      BY <3>1 DEF Through
  <2>2. ASSUME NEW x, x.t \in Nat, IsFiniteSet(x.contracts), NEW id
        PROVE  RowsFit(SaveChainSnapshot(Ensured(s).db, id, x))
    BY <1>1, <2>2, SavesOfReadTables
  <2>3. IsFiniteSet(Contracts(s, exps))
    BY FiniteContracts
  <2> QED
    BY <1>0, <2>1, <2>2, <2>3
<1>14. CASE TypeAnchor
  <2>1. ASSUME NEW s, NEW id, NEW x, NEW at
        PROVE  RowsFit(SetFuturePriceAnchor(Ensured(s).db, id, x, at))
    BY <1>1, SavesOfOtherTables
  <2> QED
    BY <1>14, <2>1 DEF TypeAnchor, Through
<1>15. CASE \E a \in Savers : AutoWrites(a) \/ \E ok \in BOOLEAN : AutoReads(a, ok)
  <2>1. ASSUME NEW s, NEW id, NEW x, NEW at
        PROVE  RowsFit(AddFuturePriceAnchorIfAbsent(Ensured(s).db, id, x, at))
    BY <1>1, SavesOfOtherTables
  <2> QED
    BY <1>15, <2>1 DEF AutoWrites, AutoReads, Ensured
<1> QED
  BY <1>2, <1>3, <1>4, <1>5, <1>6, <1>7, <1>8, <1>9, <1>10, <1>11, <1>12, <1>13, <1>14,
     <1>15 DEF Next

LEMMA RowsAtStart == Init => RowsFit(db)
<1> SUFFICES ASSUME Init PROVE RowsFit(db)
  OBVIOUS
<1>1. RowsFit(SeededTables)
  BY FS_EmptySet DEF SeededTables, RowsFit, NoTables
<1>2. \A s : RowsFit(WithContracts(SeededTables, s))
  BY <1>1, OtherTable DEF WithContracts, NoTables
<1>3. \A s : RowsFit(WithOldChain(SeededTables, s))
  <2> SUFFICES ASSUME NEW s PROVE RowsFit(WithOldChain(SeededTables, s))
    OBVIOUS
  <2> DEFINE d == WithContracts(SeededTables, s)
             old == OldChain(s).contracts
             rows == {[t |-> 0, occ |-> n.occ, uid |-> 0, v |-> 0] : n \in old}
  <2>1. IsFiniteSet(old)
    BY FiniteContracts DEF OldChain
  <2>2. IsFiniteSet(rows)
    <3> DEFINE f == [n \in old |-> [t |-> 0, occ |-> n.occ, uid |-> 0, v |-> 0]]
    <3> HIDE DEF old
    <3>1. f \in Surjection(old, rows)
      BY DEF Surjection
    <3> QED
      BY <2>1, <3>1, FS_Surjection
  <2>3. \A r \in rows : r.t = 0
    OBVIOUS
  <2>4. WithOldChain(SeededTables, s) = [d EXCEPT !.snapshots = rows]
    BY DEF WithOldChain
  <2>5. RowsFit(d)
    BY <1>2
  <2> HIDE DEF d, rows
  <2> QED
    BY <2>2, <2>3, <2>4, <2>5 DEF RowsFit, NoTables
<1> QED
  BY <1>1, <1>2, <1>3 DEF Init

\* The two adapters read alike.
TwinsAgree ==
  \A s, view, exp, occs, day, limit : \A from, to \in Int :
    TwinsAnswer(db, s, view, exp, occs, day, limit, from, to)

\* Whatever was saved, in whatever order and with whatever transactions failing on
\* the way, every read of AsyncPostgreSQLStorage answers as the read of
\* PostgreSQLStorage it was written after.
THEOREM ReadsOfTwinsAgree == Spec => []TwinsAgree
<1>1. Init => RowsFit(db)
  BY RowsAtStart
<1>2. IInv /\ RowsFit(db) /\ [Next]_vars => RowsFit(db)'
  BY RowsStep DEF IInv, Tables
<1>3. RowsFit(db) => TwinsAgree
  BY TwinReads DEF TwinsAgree
<1> QED
  BY <1>1, <1>2, <1>3, StorageInvariance, PTL DEF Spec

-----------------------------------------------------------------------------
\* The families whose tables have one row per key, which a save replaces.
Keyed == {"users", "invites", "presets", "chart", "threshold", "pressure", "anchors",
          "fallbacks", "quotes", "volumes", "corrections"}

\* Rows with an underlying_id mirror a dictionary by symbol: each is the row of a
\* symbol that is in it and tells what it tells in these columns, and each symbol
\* that is in it has a row.
Tells(r, f, s, cols) == s \in DOMAIN f /\ \A c \in cols : r[c] = f[s][c]
Mirrors(underlyings, rows, f, cols) ==
  /\ \A r \in rows : \E u \in underlyings : u.id = r.uid /\ Tells(r, f, u.symbol, cols)
  /\ \A s \in DOMAIN f : \E r \in rows, u \in underlyings : u.id = r.uid /\ u.symbol = s

\* The users made, and that they were made by normal names and once each.
Made == {i \in DOMAIN log : log[i].new}
MadeOnce == /\ \A i \in Made : log[i].name = Normal(log[i].name)
            /\ \A i, j \in Made : log[i].name = log[j].name => i = j

\* Of each such family, the correspondence of its table with the dictionary of
\* InMemoryStorage.
UsersFit == family = "users" /\ MadeOnce =>
  /\ IsFiniteSet(DOMAIN mem.users)
  /\ DOMAIN mem.users = {log[i].name : i \in Made}
  /\ db.users = {mem.users[n] : n \in DOMAIN mem.users}
  /\ \A n \in DOMAIN mem.users :
       mem.users[n].name = n /\ DOMAIN mem.users[n] = {"id", "name", "v"}
InvitesFit == family = "invites" =>
  /\ db.invites = {mem.invites[k] : k \in DOMAIN mem.invites}
  /\ \A k \in DOMAIN mem.invites :
       /\ k \in 1..Len(log) /\ mem.invites[k].token = k
       /\ DOMAIN mem.invites[k] = {"token", "name", "used"}
AnyNumber == {<<>>} \cup {<<n>> : n \in Nat}
Parameters(preset) == IF preset = "board" THEN [v : Nat] ELSE [min : AnyNumber, limit : AnyNumber]
PresetsFit == family = "presets" =>
  /\ DOMAIN mem.presets \subseteq {"board", "leaders"}
  /\ \A k \in DOMAIN mem.presets : mem.presets[k] \in Parameters(k)
  /\ db.presets = {[preset |-> k, parameters |-> ToJson(k, mem.presets[k])] :
                     k \in DOMAIN mem.presets}
ChartFit == family = "chart" =>
  db.chart = {[user |-> k, v |-> mem.chart[k]] : k \in DOMAIN mem.chart}
ThresholdsFit == family = "threshold" =>
  Mirrors(db.underlyings, db.thresholds,
          [s \in DOMAIN mem.thresholds \cap Rowed |-> [v |-> mem.thresholds[s]]], {"v"})
PressureFit == family = "pressure" =>
  /\ Mirrors(db.underlyings, db.pressure, mem.pressure, {"t", "v"})
  /\ \A r \in db.pressure : DOMAIN r = {"uid", "t", "v"}
AnchorsFit == family = "anchors" =>
  /\ Mirrors(db.underlyings, db.anchors,
             [s \in {k[1] : k \in DOMAIN mem.anchors} |-> mem.anchors[<<s, Day>>]],
             {"v", "source", "at"})
  /\ \A k \in DOMAIN mem.anchors : k = <<k[1], Day>>
  /\ \A a \in db.anchors : a.day = Day
  /\ \A s \in DOMAIN cache : \E u \in db.underlyings : u.symbol = s
FallbacksFit == family = "fallbacks" =>
  /\ db.fallbacks = {[s |-> k, v |-> mem.fallbacks[k].v] : k \in DOMAIN mem.fallbacks}
  /\ \A k \in DOMAIN mem.fallbacks : mem.fallbacks[k].s = k
QuotesFit == family = "quotes" =>
  db.quotes = {[s |-> k, t |-> mem.quotes[k].t, v |-> mem.quotes[k].v] : k \in DOMAIN mem.quotes}
\* What is saved of volumes and corrections are whole numbers.
WholeVolumes == family \in {"volumes", "corrections"} =>
  \A i \in DOMAIN log : log[i].t \in Int /\ log[i].v \in Int
\* The pruning of other trade dates finds nothing: each row comes from a save.
VolumesFit == family = "volumes" /\ OneDay /\ Growing =>
  /\ \A r \in db.volumes : r.v \in Int /\ \E i \in DOMAIN log :
       log[i].occ = r.occ /\ log[i].t = r.at /\ log[i].v = r.v
  /\ {[occ |-> r.occ, v |-> r.v] : r \in db.volumes}
       = {[occ |-> o, v |-> mem.volumes[o]] : o \in DOMAIN mem.volumes}
CorrectionsFit == family = "corrections" /\ OneDay =>
  /\ \A r \in db.corrections : \E i \in DOMAIN log : log[i].occ = r.occ /\ log[i].t = r.at
  /\ {[occ |-> r.occ, v |-> r.v] : r \in db.corrections}
       = {[occ |-> o, v |-> mem.corrections[o]] : o \in DOMAIN mem.corrections}

\* The inductive invariant of these families.
KeyedFits ==
  /\ family \in Keyed => DOMAIN mem = DOMAIN M!InMemory /\ \E S : log \in Seq(S)
  /\ UsersFit /\ InvitesFit /\ PresetsFit /\ ChartFit /\ ThresholdsFit /\ PressureFit
  /\ AnchorsFit /\ FallbacksFit /\ QuotesFit /\ WholeVolumes /\ VolumesFit
  /\ CorrectionsFit

-----------------------------------------------------------------------------
\* The log grows by what is saved.
LEMMA LogGrows ==
  ASSUME \E S : log \in Seq(S), NEW x, log' = Append(log, x)
  PROVE  /\ \E S : log' \in Seq(S)
         /\ Len(log) \in Nat /\ Len(log') = Len(log) + 1
         /\ DOMAIN log' = DOMAIN log \cup {Len(log) + 1} /\ Len(log) + 1 \notin DOMAIN log
         /\ \A i \in DOMAIN log : log'[i] = log[i] /\ i < Len(log) + 1
         /\ log'[Len(log) + 1] = x
<1>1. PICK S : log \in Seq(S)
  OBVIOUS
<1>2. log \in Seq(S \cup {x})
  BY <1>1
<1>3. log' \in Seq(S \cup {x})
  BY <1>2
<1> QED
  BY <1>2, <1>3

\* The steps of these families: one of their own saves, or a step that leaves
\* the tables, the dictionaries and the log alone.
LEMMA KeyedSteps ==
  ASSUME family \in Keyed, [Next]_vars
  PROVE  \/ UNCHANGED <<db, mem, log, cache>> /\ Onward
         \/ Threshold \/ NewUser \/ Password \/ Invite \/ InviteUsed \/ Preset \/ Chart
         \/ Pressure \/ Volume \/ Feed \/ TypeAnchor \/ \E a \in Savers : AutoWrites(a)
<1>1. \A f : (\E x, d, m : Through(f, x, d, m) \/ Directly(f, x, d, m) \/ Minutely(f, x, d, m))
              => family = f
  BY DEF Through, Directly, Minutely, Calls
<1>2. ~Chain /\ ~Gamma /\ ~Fast /\ ~Price /\ ~Flow /\ ~Reference /\ ~Bar /\ ~Alert
  <2>1. ASSUME Chain PROVE FALSE
    BY <1>1, <2>1 DEF Chain, Keyed
  <2>2. ASSUME Gamma PROVE FALSE
    BY <1>1, <2>2 DEF Gamma, Keyed
  <2>3. ASSUME Fast PROVE FALSE
    BY <1>1, <2>3 DEF Fast, Keyed
  <2>4. ASSUME Price PROVE FALSE
    BY <1>1, <2>4 DEF Price, Keyed
  <2>5. ASSUME Flow PROVE FALSE
    BY <1>1, <2>5 DEF Flow, Keyed
  <2>6. ASSUME Reference PROVE FALSE
    BY <1>1, <2>6 DEF Reference, Keyed
  <2>7. ASSUME Bar PROVE FALSE
    BY <1>1, <2>7 DEF Bar, Keyed
  <2>8. ASSUME Alert PROVE FALSE
    BY <1>1, <2>8 DEF Alert, Keyed
  <2> QED
    BY <2>1, <2>2, <2>3, <2>4, <2>5, <2>6, <2>7, <2>8
<1>3. ~QuoteMinute /\ ~FlowMinute /\ ~StrikeMinute /\ ~Prints
  BY <1>1 DEF QuoteMinute, FlowMinute, StrikeMinute, Prints, Keyed
<1>4. CASE UNCHANGED vars \/ Tick \/ \E s \in Symbols : SaveFails(s)
  BY <1>4 DEF vars, Tick, SaveFails, Onward, Keyed
<1>5. ASSUME NEW a \in Savers, NEW ok \in BOOLEAN, AutoReads(a, ok)
      PROVE  UNCHANGED <<db, mem, log, cache>> /\ Onward
  BY <1>5 DEF AutoReads, Onward
<1> QED
  BY <1>2, <1>3, <1>4, <1>5 DEF Next

\* What resolving the id of a symbol leaves of the rows: the other symbols keep
\* theirs, the symbol's id is that of its own row and of no other.
LEMMA EnsuredRows ==
  ASSUME IInv, NEW s \in Symbols, NEW e, e = Ensured(s)
  PROVE  /\ \A u \in db.underlyings : u.symbol # s => u \in e.db.underlyings
         /\ \A u \in e.db.underlyings : u.symbol # s => u \in db.underlyings
         /\ \A u \in db.underlyings : u.symbol = s <=> u.id = e.id
         /\ \A u \in e.db.underlyings : u.symbol = s <=> u.id = e.id
         /\ \A u, w \in db.underlyings : u.id = w.id \/ u.symbol = w.symbol => u = w
         /\ \A u, w \in e.db.underlyings : u.id = w.id \/ u.symbol = w.symbol => u = w
<1>0. "underlyings" \in DOMAIN db
  BY DEF IInv, Tables, NoTables
<1>1. /\ IdsFit(e.db.underlyings, e.cache, e.next) /\ IdsFit(db.underlyings, e.cache, e.next)
      /\ s \in DOMAIN e.cache /\ e.cache[s] = e.id
  BY Ensures DEF IInv
<1>2. \/ e.db = db
      \/ \E row : row.symbol = s /\ e.db.underlyings =
           (db.underlyings \ {u \in db.underlyings : u.symbol = s}) \cup {row}
  <2>1. CASE s \in DOMAIN cache
    BY <2>1 DEF Ensured, EnsureUnderlying
  <2>2. CASE s \notin DOMAIN cache
    <3> DEFINE old == {u \in db.underlyings : u.symbol = s}
               found == CHOOSE u \in old : TRUE
               row == IF old = {} THEN [id |-> next, symbol |-> s, kind |-> KindOf(s)]
                      ELSE IF s \in Configured THEN [found EXCEPT !.kind = KindOf(s)] ELSE found
    <3>1. e.db = [db EXCEPT !.underlyings = (@ \ old) \cup {row}]
      BY <2>2 DEF Ensured, EnsureUnderlying
    <3>2. old # {} => found \in old
      OBVIOUS
    <3>3. row.symbol = s
      BY <3>2 DEF IInv, IdsFit, Underlyings
    <3> HIDE DEF row
    <3> QED
      BY <1>0, <3>1, <3>3
  <2> QED
    BY <2>1, <2>2
<1> QED
  BY <1>1, <1>2 DEF IdsFit
\* A mirror outlives the resolving of an id.
LEMMA MirrorKept ==
  ASSUME IInv, NEW s \in Symbols, NEW e, e = Ensured(s), \E u \in e.db.underlyings : u.id = e.id,
         NEW rows, NEW f, NEW cols, Mirrors(db.underlyings, rows, f, cols)
  PROVE  Mirrors(e.db.underlyings, rows, f, cols)
<1> DEFINE old == db.underlyings
           new == e.db.underlyings
<1>1. \A u \in old : \E w \in new : w.id = u.id /\ w.symbol = u.symbol
  BY EnsuredRows
<1> HIDE DEF old, new
<1>2. Mirrors(old, rows, f, cols)
  BY DEF old
<1>3. Mirrors(new, rows, f, cols)
  BY <1>1, <1>2 DEF Mirrors
<1> QED
  BY <1>3 DEF new

\* The row of a symbol is replaced, and its item put.
Replaced(s, id, row, rows, new, f, g, cols) ==
  /\ new = {r \in rows : r.uid # id} \cup {row} /\ row.uid = id
  /\ DOMAIN g = DOMAIN f \cup {s} /\ \A r \in DOMAIN f : r # s => g[r] = f[r]
  /\ \A c \in cols : row[c] = g[s][c]

\* A mirror outlives that too.
LEMMA MirrorSaved ==
  ASSUME IInv, NEW s \in Symbols, NEW e, e = Ensured(s), \E u \in e.db.underlyings : u.id = e.id,
         NEW rows, NEW f, NEW cols, Mirrors(db.underlyings, rows, f, cols),
         NEW row, NEW after, NEW g, Replaced(s, e.id, row, rows, after, f, g, cols)
  PROVE  Mirrors(e.db.underlyings, after, g, cols)
<1>0. /\ after = {r \in rows : r.uid # e.id} \cup {row} /\ row.uid = e.id
      /\ DOMAIN g = DOMAIN f \cup {s} /\ \A r \in DOMAIN f : r # s => g[r] = f[r]
      /\ \A c \in cols : row[c] = g[s][c]
  BY DEF Replaced
<1> DEFINE new == e.db.underlyings
           left == {r \in rows : r.uid # e.id}
<1>1. Mirrors(new, rows, f, cols)
  BY MirrorKept
<1>2. \A u \in new : u.symbol = s <=> u.id = e.id
  BY EnsuredRows
<1>3. \A r \in left : \E u \in new :
        u.id = r.uid /\ Tells(r, g, u.symbol, cols)
  <2>1. \A r, t : t # s /\ Tells(r, f, t, cols) => Tells(r, g, t, cols)
    BY <1>0 DEF Tells
  <2> QED
    BY <1>0, <1>1, <1>2, <2>1 DEF Mirrors
<1>4. \A r \in DOMAIN g : \E q \in left \cup {row}, u \in new : u.id = q.uid /\ u.symbol = r
  <2> SUFFICES ASSUME NEW r \in DOMAIN g
               PROVE  \E q \in left \cup {row}, u \in new : u.id = q.uid /\ u.symbol = r
    OBVIOUS
  <2>1. CASE r = s
    BY <1>0, <1>2, <2>1
  <2>2. CASE r # s
    BY <1>0, <1>1, <1>2, <2>2 DEF Mirrors
  <2> QED
    BY <2>1, <2>2
<1>5. \E u \in new : u.id = row.uid /\ Tells(row, g, u.symbol, cols)
  BY <1>0, <1>2 DEF Tells
<1> HIDE DEF new, left
<1>6. Mirrors(new, left \cup {row}, g, cols)
  BY <1>3, <1>4, <1>5 DEF Mirrors
<1> QED
  BY <1>0, <1>6 DEF new, left

\* What a mirror tells of a symbol.
LEMMA MirrorTells ==
  ASSUME IInv, NEW rows, NEW f, NEW cols, Mirrors(db.underlyings, rows, f, cols), NEW s
  PROVE  /\ s \notin DOMAIN f => OfSymbol(db, rows, s) = {}
         /\ s \in DOMAIN f => OfSymbol(db, rows, s) # {}
         /\ \A r \in OfSymbol(db, rows, s) : \A c \in cols : r[c] = f[s][c]
<1>1. \A u, w \in db.underlyings : u.id = w.id => u = w
  BY DEF IInv, IdsFit
<1> QED
  BY <1>1 DEF Mirrors, Tells, OfSymbol
-----------------------------------------------------------------------------
\* One lemma per save: its family's tables and dictionary still fit each other.
LEMMA ChartFits ==
  ASSUME IInv, KeyedFits, Chart
  PROVE  KeyedFits'
<1>1. PICK u \in 1..2 : \E x : /\ x = [user |-> u, v |-> V, t |-> now]
                               /\ db' = SaveUserChartSettings(db, x)
                               /\ mem' = M!SaveUserChartSettings(mem, x)
                               /\ log' = Append(log, x) /\ family = "chart" /\ family' = family
  BY DEF Chart, Directly, Calls
<1>2. DOMAIN mem = DOMAIN M!InMemory /\ DOMAIN db = DOMAIN NoTables /\ \E S : log' \in Seq(S)
  BY <1>1, LogGrows DEF KeyedFits, Keyed, IInv, Tables
<1>3. /\ db'.chart = Upserted(db.chart, {"user"}, [user |-> u, v |-> V])
      /\ mem'.chart = M!Put(mem.chart, u, V) /\ DOMAIN mem' = DOMAIN mem
  BY <1>1, <1>2 DEF SaveUserChartSettings, M!SaveUserChartSettings, NoTables, M!InMemory
<1>4. db'.chart = {[user |-> k, v |-> mem'.chart[k]] : k \in DOMAIN mem'.chart}
  <2>1. db.chart = {[user |-> k, v |-> mem.chart[k]] : k \in DOMAIN mem.chart}
    BY <1>1 DEF KeyedFits, ChartFit
  <2>2. db'.chart = {r \in db.chart : r.user # u} \cup {[user |-> u, v |-> V]}
    BY <1>3 DEF Upserted
  <2> DEFINE f == mem.chart
             g == mem'.chart
  <2>3. /\ DOMAIN g = DOMAIN f \cup {u} /\ g[u] = V
        /\ \A r \in DOMAIN f : r # u => g[r] = f[r]
    BY <1>3 DEF M!Put
  <2> HIDE DEF f, g
  <2>4. {[user |-> k, v |-> g[k]] : k \in DOMAIN g}
          = {[user |-> k, v |-> f[k]] : k \in DOMAIN f \ {u}} \cup {[user |-> u, v |-> V]}
    BY <2>3
  <2>5. {r \in {[user |-> k, v |-> f[k]] : k \in DOMAIN f} : r.user # u}
          = {[user |-> k, v |-> f[k]] : k \in DOMAIN f \ {u}}
    OBVIOUS
  <2> QED
    BY <2>1, <2>2, <2>4, <2>5 DEF f, g
<1> QED
  BY <1>1, <1>2, <1>3, <1>4 DEF KeyedFits, UsersFit, InvitesFit, PresetsFit, ChartFit,
     ThresholdsFit, PressureFit, AnchorsFit, FallbacksFit, QuotesFit, VolumesFit,
     WholeVolumes, CorrectionsFit

LEMMA FallbacksFits ==
  ASSUME IInv, KeyedFits, NEW s, NEW t, NEW index, NEW x,
         x = [s |-> s, t |-> t, v |-> V, index |-> index],
         Directly("fallbacks", x, SaveFallback(SaveIndexPriceFallback(db, x), x),
                  M!SaveIndexPriceFallback(mem, x))
  PROVE  KeyedFits'
<1>1. /\ db' = SaveFallback(SaveIndexPriceFallback(db, x), x)
      /\ mem' = M!SaveIndexPriceFallback(mem, x)
      /\ log' = Append(log, x) /\ family = "fallbacks" /\ family' = family
  BY DEF Directly, Calls
<1>2. DOMAIN mem = DOMAIN M!InMemory /\ DOMAIN db = DOMAIN NoTables /\ \E S : log' \in Seq(S)
  BY <1>1, LogGrows DEF KeyedFits, Keyed, IInv, Tables
<1> DEFINE row == [s |-> s, v |-> V]
           f == mem.fallbacks
           g == mem'.fallbacks
<1>3. mem'.fallbacks = M!Put(mem.fallbacks, s, x) /\ DOMAIN mem' = DOMAIN mem
  BY <1>1, <1>2 DEF M!SaveIndexPriceFallback, M!InMemory
<1>4. db'.fallbacks = {r \in db.fallbacks : r.s # s} \cup {row}
  <2> DEFINE d == SaveIndexPriceFallback(db, x)
  <2>1. d.fallbacks = {r \in db.fallbacks : r.s # s} \cup {row} /\ DOMAIN d = DOMAIN db
    BY <1>2 DEF SaveIndexPriceFallback, Upserted, NoTables
  <2>2. db' = [d EXCEPT !.fallbacks = {r \in @ : r.s # s} \cup {row}]
    BY <1>1 DEF SaveFallback
  <2> HIDE DEF d
  <2>3. db'.fallbacks = {r \in d.fallbacks : r.s # s} \cup {row}
    BY <1>2, <2>1, <2>2 DEF NoTables
  <2> QED
    BY <2>1, <2>3
<1>5. db.fallbacks = {[s |-> k, v |-> f[k].v] : k \in DOMAIN f} /\ \A k \in DOMAIN f : f[k].s = k
  BY <1>1 DEF KeyedFits, FallbacksFit
<1>6. /\ DOMAIN g = DOMAIN f \cup {s} /\ g[s] = x
      /\ \A r \in DOMAIN f : r # s => g[r] = f[r]
  BY <1>3 DEF M!Put
<1>7. x.v = V /\ x.s = s
  OBVIOUS
<1>8. FallbacksFit'
  <2> HIDE DEF f, g
  <2>1. {[s |-> k, v |-> g[k].v] : k \in DOMAIN g}
          = {[s |-> k, v |-> f[k].v] : k \in DOMAIN f \ {s}} \cup {row}
    BY <1>6, <1>7
  <2>2. {r \in {[s |-> k, v |-> f[k].v] : k \in DOMAIN f} : r.s # s}
          = {[s |-> k, v |-> f[k].v] : k \in DOMAIN f \ {s}}
    OBVIOUS
  <2>3. db'.fallbacks = {[s |-> k, v |-> g[k].v] : k \in DOMAIN g}
    BY <1>4, <1>5, <2>1, <2>2
  <2>4. \A k \in DOMAIN g : g[k].s = k
    BY <1>5, <1>6, <1>7
  <2> QED
    BY <2>3, <2>4 DEF FallbacksFit, g
<1> QED
  BY <1>1, <1>2, <1>3, <1>8 DEF KeyedFits, UsersFit, InvitesFit, PresetsFit, ChartFit,
     ThresholdsFit, PressureFit, AnchorsFit, FallbacksFit, QuotesFit, VolumesFit,
     WholeVolumes, CorrectionsFit

LEMMA QuotesFits ==
  ASSUME IInv, KeyedFits, NEW s, NEW t, NEW index, NEW x,
         x = [s |-> s, t |-> t, v |-> V, index |-> index],
         Directly("quotes", x, SaveFuturesLiveQuote(db, x), M!SaveFuturesLiveQuote(mem, x))
  PROVE  KeyedFits'
<1>1. /\ db' = SaveFuturesLiveQuote(db, x) /\ mem' = M!SaveFuturesLiveQuote(mem, x)
      /\ log' = Append(log, x) /\ family = "quotes" /\ family' = family
  BY DEF Directly, Calls
<1>2. DOMAIN mem = DOMAIN M!InMemory /\ DOMAIN db = DOMAIN NoTables /\ \E S : log' \in Seq(S)
  BY <1>1, LogGrows DEF KeyedFits, Keyed, IInv, Tables
<1> DEFINE row == [s |-> s, t |-> t, v |-> V]
           f == mem.quotes
           g == mem'.quotes
<1>3. mem'.quotes = M!Put(mem.quotes, s, x) /\ DOMAIN mem' = DOMAIN mem
  BY <1>1, <1>2 DEF M!SaveFuturesLiveQuote, M!InMemory
<1>4. db'.quotes = {r \in db.quotes : r.s # s} \cup {row}
  BY <1>1, <1>2 DEF SaveFuturesLiveQuote, Upserted, NoTables
<1>5. db.quotes = {[s |-> k, t |-> f[k].t, v |-> f[k].v] : k \in DOMAIN f}
  BY <1>1 DEF KeyedFits, QuotesFit
<1>6. /\ DOMAIN g = DOMAIN f \cup {s} /\ g[s] = x
      /\ \A r \in DOMAIN f : r # s => g[r] = f[r]
  BY <1>3 DEF M!Put
<1>7. x.t = t /\ x.v = V
  OBVIOUS
<1>8. QuotesFit'
  <2> HIDE DEF f, g
  <2>1. {[s |-> k, t |-> g[k].t, v |-> g[k].v] : k \in DOMAIN g}
          = {[s |-> k, t |-> f[k].t, v |-> f[k].v] : k \in DOMAIN f \ {s}} \cup {row}
    BY <1>6, <1>7
  <2>2. {r \in {[s |-> k, t |-> f[k].t, v |-> f[k].v] : k \in DOMAIN f} : r.s # s}
          = {[s |-> k, t |-> f[k].t, v |-> f[k].v] : k \in DOMAIN f \ {s}}
    OBVIOUS
  <2> QED
    BY <1>4, <1>5, <2>1, <2>2 DEF QuotesFit, g
<1> QED
  BY <1>1, <1>2, <1>3, <1>8 DEF KeyedFits, UsersFit, InvitesFit, PresetsFit, ChartFit,
     ThresholdsFit, PressureFit, AnchorsFit, FallbacksFit, QuotesFit, VolumesFit,
     WholeVolumes, CorrectionsFit

LEMMA InvitesFits ==
  ASSUME IInv, KeyedFits, Invite \/ InviteUsed
  PROVE  KeyedFits'
<1>1. family = "invites" /\ family' = family
  BY DEF Invite, InviteUsed, Directly, Calls
<1>2. DOMAIN mem = DOMAIN M!InMemory /\ DOMAIN db = DOMAIN NoTables /\ \E S : log \in Seq(S)
  BY <1>1 DEF KeyedFits, Keyed, IInv, Tables
<1> DEFINE f == mem.invites
           g == mem'.invites
<1>3. /\ db.invites = {f[k] : k \in DOMAIN f}
      /\ \A k \in DOMAIN f : /\ k \in 1..Len(log) /\ f[k].token = k
                               /\ DOMAIN f[k] = {"token", "name", "used"}
  BY <1>1 DEF KeyedFits, InvitesFit
<1>4. ASSUME Invite
      PROVE  DOMAIN mem' = DOMAIN mem /\ InvitesFit' /\ \E S : log' \in Seq(S)
  <2>1. PICK x : /\ x = [name |-> "bob", v |-> V, t |-> now]
                 /\ db' = CreateInvite(db, x) /\ mem' = M!CreateInvite(mem, x)
                 /\ log' = Append(log, x)
    BY <1>4 DEF Invite, Directly, Calls
  <2> DEFINE new == [token |-> V, name |-> "bob", used |-> FALSE]
  <2>2. g = M!Put(f, V, new) /\ DOMAIN mem' = DOMAIN mem
    BY <1>2, <2>1 DEF M!CreateInvite, M!InMemory
  <2>3. db'.invites = db.invites \cup {new}
    BY <1>2, <2>1 DEF CreateInvite, Normal, NoTables
  <2>4. /\ \E S : log' \in Seq(S)
        /\ Len(log) \in Nat /\ Len(log') = Len(log) + 1 /\ V = Len(log) + 1
    BY <1>2, <2>1, LogGrows DEF V
  <2>5. V \notin DOMAIN f
    BY <1>3, <2>4
  <2>6. DOMAIN g = DOMAIN f \cup {V} /\ g[V] = new /\ \A r \in DOMAIN f : g[r] = f[r]
    BY <2>2, <2>5 DEF M!Put
  <2>7. new.token = V /\ DOMAIN new = {"token", "name", "used"}
    OBVIOUS
  <2> HIDE DEF f, g, new
  <2>8. {g[k] : k \in DOMAIN g} = {f[k] : k \in DOMAIN f} \cup {new}
    BY <2>6
  <2>9. \A k \in DOMAIN g : /\ k \in 1..Len(log') /\ g[k].token = k
                            /\ DOMAIN g[k] = {"token", "name", "used"}
    BY <1>3, <2>4, <2>6, <2>7
  <2>10. InvitesFit'
    BY <1>3, <2>3, <2>8, <2>9 DEF InvitesFit, g
  <2> QED
    BY <2>2, <2>4, <2>10
<1>5. ASSUME InviteUsed
      PROVE  DOMAIN mem' = DOMAIN mem /\ InvitesFit' /\ \E S : log' \in Seq(S)
  <2>1. PICK token, x :
          /\ token \in 1..MaxSaves /\ db' = MarkInviteUsed(db, token) /\ mem' = M!MarkInviteUsed(mem, token)
          /\ log' = Append(log, x)
    BY <1>5 DEF InviteUsed, Directly, Calls
  <2>2. (\E S : log' \in Seq(S)) /\ Len(log) \in Nat /\ Len(log') = Len(log) + 1
    BY <1>2, <2>1, LogGrows
  <2>3. db'.invites = {IF i.token = token THEN [i EXCEPT !.used = TRUE] ELSE i : i \in db.invites}
    BY <1>2, <2>1 DEF MarkInviteUsed, NoTables
  <2>4. /\ DOMAIN mem' = DOMAIN mem /\ DOMAIN g = DOMAIN f
        /\ \A k \in DOMAIN f : g[k] = IF k = token THEN [f[k] EXCEPT !.used = TRUE] ELSE f[k]
    BY <1>2, <2>1 DEF M!MarkInviteUsed, M!InMemory
  <2> HIDE DEF f, g
  <2>5. \A k \in DOMAIN g : g[k] = IF f[k].token = token THEN [f[k] EXCEPT !.used = TRUE] ELSE f[k]
    BY <1>3, <2>4
  <2>6. db'.invites = {g[k] : k \in DOMAIN g}
    <3>1. \A k \in DOMAIN g : g[k] \in db'.invites
      BY <1>3, <2>3, <2>4, <2>5
    <3>2. ASSUME NEW i \in db'.invites PROVE \E k \in DOMAIN g : i = g[k]
      <4>1. PICK j \in db.invites : i = IF j.token = token THEN [j EXCEPT !.used = TRUE] ELSE j
        BY <2>3
      <4>2. PICK k \in DOMAIN f : j = f[k]
        BY <1>3
      <4> QED
        BY <2>4, <2>5, <4>1, <4>2
    <3> QED
      BY <3>1, <3>2
  <2>7. \A k \in DOMAIN g : g[k].token = k /\ DOMAIN g[k] = {"token", "name", "used"}
    BY <1>3, <2>4
  <2>8. \A k \in DOMAIN g : k \in 1..Len(log')
    BY <1>3, <2>2, <2>4
  <2>9. InvitesFit'
    BY <2>6, <2>7, <2>8 DEF InvitesFit, g
  <2> QED
    BY <2>2, <2>4, <2>9
<1> QED
  BY <1>1, <1>2, <1>4, <1>5 DEF KeyedFits, UsersFit, InvitesFit, PresetsFit, ChartFit,
     ThresholdsFit, PressureFit, AnchorsFit, FallbacksFit, QuotesFit, VolumesFit,
     WholeVolumes, CorrectionsFit

LEMMA PresetsFits ==
  ASSUME IInv, KeyedFits, Preset
  PROVE  KeyedFits'
<1>1. PICK p \in {[v |-> V]} \cup [min : {<<>>, <<V>>}, limit : {<<>>, <<1>>}] :
        \E k, x : /\ k = IF "v" \in DOMAIN p THEN "board" ELSE "leaders"
                  /\ x = [preset |-> k, p |-> p, t |-> now]
                  /\ db' = SaveScreenerPresetSettings(db, x)
                  /\ mem' = M!SaveScreenerPresetSettings(mem, x)
                  /\ log' = Append(log, x) /\ family = "presets" /\ family' = family
  BY DEF Preset, Directly, Calls
<1> DEFINE preset == IF "v" \in DOMAIN p THEN "board" ELSE "leaders"
           row == [preset |-> preset, parameters |-> ToJson(preset, p)]
           f == mem.presets
           g == mem'.presets
<1>2. /\ DOMAIN mem = DOMAIN M!InMemory /\ DOMAIN db = DOMAIN NoTables
      /\ (\E S : log' \in Seq(S)) /\ V \in Nat
  BY <1>1, LogGrows DEF KeyedFits, Keyed, IInv, Tables, V
<1>3. PICK x : /\ x = [preset |-> preset, p |-> p, t |-> now]
               /\ db' = SaveScreenerPresetSettings(db, x)
               /\ mem' = M!SaveScreenerPresetSettings(mem, x)
  BY <1>1
<1>4. preset \in {"board", "leaders"} /\ p \in Parameters(preset)
  <2>1. CASE p = [v |-> V]
    <3>1. "v" \in DOMAIN p
      BY <2>1
    <3> QED
      BY <1>2, <2>1, <3>1 DEF Parameters
  <2>2. CASE p \in [min : {<<>>, <<V>>}, limit : {<<>>, <<1>>}]
    <3>1. "v" \notin DOMAIN p
      BY <2>2
    <3>2. {<<>>, <<V>>} \subseteq AnyNumber /\ {<<>>, <<1>>} \subseteq AnyNumber
      BY <1>2 DEF AnyNumber
    <3>3. p \in [min : AnyNumber, limit : AnyNumber]
      BY <2>2, <3>2
    <3> QED
      BY <3>1, <3>3 DEF Parameters
  <2> QED
    BY <2>1, <2>2
<1> HIDE DEF preset
<1>5. g = M!Put(f, preset, p) /\ DOMAIN mem' = DOMAIN mem
  BY <1>2, <1>3 DEF M!SaveScreenerPresetSettings, M!InMemory
<1>6. db'.presets = {r \in db.presets : r.preset # preset} \cup {row}
  BY <1>2, <1>3 DEF SaveScreenerPresetSettings, Upserted, NoTables
<1>7. /\ DOMAIN f \subseteq {"board", "leaders"} /\ \A k \in DOMAIN f : f[k] \in Parameters(k)
      /\ db.presets = {[preset |-> k, parameters |-> ToJson(k, f[k])] : k \in DOMAIN f}
  BY <1>1 DEF KeyedFits, PresetsFit
<1>8. /\ DOMAIN g = DOMAIN f \cup {preset} /\ g[preset] = p
      /\ \A r \in DOMAIN f : r # preset => g[r] = f[r]
  BY <1>5 DEF M!Put
<1>9. PresetsFit'
  <2> HIDE DEF f, g
  <2>1. {[preset |-> k, parameters |-> ToJson(k, g[k])] : k \in DOMAIN g}
          = {[preset |-> k, parameters |-> ToJson(k, f[k])] : k \in DOMAIN f \ {preset}} \cup {row}
    BY <1>8
  <2>2. {r \in {[preset |-> k, parameters |-> ToJson(k, f[k])] : k \in DOMAIN f} :
           r.preset # preset}
          = {[preset |-> k, parameters |-> ToJson(k, f[k])] : k \in DOMAIN f \ {preset}}
    OBVIOUS
  <2>3. db'.presets = {[preset |-> k, parameters |-> ToJson(k, g[k])] : k \in DOMAIN g}
    BY <1>6, <1>7, <2>1, <2>2
  <2>4. DOMAIN g \subseteq {"board", "leaders"} /\ \A k \in DOMAIN g : g[k] \in Parameters(k)
    BY <1>4, <1>7, <1>8
  <2> QED
    BY <2>3, <2>4 DEF PresetsFit, g
<1> QED
  BY <1>1, <1>2, <1>5, <1>9 DEF KeyedFits, UsersFit, InvitesFit, PresetsFit, ChartFit,
     ThresholdsFit, PressureFit, AnchorsFit, FallbacksFit, QuotesFit, VolumesFit,
     WholeVolumes, CorrectionsFit

\* The preset comes back from its JSON as it went in.
LEMMA PresetRoundTrip ==
  ASSUME NEW preset \in {"board", "leaders"}, NEW p \in Parameters(preset)
  PROVE  FromJson(preset, ToJson(preset, p)) = p
<1>1. CASE preset = "board"
  BY <1>1 DEF Parameters, FromJson, ToJson
<1>2. CASE preset = "leaders"
  <2>1. p \in [min : AnyNumber, limit : AnyNumber]
    BY <1>2 DEF Parameters
  <2>2. PICK a \in AnyNumber, b \in AnyNumber : p = [min |-> a, limit |-> b]
    BY <2>1
  <2>3. CASE a = <<>>
    BY <1>2, <2>2, <2>3 DEF FromJson, ToJson
  <2>4. ASSUME NEW n \in Nat, a = <<n>> PROVE FromJson(preset, ToJson(preset, p)) = p
    <3>1. <<n>> # <<>> /\ <<n>>[1] = n /\ <<"text", n>> # <<>> /\ <<"text", n>>[2] = n
      OBVIOUS
    <3>2. ToJson(preset, p) = [min_magnitude |-> <<"text", n>>, limit |-> b]
      BY <1>2, <2>2, <2>4, <3>1 DEF ToJson
    <3> QED
      BY <1>2, <2>2, <2>4, <3>1, <3>2 DEF FromJson
  <2> QED
    BY <2>3, <2>4 DEF AnyNumber
<1> QED
  BY <1>1, <1>2

LEMMA UsersFits ==
  ASSUME IInv, KeyedFits, NewUser \/ Password
  PROVE  KeyedFits'
<1>1. family = "users" /\ family' = family
  BY DEF NewUser, Password, Directly, Calls
<1>2. DOMAIN mem = DOMAIN M!InMemory /\ DOMAIN db = DOMAIN NoTables /\ \E S : log \in Seq(S)
  BY <1>1 DEF KeyedFits, Keyed, IInv, Tables
<1> DEFINE f == mem.users
           g == mem'.users
<1>3. MadeOnce => /\ IsFiniteSet(DOMAIN f) /\ DOMAIN f = {log[i].name : i \in Made}
                  /\ db.users = {f[n] : n \in DOMAIN f}
                  /\ \A n \in DOMAIN f : f[n].name = n /\ DOMAIN f[n] = {"id", "name", "v"}
  BY <1>1 DEF KeyedFits, UsersFit
<1>4. ASSUME NewUser
      PROVE  DOMAIN mem' = DOMAIN mem /\ UsersFit' /\ \E S : log' \in Seq(S)
  <2>1. PICK name, x : /\ x = [name |-> name, v |-> V, t |-> now, new |-> TRUE]
                       /\ db' = IF CanCreateUser(db, name) THEN CreateUser(db, x) ELSE db
                       /\ mem' = M!CreateUser(mem, x) /\ log' = Append(log, x)
    BY <1>4 DEF NewUser, Directly, Calls
  <2> DEFINE n == Len(log) + 1
             new == [id |-> Cardinality(DOMAIN f) + 1, name |-> name, v |-> V]
  <2>2. /\ \E S : log' \in Seq(S)
        /\ DOMAIN log' = DOMAIN log \cup {n} /\ n \notin DOMAIN log
        /\ \A i \in DOMAIN log : log'[i] = log[i]
        /\ log'[n] = x
    BY <1>2, <2>1, LogGrows
  <2>3. g = M!Put(f, name, new) /\ DOMAIN mem' = DOMAIN mem
    <3>1. x.name = name /\ x.v = V
      BY <2>1
    <3>2. mem' = [mem EXCEPT !.users = M!Put(@, name, new)]
      <4>1. mem' = [mem EXCEPT !.users = M!Put(mem.users, x.name,
                     [id |-> Cardinality(DOMAIN f) + 1, name |-> x.name, v |-> x.v])]
        <5>1. M!Cardinality(DOMAIN f) = Cardinality(DOMAIN f)
          BY DEF M!Cardinality, Cardinality
        <5> QED
          BY <2>1, <5>1 DEF M!CreateUser
      <4>2. [id |-> Cardinality(DOMAIN f) + 1, name |-> x.name, v |-> x.v] = new
        BY <3>1
      <4> HIDE DEF new
      <4> QED
        BY <3>1, <4>1, <4>2
    <3> HIDE DEF new
    <3> QED
      BY <1>2, <3>2 DEF M!InMemory
  <2> HIDE DEF n
  <2>4. Made' = Made \cup {n} /\ \A i \in Made : log'[i] = log[i]
    BY <2>1, <2>2 DEF Made
  <2>5. SUFFICES ASSUME MadeOnce' PROVE UsersFit'
    BY <2>2, <2>3 DEF UsersFit
  <2>6. /\ MadeOnce /\ Normal(name) = name
        /\ \A i \in Made : log[i].name # name
    BY <2>1, <2>2, <2>4, <2>5 DEF MadeOnce, Made
  <2>7. name \notin DOMAIN f /\ CanCreateUser(db, name)
    BY <1>3, <2>6 DEF CanCreateUser, GetUserByUsername
  <2>8. Cardinality(db.users) = Cardinality(DOMAIN f)
    <3> HIDE DEF f
    <3> DEFINE h == [k \in DOMAIN f |-> f[k]]
    <3>1. h \in [DOMAIN f -> db.users] /\ IsInjective(h)
      BY <1>3, <2>6 DEF IsInjective
    <3>2. h \in Surjection(DOMAIN f, db.users)
      BY <1>3, <2>6, <3>1 DEF Surjection
    <3>3. h \in Bijection(DOMAIN f, db.users)
      BY <3>1, <3>2 DEF Bijection, Injection
    <3> QED
      BY <1>3, <2>6, <3>3, FS_Bijection DEF ExistsBijection
  <2>9. db'.users = db.users \cup {new}
    BY <1>2, <2>1, <2>6, <2>7, <2>8 DEF CreateUser, NoTables
  <2>10. DOMAIN g = DOMAIN f \cup {name} /\ g[name] = new /\ \A k \in DOMAIN f : g[k] = f[k]
    BY <2>3, <2>7 DEF M!Put
  <2>11. new.name = name /\ DOMAIN new = {"id", "name", "v"}
    OBVIOUS
  <2> HIDE DEF f, g, new
  <2>12. IsFiniteSet(DOMAIN g)
    BY SMTT(30), <1>3, <2>6, <2>10, FS_AddElement
  <2>13. DOMAIN g = {log'[i].name : i \in Made'}
    <3>1. {log'[i].name : i \in Made \cup {n}} = {log'[i].name : i \in Made} \cup {log'[n].name}
      OBVIOUS
    <3>2. {log'[i].name : i \in Made} = {log[i].name : i \in Made}
      BY <2>4
    <3>3. log'[n].name = name
      BY <2>1, <2>2
    <3> QED
      BY <1>3, <2>4, <2>6, <2>10, <3>1, <3>2, <3>3
  <2>14. db'.users = {g[k] : k \in DOMAIN g}
    BY <1>3, <2>6, <2>9, <2>10
  <2>15. \A k \in DOMAIN g : g[k].name = k /\ DOMAIN g[k] = {"id", "name", "v"}
    BY <1>3, <2>6, <2>10, <2>11
  <2> QED
    BY <2>12, <2>13, <2>14, <2>15 DEF UsersFit, g
<1>5. ASSUME Password
      PROVE  DOMAIN mem' = DOMAIN mem /\ UsersFit' /\ \E S : log' \in Seq(S)
  <2>1. PICK name, x, y :
          /\ x = [name |-> name, v |-> V, t |-> now]
          /\ y = [name |-> Normal(name), v |-> V, t |-> now, new |-> FALSE]
          /\ db' = UpdateUserPassword(db, x) /\ mem' = M!UpdateUserPassword(mem, x)
          /\ log' = Append(log, y)
    BY <1>5 DEF Password, Directly, Calls
  <2> DEFINE n == Len(log) + 1
             key == Normal(name)
  <2>2. /\ \E S : log' \in Seq(S)
        /\ DOMAIN log' = DOMAIN log \cup {n} /\ n \notin DOMAIN log
        /\ \A i \in DOMAIN log : log'[i] = log[i]
        /\ log'[n] = y
    BY <1>2, <2>1, LogGrows
  <2> HIDE DEF n
  <2>3. Made' = Made /\ \A i \in Made : log'[i] = log[i]
    BY <2>1, <2>2 DEF Made
  <2>4. M!Normal(name) = key
    BY DEF M!Normal, Normal
  <2>5. /\ DOMAIN mem' = DOMAIN mem /\ DOMAIN g = DOMAIN f
        /\ \A k \in DOMAIN f : g[k] = IF k = key THEN [f[k] EXCEPT !.v = V] ELSE f[k]
    <3>1. CASE key \in DOMAIN f
      <4>1. mem' = [mem EXCEPT !.users[key].v = V]
        BY <2>1, <2>4, <3>1 DEF M!UpdateUserPassword, M!GetUserByUsername, M!Get
      <4> QED
        BY <1>2, <4>1 DEF M!InMemory
    <3>2. CASE key \notin DOMAIN f
      BY <2>1, <2>4, <3>2 DEF M!UpdateUserPassword, M!GetUserByUsername, M!Get
    <3> QED
      BY <3>1, <3>2
  <2>6. SUFFICES ASSUME MadeOnce' PROVE UsersFit'
    BY <2>2, <2>5 DEF UsersFit
  <2>7. MadeOnce
    BY <2>3, <2>6 DEF MadeOnce
  <2>8. db'.users = {IF u.name = key THEN [u EXCEPT !.v = V] ELSE u : u \in db.users}
    BY <1>2, <2>1 DEF UpdateUserPassword, NoTables
  <2> HIDE DEF f, g, key
  <2>9. \A k \in DOMAIN g : g[k] = IF f[k].name = key THEN [f[k] EXCEPT !.v = V] ELSE f[k]
    BY <1>3, <2>5, <2>7
  <2>10. db'.users = {g[k] : k \in DOMAIN g}
    <3>1. ASSUME NEW k \in DOMAIN g PROVE g[k] \in db'.users
      <4>1. f[k] \in db.users
        BY <1>3, <2>5, <2>7
      <4> QED
        BY <2>8, <2>9, <4>1
    <3>2. ASSUME NEW u \in db'.users PROVE \E k \in DOMAIN g : u = g[k]
      <4>1. PICK w \in db.users : u = IF w.name = key THEN [w EXCEPT !.v = V] ELSE w
        BY <2>8
      <4>2. PICK k \in DOMAIN f : w = f[k]
        BY <1>3, <2>7
      <4> QED
        BY <2>5, <2>9, <4>1, <4>2
    <3> QED
      BY <3>1, <3>2
  <2>11. \A k \in DOMAIN g : g[k].name = k /\ DOMAIN g[k] = {"id", "name", "v"}
    <3> SUFFICES ASSUME NEW k \in DOMAIN g
                 PROVE  g[k].name = k /\ DOMAIN g[k] = {"id", "name", "v"}
      OBVIOUS
    <3>1. f[k].name = k /\ DOMAIN f[k] = {"id", "name", "v"}
      BY <1>3, <2>5, <2>7
    <3>2. g[k] = f[k] \/ g[k] = [f[k] EXCEPT !.v = V]
      BY <2>9
    <3> QED
      BY <3>1, <3>2
  <2>12. IsFiniteSet(DOMAIN g) /\ DOMAIN g = {log'[i].name : i \in Made'}
    BY <1>3, <2>3, <2>5, <2>7
  <2> QED
    BY <2>10, <2>11, <2>12 DEF UsersFit, g
<1> QED
  BY <1>1, <1>2, <1>4, <1>5 DEF KeyedFits, UsersFit, InvitesFit, PresetsFit, ChartFit,
     ThresholdsFit, PressureFit, AnchorsFit, FallbacksFit, QuotesFit, VolumesFit,
     WholeVolumes, CorrectionsFit

\* Resolving an id changes no other table.
LEMMA EnsuredTables ==
  ASSUME IInv, NEW s \in Symbols, NEW e, e = Ensured(s)
  PROVE  /\ DOMAIN e.db = DOMAIN NoTables
         /\ e.db.thresholds = db.thresholds /\ e.db.pressure = db.pressure
         /\ e.db.anchors = db.anchors
<1>1. DOMAIN db = DOMAIN NoTables
  BY DEF IInv, Tables
<1>2. \E rows : e.db \in {db, [db EXCEPT !.underlyings = rows]}
  BY DEF Ensured, EnsureUnderlying
<1> QED
  BY <1>1, <1>2 DEF NoTables

LEMMA ThresholdFits ==
  ASSUME IInv, KeyedFits, Threshold
  PROVE  KeyedFits'
<1>1. PICK s, x :
        /\ s \in Symbols /\ x = [s |-> s, v |-> V, t |-> now]
        /\ Through("threshold", x, SaveWhaleThreshold(Ensured(s).db, Ensured(s).id, x),
                   M!SaveWhaleThreshold(mem, x))
  BY DEF Threshold
<1>2. PICK e : e = Ensured(s)
  OBVIOUS
<1>3. /\ db' = SaveWhaleThreshold(e.db, e.id, x) /\ mem' = M!SaveWhaleThreshold(mem, x)
      /\ log' = Append(log, x) /\ family = "threshold" /\ family' = family
      /\ \E u \in e.db.underlyings : u.id = e.id
  BY <1>1, <1>2 DEF Through, Calls
<1>4. /\ DOMAIN mem = DOMAIN M!InMemory /\ (\E S : log' \in Seq(S))
      /\ DOMAIN e.db = DOMAIN NoTables /\ e.db.thresholds = db.thresholds
  BY <1>1, <1>2, <1>3, LogGrows, EnsuredTables DEF KeyedFits, Keyed
<1> DEFINE row == [uid |-> e.id, v |-> V]
           f == [r \in DOMAIN mem.thresholds \cap Rowed |-> [v |-> mem.thresholds[r]]]
           g == [r \in DOMAIN mem'.thresholds \cap Rowed' |-> [v |-> mem'.thresholds[r]]]
           rows == db.thresholds
<1>5. /\ db'.underlyings = e.db.underlyings
      /\ db'.thresholds = {r \in rows : r.uid # e.id} \cup {row}
  <2>1. x.v = V
    BY <1>1
  <2> QED
    BY <1>3, <1>4, <2>1 DEF SaveWhaleThreshold, Upserted, NoTables
<1>6. mem'.thresholds = M!Put(mem.thresholds, s, V) /\ DOMAIN mem' = DOMAIN mem
  BY <1>1, <1>3, <1>4 DEF M!SaveWhaleThreshold, M!InMemory
<1>7. /\ DOMAIN g = DOMAIN f \cup {s} /\ g[s] = [v |-> V]
      /\ \A r \in DOMAIN f : r # s => g[r] = f[r]
  <2>1. Rowed' = Rowed \cup {s}
    <3>1. PICK S : log \in Seq(S)
      BY <1>3 DEF KeyedFits, Keyed
    <3>2. /\ DOMAIN log' = DOMAIN log \cup {Len(log) + 1} /\ log'[Len(log) + 1].s = s
          /\ \A i \in DOMAIN log : log'[i] = log[i]
      BY <1>1, <1>3, <3>1
    <3> QED
      BY <3>2 DEF Rowed
  <2>2. /\ DOMAIN g = DOMAIN mem'.thresholds \cap Rowed'
        /\ DOMAIN f = DOMAIN mem.thresholds \cap Rowed
    OBVIOUS
  <2>3. /\ DOMAIN mem'.thresholds = DOMAIN mem.thresholds \cup {s} /\ mem'.thresholds[s] = V
        /\ \A r \in DOMAIN mem.thresholds : r # s => mem'.thresholds[r] = mem.thresholds[r]
    BY <1>6 DEF M!Put
  <2> QED
    BY <2>1, <2>2, <2>3
<1>8. row.uid = e.id /\ \A c \in {"v"} : row[c] = [v |-> V][c]
  OBVIOUS
<1>9. Mirrors(db.underlyings, rows, f, {"v"})
  BY <1>3 DEF KeyedFits, ThresholdsFit
<1>10. ThresholdsFit'
  <2> HIDE DEF f, g, row, rows
  <2>0. Replaced(s, e.id, row, rows, {r \in rows : r.uid # e.id} \cup {row}, f, g, {"v"})
    BY <1>7, <1>8 DEF Replaced
  <2>1. Mirrors(e.db.underlyings, {r \in rows : r.uid # e.id} \cup {row}, g, {"v"})
    BY <1>1, <1>2, <1>3, <1>9, <2>0, MirrorSaved
  <2>2. Mirrors(db'.underlyings, db'.thresholds, g, {"v"})
    BY <1>5, <2>1
  <2> QED
    BY <2>2 DEF ThresholdsFit, g
<1> QED
  BY <1>3, <1>4, <1>6, <1>10 DEF KeyedFits, UsersFit, InvitesFit, PresetsFit, ChartFit,
     ThresholdsFit, PressureFit, AnchorsFit, FallbacksFit, QuotesFit, VolumesFit,
     WholeVolumes, CorrectionsFit

LEMMA PressureFits ==
  ASSUME IInv, KeyedFits, Pressure
  PROVE  KeyedFits'
<1>1. PICK s, t, x :
        /\ s \in Symbols /\ t \in Times /\ x = [s |-> s, t |-> t, v |-> V]
        /\ Through("pressure", x, SaveSymbolFlowPressure(Ensured(s).db, Ensured(s).id, x),
                   M!SaveSymbolFlowPressure(mem, x))
  BY DEF Pressure
<1>2. PICK e : e = Ensured(s)
  OBVIOUS
<1>3. /\ db' = SaveSymbolFlowPressure(e.db, e.id, x)
      /\ mem' = M!SaveSymbolFlowPressure(mem, x)
      /\ log' = Append(log, x) /\ family = "pressure" /\ family' = family
      /\ \E u \in e.db.underlyings : u.id = e.id
  BY <1>1, <1>2 DEF Through, Calls
<1>4. /\ DOMAIN mem = DOMAIN M!InMemory /\ (\E S : log' \in Seq(S))
      /\ DOMAIN e.db = DOMAIN NoTables /\ e.db.pressure = db.pressure
  BY <1>1, <1>2, <1>3, LogGrows, EnsuredTables DEF KeyedFits, Keyed
<1> DEFINE row == [uid |-> e.id, t |-> t, v |-> V]
           f == mem.pressure
           g == mem'.pressure
           rows == db.pressure
<1>5. /\ db'.underlyings = e.db.underlyings
      /\ db'.pressure = {r \in rows : r.uid # e.id} \cup {row}
  <2>1. x.v = V /\ x.t = t
    BY <1>1
  <2> QED
    BY <1>3, <1>4, <2>1 DEF SaveSymbolFlowPressure, Upserted, NoTables
<1>6. g = M!Put(f, s, x) /\ DOMAIN mem' = DOMAIN mem
  BY <1>1, <1>3, <1>4 DEF M!SaveSymbolFlowPressure, M!InMemory
<1>7. /\ DOMAIN g = DOMAIN f \cup {s} /\ g[s] = x
      /\ \A r \in DOMAIN f : r # s => g[r] = f[r]
  BY <1>6 DEF M!Put
<1>8. row.uid = e.id /\ \A c \in {"t", "v"} : row[c] = x[c]
  BY <1>1
<1>9. Mirrors(db.underlyings, rows, f, {"t", "v"})
  BY <1>3 DEF KeyedFits, PressureFit
<1>11. DOMAIN row = {"uid", "t", "v"} /\ \A r \in rows : DOMAIN r = {"uid", "t", "v"}
  BY <1>3 DEF KeyedFits, PressureFit
<1>10. PressureFit'
  <2> HIDE DEF f, g, row, rows
  <2>0. Replaced(s, e.id, row, rows, {r \in rows : r.uid # e.id} \cup {row}, f, g, {"t", "v"})
    BY <1>7, <1>8 DEF Replaced
  <2>1. Mirrors(e.db.underlyings, {r \in rows : r.uid # e.id} \cup {row}, g, {"t", "v"})
    BY <1>1, <1>2, <1>3, <1>9, <2>0, MirrorSaved
  <2> QED
    BY <1>5, <1>11, <2>1 DEF PressureFit, g
<1> QED
  BY <1>3, <1>4, <1>6, <1>10 DEF KeyedFits, UsersFit, InvitesFit, PresetsFit, ChartFit,
     ThresholdsFit, PressureFit, AnchorsFit, FallbacksFit, QuotesFit, VolumesFit,
     WholeVolumes, CorrectionsFit

\* The anchors that memory has for the day, by symbol.
OfDay(anchors) == [s \in {k[1] : k \in DOMAIN anchors} |-> anchors[<<s, Day>>]]

\* Where no transaction fails, every cached id has its row.
LEMMA CachedRows ==
  ASSUME IInv, KeyedFits, family = "anchors", NEW s \in Symbols, NEW e, e = Ensured(s)
  PROVE  /\ \E u \in e.db.underlyings : u.id = e.id
         /\ \A r \in DOMAIN e.cache : \E u \in e.db.underlyings : u.symbol = r
<1>0. "underlyings" \in DOMAIN db
  BY DEF IInv, Tables, NoTables
<1>1. \A r \in DOMAIN cache : \E u \in db.underlyings : u.symbol = r
  BY DEF KeyedFits, AnchorsFit
<1>2. \E u \in e.db.underlyings : u.symbol = s
  <2>1. CASE s \in DOMAIN cache
    BY <1>1, <2>1 DEF Ensured, EnsureUnderlying
  <2>2. CASE s \notin DOMAIN cache
    <3> DEFINE old == {u \in db.underlyings : u.symbol = s}
               found == CHOOSE u \in old : TRUE
               row == IF old = {} THEN [id |-> next, symbol |-> s, kind |-> KindOf(s)]
                      ELSE IF s \in Configured THEN [found EXCEPT !.kind = KindOf(s)] ELSE found
    <3>1. e.db = [db EXCEPT !.underlyings = (@ \ old) \cup {row}]
      BY <2>2 DEF Ensured, EnsureUnderlying
    <3>2. row.symbol = s
      BY DEF IInv, IdsFit, Underlyings
    <3> HIDE DEF row, old
    <3> QED
      BY <1>0, <3>1, <3>2
  <2> QED
    BY <2>1, <2>2
<1>3. DOMAIN e.cache = DOMAIN cache \cup {s}
  BY Ensures DEF IInv
<1> QED
  BY <1>1, <1>2, <1>3, EnsuredRows

\* An anchor written to both sides, typed or not, leaves them fitting.
LEMMA AnchorSaved ==
  ASSUME IInv, KeyedFits, family = "anchors", family' = family, NEW s \in Symbols, NEW e,
         e = Ensured(s), NEW x, x.s = s, x.day = Day, log' = Append(log, x),
         db'.underlyings = e.db.underlyings, cache' = e.cache,
         db'.anchors = {r \in db.anchors : r.uid # e.id} \cup {AnchorRow(e.id, x, now)},
         mem' = M!SetFuturePriceAnchor(mem, x, now)
  PROVE  KeyedFits'
<1>1. DOMAIN mem = DOMAIN M!InMemory /\ \E S : log' \in Seq(S)
  BY LogGrows DEF KeyedFits, Keyed
<1> DEFINE row == AnchorRow(e.id, x, now)
           item == [v |-> x.v, source |-> x.source, at |-> now]
           m == mem.anchors
           n == mem'.anchors
           f == OfDay(mem.anchors)
           g == OfDay(mem'.anchors)
           cols == {"v", "source", "at"}
           rows == db.anchors
           after == {r \in rows : r.uid # e.id} \cup {row}
<1>2. n = M!Put(m, <<s, Day>>, item) /\ DOMAIN mem' = DOMAIN mem
  BY <1>1 DEF M!SetFuturePriceAnchor, M!InMemory
<1>3. DOMAIN n = DOMAIN m \cup {<<s, Day>>} /\ n[<<s, Day>>] = item
      /\ \A k \in DOMAIN m : k # <<s, Day>> => n[k] = m[k]
  BY <1>2 DEF M!Put
<1>4. /\ Mirrors(db.underlyings, rows, f, cols) /\ \A k \in DOMAIN m : k = <<k[1], Day>>
      /\ \A a \in rows : a.day = Day
  BY DEF KeyedFits, AnchorsFit, OfDay
<1>5. row.uid = e.id /\ row.day = Day /\ \A c \in cols : row[c] = item[c]
  BY DEF AnchorRow
<1>6. DOMAIN f = {k[1] : k \in DOMAIN m} /\ DOMAIN g = {k[1] : k \in DOMAIN n}
      /\ (\A r \in DOMAIN f : f[r] = m[<<r, Day>>]) /\ (\A r \in DOMAIN g : g[r] = n[<<r, Day>>])
  BY DEF OfDay
<1> HIDE DEF row, item, f, g, m, n, cols
<1>7. DOMAIN g = DOMAIN f \cup {s}
  BY <1>3, <1>6
<1>8. \A r \in DOMAIN f : r # s => g[r] = f[r]
  <2> SUFFICES ASSUME NEW r \in DOMAIN f, r # s PROVE g[r] = f[r]
    OBVIOUS
  <2>1. <<r, Day>> \in DOMAIN m
    BY <1>4, <1>6
  <2> QED
    BY <1>3, <1>6, <1>7, <2>1
<1>9. g[s] = item
  BY <1>3, <1>6, <1>7
<1>10. Replaced(s, e.id, row, rows, after, f, g, cols)
  BY <1>5, <1>7, <1>8, <1>9 DEF Replaced
<1>11. \E u \in e.db.underlyings : u.id = e.id
  BY CachedRows
<1>12. AnchorsFit'
  <2> HIDE DEF after
  <2>1. Mirrors(e.db.underlyings, after, g, cols)
    BY <1>4, <1>10, <1>11, MirrorSaved
  <2>2. db'.anchors = after
    BY DEF after, row, rows
  <2>3. \A k \in DOMAIN n : k = <<k[1], Day>>
    BY <1>3, <1>4
  <2>4. \A a \in db'.anchors : a.day = Day
    BY <1>4, <1>5, <2>2 DEF after
  <2>5. \A r \in DOMAIN cache' : \E u \in db'.underlyings : u.symbol = r
    BY CachedRows
  <2> QED
    BY <2>1, <2>2, <2>3, <2>4, <2>5 DEF AnchorsFit, OfDay, g, n, cols
<1> QED
  BY <1>1, <1>2, <1>12 DEF KeyedFits, UsersFit, InvitesFit, PresetsFit, ChartFit,
     ThresholdsFit, PressureFit, AnchorsFit, FallbacksFit, QuotesFit, VolumesFit,
     WholeVolumes, CorrectionsFit

LEMMA TypedFits ==
  ASSUME IInv, KeyedFits, TypeAnchor
  PROVE  KeyedFits'
<1>1. PICK s, x :
        /\ s \in Symbols /\ x = [s |-> s, day |-> Day, v |-> V, source |-> "manual", t |-> now]
        /\ Through("anchors", x, SetFuturePriceAnchor(Ensured(s).db, Ensured(s).id, x, now),
                   M!SetFuturePriceAnchor(mem, x, now))
  BY DEF TypeAnchor
<1>2. PICK e : e = Ensured(s)
  OBVIOUS
<1>3. /\ db' = SetFuturePriceAnchor(e.db, e.id, x, now) /\ cache' = e.cache
      /\ mem' = M!SetFuturePriceAnchor(mem, x, now)
      /\ log' = Append(log, x) /\ family = "anchors" /\ family' = family
  BY <1>1, <1>2 DEF Through, Calls
<1>4. x.s = s /\ x.day = Day
  BY <1>1
<1> DEFINE row == AnchorRow(e.id, x, now)
<1>5. /\ db'.underlyings = e.db.underlyings
      /\ db'.anchors = Upserted(db.anchors, {"uid", "day"}, row)
  BY <1>1, <1>2, <1>3, EnsuredTables DEF SetFuturePriceAnchor, NoTables
<1>6. row.uid = e.id /\ row.day = Day /\ \A a \in db.anchors : a.day = Day
  BY <1>3, <1>4 DEF AnchorRow, KeyedFits, AnchorsFit
<1> HIDE DEF row
<1>7. db'.anchors = {r \in db.anchors : r.uid # e.id} \cup {row}
  BY <1>5, <1>6 DEF Upserted
<1> QED
  BY <1>1, <1>2, <1>3, <1>4, <1>5, <1>7, AnchorSaved DEF row

LEMMA AutoFits ==
  ASSUME IInv, KeyedFits, NEW a \in Savers, AutoWrites(a)
  PROVE  KeyedFits'
<1> DEFINE x == [s |-> Future, day |-> Day, v |-> V, source |-> a, t |-> now]
<1>1. PICK e : e = Ensured(Future)
  OBVIOUS
<1>2. /\ db' = AddFuturePriceAnchorIfAbsent(e.db, e.id, x, now) /\ cache' = e.cache
      /\ mem' = M!AddFuturePriceAnchorIfAbsent(mem, x, now)
      /\ log' = Append(log, x) /\ family = "anchors" /\ family' = family
  BY <1>1 DEF AutoWrites, Calls, Ensured
<1>3. x.s = Future /\ x.day = Day /\ Future \in Symbols
  BY StorageAssumption DEF Future
<1> HIDE DEF x
<1> DEFINE m == mem.anchors
           f == OfDay(m)
           cols == {"v", "source", "at"}
<1>4. \E u \in e.db.underlyings : u.id = e.id
  BY <1>1, <1>2, <1>3, CachedRows
<1>5. /\ Mirrors(db.underlyings, db.anchors, f, cols)
      /\ \A k \in DOMAIN m : k = <<k[1], Day>>
      /\ \A r \in db.anchors : r.day = Day
  BY <1>2 DEF KeyedFits, AnchorsFit, OfDay
<1>6. e.db.anchors = db.anchors /\ DOMAIN e.db = DOMAIN NoTables
  BY <1>1, <1>3, EnsuredTables
<1>7. DOMAIN f = {k[1] : k \in DOMAIN m}
  BY DEF OfDay
<1> HIDE DEF f, m, cols
<1>8. Mirrors(e.db.underlyings, db.anchors, f, cols)
  BY <1>1, <1>3, <1>4, <1>5, MirrorKept
<1>9. \A u \in e.db.underlyings : u.symbol = Future <=> u.id = e.id
  BY <1>1, <1>3, EnsuredRows
<1>10. HasAnchor(e.db, e.id, Day) <=> Future \in DOMAIN f
  <2>1. ASSUME NEW r \in db.anchors, r.uid = e.id PROVE Future \in DOMAIN f
    BY <1>8, <1>9, <2>1 DEF Mirrors, Tells
  <2>2. ASSUME Future \in DOMAIN f PROVE \E r \in db.anchors : r.uid = e.id /\ r.day = Day
    BY <1>5, <1>8, <1>9, <2>2 DEF Mirrors
  <2> QED
    BY <1>6, <2>1, <2>2 DEF HasAnchor
<1>11. Future \in DOMAIN f <=> <<Future, Day>> \in DOMAIN m
  BY <1>5, <1>7
<1>12. CASE HasAnchor(e.db, e.id, Day)
  <2>1. db' = e.db
    BY <1>2, <1>3, <1>12 DEF AddFuturePriceAnchorIfAbsent
  <2>2. mem' = mem
    BY <1>2, <1>3, <1>10, <1>11, <1>12 DEF M!AddFuturePriceAnchorIfAbsent, m
  <2>3. /\ DOMAIN mem = DOMAIN M!InMemory /\ \E S : log' \in Seq(S)
        /\ \A r \in DOMAIN cache' : \E u \in db'.underlyings : u.symbol = r
    BY <1>1, <1>2, <1>3, <2>1, CachedRows, LogGrows DEF KeyedFits, Keyed
  <2>4. AnchorsFit'
    BY <1>2, <1>5, <1>6, <1>8, <2>1, <2>2, <2>3 DEF AnchorsFit, OfDay, f, m, cols
  <2> QED
    BY <1>2, <2>2, <2>3, <2>4 DEF KeyedFits, UsersFit, InvitesFit, PresetsFit, ChartFit,
       ThresholdsFit, PressureFit, AnchorsFit, FallbacksFit, QuotesFit, VolumesFit,
       WholeVolumes, CorrectionsFit
<1>13. CASE ~HasAnchor(e.db, e.id, Day)
  <2> DEFINE row == AnchorRow(e.id, x, now)
  <2>1. db' = [e.db EXCEPT !.anchors = @ \cup {row}]
    BY <1>2, <1>3, <1>13 DEF AddFuturePriceAnchorIfAbsent
  <2>2. db'.underlyings = e.db.underlyings /\ db'.anchors = db.anchors \cup {row}
    BY <1>6, <2>1 DEF NoTables
  <2>3. \A r \in db.anchors : r.uid # e.id
    BY <1>5, <1>6, <1>13 DEF HasAnchor
  <2>4. db'.anchors = {r \in db.anchors : r.uid # e.id} \cup {row}
    BY <2>2, <2>3
  <2>5. mem' = M!SetFuturePriceAnchor(mem, x, now)
    BY <1>2, <1>3, <1>10, <1>11, <1>13 DEF M!AddFuturePriceAnchorIfAbsent, m
  <2> QED
    BY <1>1, <1>2, <1>3, <2>2, <2>4, <2>5, AnchorSaved
<1> QED
  BY <1>12, <1>13
\* The greatest number of a set is its maximum.
LEMMA MaxIs ==
  ASSUME NEW S, S \subseteq Int, NEW a \in S, \A y \in S : y <= a
  PROVE  Max(S) = a
<1>1. \A x \in S : (\A y \in S : x >= y) => x = a
  OBVIOUS
<1>2. \A y \in S : a >= y
  OBVIOUS
<1> QED
  BY <1>1, <1>2 DEF Max

\* On one trade date the row of an option grows from the one it had.
LEMMA GrownDoes ==
  ASSUME NEW rows, NEW x, NEW at, NEW cutoff, \A r \in rows : r.at >= cutoff
  PROVE  Grown(rows, x, at, cutoff) = {r \in rows : r.occ # x.occ}
            \cup {[occ |-> x.occ, v |-> Max({x.v} \cup {r.v : r \in {r \in rows : r.occ = x.occ}}),
                   at |-> at]}
<1>1. {r \in rows : r.occ = x.occ /\ r.at >= cutoff} = {r \in rows : r.occ = x.occ}
  OBVIOUS
<1>2. PICK row : row = [occ |-> x.occ, v |-> Max({x.v} \cup {r.v : r \in {r \in rows : r.occ = x.occ}}),
                       at |-> at]
  OBVIOUS
<1>3. Grown(rows, x, at, cutoff) = Upserted(rows, {"occ"}, row)
  BY <1>1, <1>2 DEF Grown
<1>4. row.occ = x.occ
  BY <1>2
<1> QED
  BY <1>2, <1>3, <1>4 DEF Upserted

\* What a save of a volume does to the log, and what it keeps of the conditions.
LEMMA VolumeLogged ==
  ASSUME KeyedFits, family \in {"volumes", "corrections"}, family' = family, now' = now,
         NEW o, NEW v \in Int, now \in Int,
         log' = Append(log, [occ |-> o, v |-> v, t |-> now])
  PROVE  /\ \E S : log' \in Seq(S)
         /\ WholeVolumes'
         /\ \A i \in DOMAIN log : i \in DOMAIN log' /\ log'[i] = log[i]
         /\ \E i \in DOMAIN log' : log'[i].occ = o /\ log'[i].t = now /\ log'[i].v = v
         /\ OneDay' => OneDay
         /\ Growing' => Growing /\ \A i \in DOMAIN log : log[i].occ = o => log[i].v <= v
<1>1. PICK x : x = [occ |-> o, v |-> v, t |-> now]
  OBVIOUS
<1>2. x.occ = o /\ x.v = v /\ x.t = now /\ log' = Append(log, x)
  BY <1>1
<1>3. PICK n : n = Len(log) + 1
  OBVIOUS
<1>4. /\ \E S : log' \in Seq(S)
      /\ DOMAIN log' = DOMAIN log \cup {n} /\ n \notin DOMAIN log
      /\ \A i \in DOMAIN log : log'[i] = log[i] /\ i < n
      /\ log'[n] = x
  BY <1>2, <1>3, LogGrows DEF KeyedFits, Keyed
<1>5. WholeVolumes'
  BY <1>2, <1>4 DEF KeyedFits, WholeVolumes
<1>6. OneDay' => OneDay
  BY <1>4 DEF OneDay, Cutoff
<1>7. Growing' => Growing
  BY <1>4 DEF Growing
<1>8. ASSUME Growing', NEW i \in DOMAIN log, log[i].occ = o PROVE log[i].v <= v
  BY <1>2, <1>4, <1>8 DEF Growing
<1> QED
  BY <1>2, <1>4, <1>5, <1>6, <1>7, <1>8

LEMMA VolumesFits ==
  ASSUME IInv, KeyedFits, Volume
  PROVE  KeyedFits'
<1>1. PICK o \in {"c1", "c2"}, v \in 1..2 : \E x :
        /\ x = [occ |-> o, v |-> v, t |-> now]
        /\ \/ Directly("volumes", x, SaveCumulativeVolumes(db, x, now, Cutoff),
                       M!SaveCumulativeVolumes(mem, x))
           \/ Directly("corrections", x, SaveVolumeCorrections(db, x, now, Cutoff),
                       M!SaveVolumeCorrections(mem, x))
  BY DEF Volume
<1> DEFINE x == [occ |-> o, v |-> v, t |-> now]
<1>2. /\ log' = Append(log, [occ |-> o, v |-> v, t |-> now]) /\ now' = now /\ family' = family
      /\ \/ /\ family = "volumes" /\ db' = SaveCumulativeVolumes(db, x, now, Cutoff)
            /\ mem' = M!SaveCumulativeVolumes(mem, x)
         \/ /\ family = "corrections" /\ db' = SaveVolumeCorrections(db, x, now, Cutoff)
            /\ mem' = M!SaveVolumeCorrections(mem, x)
  BY <1>1 DEF Directly, Calls
<1>3. /\ DOMAIN mem = DOMAIN M!InMemory /\ DOMAIN db = DOMAIN NoTables
      /\ v \in Int /\ now \in Int
  BY <1>2, StorageAssumption DEF KeyedFits, Keyed, IInv, Tables
<1>4. /\ \E S : log' \in Seq(S)
      /\ WholeVolumes'
      /\ \A i \in DOMAIN log : i \in DOMAIN log' /\ log'[i] = log[i]
      /\ \E i \in DOMAIN log' : log'[i].occ = o /\ log'[i].t = now /\ log'[i].v = v
      /\ OneDay' => OneDay
      /\ Growing' => Growing /\ \A i \in DOMAIN log : log[i].occ = o => log[i].v <= v
  <2>1. family \in {"volumes", "corrections"}
    BY <1>2
  <2> QED
    BY <1>2, <1>3, <2>1, VolumeLogged
<1>5. x.occ = o /\ x.v = v
  OBVIOUS
<1> HIDE DEF x
<1>6. CASE family = "volumes"
  <2> DEFINE f == mem.volumes
             g == mem'.volumes
             rows == db.volumes
             row == [occ |-> o, v |-> v, at |-> now]
  <2>1. g = M!Put(f, o, v) /\ DOMAIN mem' = DOMAIN mem
    BY <1>2, <1>3, <1>5, <1>6 DEF M!SaveCumulativeVolumes, M!InMemory
  <2>2. db'.volumes = Grown(rows, x, now, Cutoff)
    BY <1>2, <1>3, <1>6 DEF SaveCumulativeVolumes, NoTables
  <2>3. ASSUME OneDay', Growing' PROVE VolumesFit'
    <3>1. /\ \A r \in rows : r.v \in Int /\ \E i \in DOMAIN log :
               log[i].occ = r.occ /\ log[i].t = r.at /\ log[i].v = r.v
          /\ {[occ |-> r.occ, v |-> r.v] : r \in rows} = {[occ |-> k, v |-> f[k]] : k \in DOMAIN f}
      BY <1>4, <1>6, <2>3 DEF KeyedFits, VolumesFit
    <3>2. \A r \in rows : r.at >= Cutoff
      BY <1>4, <2>3, <3>1 DEF OneDay
    <3>3. Max({v} \cup {r.v : r \in {r \in rows : r.occ = o}}) = v
      <4> DEFINE S == {v} \cup {r.v : r \in {r \in rows : r.occ = o}}
      <4>1. S \subseteq Int /\ v \in S /\ \A y \in S : y <= v
        <5>1. ASSUME NEW r \in rows, r.occ = o PROVE r.v \in Int /\ r.v <= v
          BY <1>4, <2>3, <3>1, <5>1
        <5> HIDE DEF rows
        <5> QED
          BY <1>3, <5>1
      <4> HIDE DEF S
      <4>2. Max(S) = v
        BY <4>1, MaxIs
      <4> QED
        BY <4>2 DEF S
    <3>4. db'.volumes = {r \in rows : r.occ # o} \cup {row}
      BY SMTT(30), <1>5, <2>2, <3>2, <3>3, GrownDoes
    <3>5. /\ DOMAIN g = DOMAIN f \cup {o} /\ g[o] = v
          /\ \A k \in DOMAIN f : k # o => g[k] = f[k]
      BY <2>1 DEF M!Put
    <3>6. row.occ = o /\ row.v = v /\ row.at = now
      OBVIOUS
    <3> HIDE DEF f, g, rows, row
    <3>7. \A r \in db'.volumes : r.v \in Int /\ \E i \in DOMAIN log' :
             log'[i].occ = r.occ /\ log'[i].t = r.at /\ log'[i].v = r.v
      <4>1. ASSUME NEW r \in rows
            PROVE  r.v \in Int /\ \E i \in DOMAIN log' :
                      log'[i].occ = r.occ /\ log'[i].t = r.at /\ log'[i].v = r.v
        BY <1>4, <3>1
      <4>2. row.v \in Int /\ \E i \in DOMAIN log' :
               log'[i].occ = row.occ /\ log'[i].t = row.at /\ log'[i].v = row.v
        BY <1>3, <1>4, <3>6
      <4> QED
        BY <3>4, <4>1, <4>2
    <3>8. {[occ |-> r.occ, v |-> r.v] : r \in db'.volumes}
            = {[occ |-> k, v |-> g[k]] : k \in DOMAIN g}
      <4>1. {[occ |-> r.occ, v |-> r.v] : r \in {r \in rows : r.occ # o} \cup {row}}
              = {[occ |-> r.occ, v |-> r.v] : r \in {r \in rows : r.occ # o}}
                  \cup {[occ |-> o, v |-> v]}
        BY <3>6
      <4>2. {[occ |-> k, v |-> g[k]] : k \in DOMAIN g}
              = {[occ |-> k, v |-> f[k]] : k \in DOMAIN f \ {o}} \cup {[occ |-> o, v |-> v]}
        BY <3>5
      <4>3. {[occ |-> r.occ, v |-> r.v] : r \in {r \in rows : r.occ # o}}
              = {p \in {[occ |-> r.occ, v |-> r.v] : r \in rows} : p.occ # o}
        OBVIOUS
      <4>4. {[occ |-> k, v |-> f[k]] : k \in DOMAIN f \ {o}}
              = {p \in {[occ |-> k, v |-> f[k]] : k \in DOMAIN f} : p.occ # o}
        OBVIOUS
      <4> QED
        BY <3>1, <3>4, <4>1, <4>2, <4>3, <4>4
    <3> QED
      BY <3>7, <3>8 DEF VolumesFit, g
  <2> QED
    BY <1>2, <1>3, <1>4, <1>6, <2>1, <2>3 DEF KeyedFits, UsersFit, InvitesFit, PresetsFit,
       ChartFit, ThresholdsFit, PressureFit, AnchorsFit, FallbacksFit, QuotesFit, VolumesFit,
       CorrectionsFit
<1>7. CASE family = "corrections"
  <2> DEFINE f == mem.corrections
             g == mem'.corrections
             rows == db.corrections
             top == M!Max({v} \cup M!Get(f, o))
             row == [occ |-> o, v |-> top, at |-> now]
  <2>1. g = M!Put(f, o, top) /\ DOMAIN mem' = DOMAIN mem
    BY <1>2, <1>3, <1>5, <1>7 DEF M!SaveVolumeCorrections, M!InMemory
  <2>2. db'.corrections = Grown(rows, x, now, Cutoff)
    BY <1>2, <1>3, <1>7 DEF SaveVolumeCorrections, NoTables
  <2>3. ASSUME OneDay' PROVE CorrectionsFit'
    <3>1. /\ \A r \in rows : \E i \in DOMAIN log : log[i].occ = r.occ /\ log[i].t = r.at
          /\ {[occ |-> r.occ, v |-> r.v] : r \in rows} = {[occ |-> k, v |-> f[k]] : k \in DOMAIN f}
      BY <1>4, <1>7, <2>3 DEF KeyedFits, CorrectionsFit
    <3>2. \A r \in rows : r.at >= Cutoff
      BY <1>4, <2>3, <3>1 DEF OneDay
    <3>3. Max({v} \cup {r.v : r \in {r \in rows : r.occ = o}}) = top
      <4>1. ASSUME NEW r \in rows, r.occ = o PROVE r.v \in M!Get(f, o)
        <5>1. [occ |-> r.occ, v |-> r.v] \in {[occ |-> k, v |-> f[k]] : k \in DOMAIN f}
          BY <3>1
        <5>2. PICK k \in DOMAIN f : [occ |-> r.occ, v |-> r.v] = [occ |-> k, v |-> f[k]]
          BY <5>1
        <5> HIDE DEF f
        <5>3. k = o /\ r.v = f[k]
          BY <4>1, <5>2
        <5> QED
          BY <5>3 DEF M!Get
      <4>2. ASSUME NEW w \in M!Get(f, o) PROVE \E r \in rows : r.occ = o /\ w = r.v
        <5>1. o \in DOMAIN f /\ w = f[o]
          BY DEF M!Get
        <5>2. [occ |-> o, v |-> f[o]] \in {[occ |-> r.occ, v |-> r.v] : r \in rows}
          BY <3>1, <5>1
        <5> HIDE DEF f, rows
        <5> QED
          BY <5>1, <5>2
      <4>3. {r.v : r \in {r \in rows : r.occ = o}} = M!Get(f, o)
        <5> HIDE DEF f, rows
        <5> QED
          BY <4>1, <4>2
      <4>4. \A S : Max(S) = M!Max(S)
        BY DEF Max, M!Max
      <4> QED
        BY <4>3, <4>4
    <3> HIDE DEF top, rows
    <3>4. db'.corrections = {r \in rows : r.occ # o} \cup {row}
      BY <1>5, <2>2, <3>2, <3>3, GrownDoes
    <3>5. /\ DOMAIN g = DOMAIN f \cup {o} /\ g[o] = top
          /\ \A k \in DOMAIN f : k # o => g[k] = f[k]
      BY <2>1 DEF M!Put
    <3>6. row.occ = o /\ row.v = top /\ row.at = now
      OBVIOUS
    <3> HIDE DEF f, g, row
    <3>7. \A r \in db'.corrections : \E i \in DOMAIN log' :
             log'[i].occ = r.occ /\ log'[i].t = r.at
      BY <1>4, <3>1, <3>4, <3>6
    <3>8. {[occ |-> r.occ, v |-> r.v] : r \in db'.corrections}
            = {[occ |-> k, v |-> g[k]] : k \in DOMAIN g}
      <4>1. {[occ |-> r.occ, v |-> r.v] : r \in {r \in rows : r.occ # o} \cup {row}}
              = {[occ |-> r.occ, v |-> r.v] : r \in {r \in rows : r.occ # o}}
                  \cup {[occ |-> o, v |-> top]}
        BY <3>6
      <4>2. {[occ |-> k, v |-> g[k]] : k \in DOMAIN g}
              = {[occ |-> k, v |-> f[k]] : k \in DOMAIN f \ {o}} \cup {[occ |-> o, v |-> top]}
        BY <3>5
      <4>3. {[occ |-> r.occ, v |-> r.v] : r \in {r \in rows : r.occ # o}}
              = {p \in {[occ |-> r.occ, v |-> r.v] : r \in rows} : p.occ # o}
        OBVIOUS
      <4>4. {[occ |-> k, v |-> f[k]] : k \in DOMAIN f \ {o}}
              = {p \in {[occ |-> k, v |-> f[k]] : k \in DOMAIN f} : p.occ # o}
        OBVIOUS
      <4> QED
        BY <3>1, <3>4, <4>1, <4>2, <4>3, <4>4
    <3> QED
      BY <3>7, <3>8 DEF CorrectionsFit, g
  <2> QED
    BY <1>2, <1>3, <1>4, <1>7, <2>1, <2>3 DEF KeyedFits, UsersFit, InvitesFit, PresetsFit,
       ChartFit, ThresholdsFit, PressureFit, AnchorsFit, FallbacksFit, QuotesFit, VolumesFit,
       CorrectionsFit
<1> QED
  BY <1>2, <1>6, <1>7
-----------------------------------------------------------------------------
\* Any step keeps the fit, and it holds at the start.
LEMMA KeyedStep == IInv /\ KeyedFits /\ [Next]_vars => KeyedFits'
<1> SUFFICES ASSUME IInv, KeyedFits, [Next]_vars PROVE KeyedFits'
  OBVIOUS
<1>1. CASE family \notin Keyed
  <2>1. family' = family
    BY OtherStepsAreQuiet, TypeAnchorDoes, AutoWritesDoes DEF Quiet, Onward, AutoReads
  <2> QED
    BY <1>1, <2>1 DEF KeyedFits, Keyed, UsersFit, InvitesFit, PresetsFit, ChartFit,
       ThresholdsFit, PressureFit, AnchorsFit, FallbacksFit, QuotesFit, VolumesFit,
       WholeVolumes, CorrectionsFit
<1>2. CASE family \in Keyed
  <2>1. ASSUME UNCHANGED <<db, mem, log, cache>>, Onward PROVE KeyedFits'
    <3>1. UsersFit' /\ InvitesFit' /\ PresetsFit' /\ ChartFit' /\ ThresholdsFit' /\ PressureFit'
          /\ AnchorsFit' /\ FallbacksFit' /\ QuotesFit' /\ WholeVolumes'
      BY <2>1 DEF Onward, KeyedFits, UsersFit, InvitesFit, PresetsFit, ChartFit, ThresholdsFit,
         PressureFit, AnchorsFit, FallbacksFit, QuotesFit, WholeVolumes, MadeOnce, Made, Rowed
    <3>2. family \in {"volumes", "corrections"} /\ OneDay' => OneDay
      <4> SUFFICES ASSUME family \in {"volumes", "corrections"}, OneDay' PROVE OneDay
        OBVIOUS
      <4>1. now \in Nat /\ now \in 0..MaxNow + 1 /\ now' \in 0..MaxNow + 1
        BY <2>1, StorageAssumption DEF IInv, Tables, Onward
      <4>2. Cutoff \in Int /\ Cutoff' \in Int /\ Cutoff <= Cutoff'
        <5>1. Cutoff = (now \div 2) * 2 /\ Cutoff' = (now' \div 2) * 2
          BY <4>1 DEF Cutoff, DayOf, DayLength
        <5>2. now' = now \/ now' = now + 1
          BY <2>1 DEF Onward
        <5>3. \A n \in Nat : /\ n \div 2 \in Int /\ (n + 1) \div 2 \in Int
                              /\ n \div 2 <= (n + 1) \div 2
          OBVIOUS
        <5>4. now \div 2 \in Int /\ now' \div 2 \in Int /\ now \div 2 <= now' \div 2
          <6>1. CASE now' = now + 1
            BY <4>1, <5>3, <6>1
          <6>2. CASE now' = now
            BY <4>1, <5>3, <6>2
          <6> QED
            BY <5>2, <6>1, <6>2
        <5> QED
          BY <5>1, <5>4
      <4> QED
        BY <2>1, <4>2 DEF OneDay, KeyedFits, WholeVolumes
    <3>3. Growing' => Growing
      BY <2>1 DEF Growing
    <3>4. VolumesFit' /\ CorrectionsFit'
      BY <2>1, <3>2, <3>3 DEF Onward, KeyedFits, VolumesFit, CorrectionsFit
    <3> QED
      BY <2>1, <3>1, <3>4 DEF KeyedFits, Onward
  <2>2. ASSUME Feed PROVE KeyedFits'
    <3>1. PICK s \in {"ES", "NQ"}, t \in Times, index \in {{}, {V}} : \E x :
            /\ x = [s |-> s, t |-> t, v |-> V, index |-> index]
            /\ \/ Directly("fallbacks", x, SaveFallback(SaveIndexPriceFallback(db, x), x),
                           M!SaveIndexPriceFallback(mem, x))
               \/ Directly("quotes", x, SaveFuturesLiveQuote(db, x),
                           M!SaveFuturesLiveQuote(mem, x))
               \/ family \in {"fbars", "events"}
      BY <2>2 DEF Feed, Directly, Calls
    <3> QED
      BY <1>2, <3>1, FallbacksFits, QuotesFits DEF Keyed
  <2> QED
    BY <1>2, <2>1, <2>2, KeyedSteps, ThresholdFits, UsersFits, InvitesFits, PresetsFits,
       ChartFits, PressureFits, VolumesFits, TypedFits, AutoFits
<1> QED
  BY <1>1, <1>2

LEMMA KeyedAtStart ==
  ASSUME Init
  PROVE  KeyedFits
<1>1. CASE family \notin Keyed
  BY <1>1 DEF KeyedFits, Keyed, UsersFit, InvitesFit, PresetsFit, ChartFit,
     ThresholdsFit, PressureFit, AnchorsFit, FallbacksFit, QuotesFit, VolumesFit,
     WholeVolumes, CorrectionsFit
<1>2. CASE family \in Keyed
  <2>1. db = SeededTables /\ mem = M!InMemory /\ log = <<>> /\ cache = <<>>
    BY <1>2 DEF Init, Keyed
  <2>2. /\ db.users = {} /\ db.invites = {} /\ db.presets = {} /\ db.chart = {}
        /\ db.pressure = {} /\ db.anchors = {} /\ db.fallbacks = {} /\ db.quotes = {}
        /\ db.volumes = {} /\ db.corrections = {}
    BY <2>1 DEF SeededTables, NoTables
  <2>3. /\ mem.users = <<>> /\ mem.invites = <<>> /\ mem.presets = <<>> /\ mem.chart = <<>>
        /\ mem.pressure = <<>> /\ mem.anchors = <<>> /\ mem.fallbacks = <<>>
        /\ mem.quotes = <<>> /\ mem.volumes = <<>> /\ mem.corrections = <<>>
        /\ mem.thresholds = [s \in Configured |-> 0] /\ DOMAIN mem = DOMAIN M!InMemory
    BY <2>1 DEF M!InMemory
  <2>4. DOMAIN <<>> = {} /\ <<>> \in Seq({})
    OBVIOUS
  <2>5. ThresholdsFit
    <3> DEFINE unders == {[id |-> SeedIds[s], symbol |-> s, kind |-> KindOf(s)] : s \in Seeded}
               rows == {[uid |-> SeedIds[s], v |-> 0] : s \in Seeded \cap Configured}
               f == [s \in DOMAIN mem.thresholds \cap Rowed |-> [v |-> mem.thresholds[s]]]
    <3>1. db.underlyings = unders /\ db.thresholds = rows
      BY <2>1 DEF SeededTables, NoTables
    <3>2. DOMAIN f = Seeded \cap Configured /\ \A s \in DOMAIN f : f[s] = [v |-> 0]
      BY <2>1, <2>3, <2>4 DEF Rowed
    <3> HIDE DEF f
    <3>3. ASSUME NEW r \in rows PROVE \E u \in unders : u.id = r.uid /\ Tells(r, f, u.symbol, {"v"})
      <4>1. PICK s \in Seeded \cap Configured : r = [uid |-> SeedIds[s], v |-> 0]
        OBVIOUS
      <4>2. PICK u : u = [id |-> SeedIds[s], symbol |-> s, kind |-> KindOf(s)]
        OBVIOUS
      <4>3. u \in unders /\ u.id = r.uid /\ u.symbol = s
        BY <4>1, <4>2
      <4>4. Tells(r, f, s, {"v"})
        BY <3>2, <4>1 DEF Tells
      <4> QED
        BY <4>3, <4>4
    <3>4. ASSUME NEW s \in DOMAIN f PROVE \E r \in rows, u \in unders : u.id = r.uid /\ u.symbol = s
      <4>1. s \in Seeded \cap Configured
        BY <3>2
      <4>2. PICK u, r : /\ u = [id |-> SeedIds[s], symbol |-> s, kind |-> KindOf(s)]
                        /\ r = [uid |-> SeedIds[s], v |-> 0]
        OBVIOUS
      <4> QED
        BY <4>1, <4>2
    <3> HIDE DEF unders, rows
    <3>5. Mirrors(unders, rows, f, {"v"})
      BY <3>3, <3>4 DEF Mirrors
    <3> QED
      BY <3>1, <3>5 DEF ThresholdsFit, f
  <2>6. UsersFit
    BY <2>1, <2>2, <2>3, <2>4, FS_EmptySet DEF UsersFit, Made
  <2>7. AnchorsFit /\ PressureFit
    BY <2>1, <2>2, <2>3, <2>4 DEF AnchorsFit, PressureFit, Mirrors
  <2>8. InvitesFit /\ PresetsFit /\ ChartFit /\ FallbacksFit /\ QuotesFit
    BY <2>2, <2>3, <2>4 DEF InvitesFit, PresetsFit, ChartFit, FallbacksFit, QuotesFit
  <2>9. WholeVolumes /\ VolumesFit /\ CorrectionsFit
    BY <2>1, <2>2, <2>3, <2>4 DEF WholeVolumes, VolumesFit, CorrectionsFit
  <2> QED
    BY <2>1, <2>3, <2>4, <2>5, <2>6, <2>7, <2>8, <2>9 DEF KeyedFits
<1> QED
  BY <1>1, <1>2
-----------------------------------------------------------------------------
\* Tables and dictionaries that fit each other answer alike.
LEMMA AccountsAlike == IInv /\ KeyedFits => SameAccounts
<1> SUFFICES ASSUME IInv, KeyedFits PROVE SameAccounts
  OBVIOUS
<1>1. ASSUME family = "users", MadeOnce, NEW name
      PROVE  GetUserByUsername(db, name) = M!GetUserByUsername(mem, name)
  <2>1. /\ db.users = {mem.users[n] : n \in DOMAIN mem.users}
        /\ \A n \in DOMAIN mem.users : mem.users[n].name = n
    BY <1>1 DEF KeyedFits, UsersFit
  <2>2. M!Normal(name) = Normal(name)
    BY DEF Normal, M!Normal
  <2> QED
    BY <2>1, <2>2 DEF GetUserByUsername, M!GetUserByUsername, M!Get
<1>2. ASSUME family = "invites", NEW token
      PROVE  GetInviteByToken(db, token) = M!GetInviteByToken(mem, token)
  BY <1>2 DEF KeyedFits, InvitesFit, GetInviteByToken, M!GetInviteByToken, M!Get
<1>3. ASSUME family = "presets", NEW p
      PROVE  GetScreenerPresetSettings(db, p) = M!GetScreenerPresetSettings(mem, p)
  <2> DEFINE f == mem.presets
             rows == {r \in db.presets : r.preset = p}
  <2>1. /\ DOMAIN f \subseteq {"board", "leaders"}
        /\ \A k \in DOMAIN f : f[k] \in Parameters(k)
        /\ db.presets = {[preset |-> k, parameters |-> ToJson(k, f[k])] : k \in DOMAIN f}
    BY <1>3 DEF KeyedFits, PresetsFit
  <2> HIDE DEF f
  <2>2. CASE p \in DOMAIN f
    <3>1. rows = {[preset |-> p, parameters |-> ToJson(p, f[p])]}
      BY <2>1, <2>2
    <3>2. FromJson(p, ToJson(p, f[p])) = f[p]
      BY <2>1, <2>2, PresetRoundTrip
    <3> HIDE DEF rows
    <3>3. {FromJson(p, r.parameters) : r \in rows} = {f[p]}
      BY <3>1, <3>2
    <3> QED
      BY <2>2, <3>3 DEF GetScreenerPresetSettings, M!GetScreenerPresetSettings, M!Get, rows, f
  <2>3. CASE p \notin DOMAIN f
    <3>1. rows = {}
      BY <2>1, <2>3
    <3> HIDE DEF rows
    <3>2. {FromJson(p, r.parameters) : r \in rows} = {}
      BY <3>1
    <3> QED
      BY <2>3, <3>2 DEF GetScreenerPresetSettings, M!GetScreenerPresetSettings, M!Get, rows, f
  <2> QED
    BY <2>2, <2>3
<1>4. ASSUME family = "chart", NEW u
      PROVE  GetUserChartSettings(db, u) = M!GetUserChartSettings(mem, u)
  <2> DEFINE f == mem.chart
  <2>1. db.chart = {[user |-> k, v |-> f[k]] : k \in DOMAIN f}
    BY <1>4 DEF KeyedFits, ChartFit
  <2>2. GetUserChartSettings(db, u) = {r.v : r \in {r \in db.chart : r.user = u}}
    BY DEF GetUserChartSettings
  <2>3. M!GetUserChartSettings(mem, u) = IF u \in DOMAIN f THEN {f[u]} ELSE {}
    BY DEF M!GetUserChartSettings, M!Get
  <2> HIDE DEF f
  <2>4. {r \in db.chart : r.user = u} = IF u \in DOMAIN f THEN {[user |-> u, v |-> f[u]]} ELSE {}
    BY <2>1
  <2>10. CASE u \in DOMAIN f
    <3>1. PICK row : row = [user |-> u, v |-> f[u]]
      OBVIOUS
    <3>2. {r \in db.chart : r.user = u} = {row} /\ row.v = f[u]
      BY <2>4, <2>10, <3>1
    <3> QED
      BY <2>2, <2>3, <2>10, <3>2
  <2>11. CASE u \notin DOMAIN f
    BY <2>2, <2>3, <2>4, <2>11
  <2> QED
    BY <2>10, <2>11
<1>5. ASSUME family = "threshold"
      PROVE  GetWhaleThresholds(db) = {w \in M!GetWhaleThresholds(mem) : w.s \in Rowed}
  <2> DEFINE f == [s \in DOMAIN mem.thresholds \cap Rowed |-> [v |-> mem.thresholds[s]]]
             pairs == {p \in db.underlyings \X db.thresholds : p[1].id = p[2].uid}
  <2>1. Mirrors(db.underlyings, db.thresholds, f, {"v"})
    BY <1>5 DEF KeyedFits, ThresholdsFit
  <2>2. {w \in M!GetWhaleThresholds(mem) : w.s \in Rowed}
          = {[s |-> s, v |-> f[s].v] : s \in DOMAIN f}
    <3> DEFINE t == mem.thresholds
    <3>1. M!GetWhaleThresholds(mem) = {[s |-> s, v |-> t[s]] : s \in DOMAIN t}
      BY DEF M!GetWhaleThresholds
    <3>2. f = [s \in DOMAIN t \cap Rowed |-> [v |-> t[s]]]
      OBVIOUS
    <3> HIDE DEF t, f
    <3>3. DOMAIN f = DOMAIN t \cap Rowed /\ \A s \in DOMAIN f : f[s].v = t[s]
      BY <3>2
    <3> QED
      BY <3>1, <3>3
  <2>3. GetWhaleThresholds(db) = {[s |-> p[1].symbol, v |-> p[2].v] : p \in pairs}
    BY DEF GetWhaleThresholds
  <2>4. \A u, w \in db.underlyings : u.id = w.id => u = w
    BY DEF IInv, IdsFit
  <2> HIDE DEF f
  <2>5. ASSUME NEW p \in pairs PROVE p[1].symbol \in DOMAIN f /\ p[2].v = f[p[1].symbol].v
    <3>1. p[1] \in db.underlyings /\ p[2] \in db.thresholds /\ p[1].id = p[2].uid
      OBVIOUS
    <3>2. PICK u \in db.underlyings : u.id = p[2].uid /\ Tells(p[2], f, u.symbol, {"v"})
      BY <2>1, <3>1 DEF Mirrors
    <3>3. u = p[1]
      BY <2>4, <3>1, <3>2
    <3> QED
      BY <3>2, <3>3 DEF Tells
  <2>6. ASSUME NEW s \in DOMAIN f PROVE \E p \in pairs : p[1].symbol = s
    <3>1. PICK r \in db.thresholds, u \in db.underlyings : u.id = r.uid /\ u.symbol = s
      BY <2>1 DEF Mirrors
    <3>2. <<u, r>> \in pairs
      BY <3>1
    <3> QED
      BY <3>1, <3>2
  <2> HIDE DEF pairs
  <2> QED
    BY <2>2, <2>3, <2>5, <2>6
<1>6. {l.s : l \in ListUnderlyings(db)} = M!ListUnderlyings
  <2> DEFINE listed == {[s |-> u.symbol, kind |-> u.kind] :
                          u \in {u \in db.underlyings : u.symbol \in Configured}}
             rest == {[s |-> s, kind |-> KindOf(s)] : s \in Configured \ {l.s : l \in listed}}
  <2>1. ListUnderlyings(db) = listed \cup rest
    BY DEF ListUnderlyings
  <2>2. \A l \in listed : l.s \in Configured
    OBVIOUS
  <2>3. \A l \in rest : l.s \in Configured
    OBVIOUS
  <2>4. \A s \in Configured : s \in {l.s : l \in listed} \/ [s |-> s, kind |-> KindOf(s)] \in rest
    OBVIOUS
  <2>5. \A s \in Configured : [s |-> s, kind |-> KindOf(s)].s = s
    OBVIOUS
  <2> HIDE DEF listed, rest
  <2> QED
    BY <2>1, <2>2, <2>3, <2>4, <2>5 DEF M!ListUnderlyings
<1> QED
  BY <1>1, <1>2, <1>3, <1>4, <1>5, <1>6 DEF SameAccounts, MadeOnce, Made

LEMMA LatestAlike == IInv /\ KeyedFits => SameLatest
<1> SUFFICES ASSUME IInv, KeyedFits PROVE SameLatest
  OBVIOUS
<1>1. ASSUME family = "pressure", NEW s
      PROVE  Points(GetSymbolFlowPressure(db, s)) = Points(M!GetSymbolFlowPressure(mem, s))
  <2> DEFINE f == mem.pressure
             rows == OfSymbol(db, db.pressure, s)
             told == {Told(r) : r \in rows}
  <2>1. /\ Mirrors(db.underlyings, db.pressure, f, {"t", "v"})
        /\ \A r \in db.pressure : DOMAIN r = {"uid", "t", "v"}
    BY <1>1 DEF KeyedFits, PressureFit
  <2>2. /\ s \notin DOMAIN f => rows = {}
        /\ s \in DOMAIN f => rows # {}
        /\ \A r \in rows : r.t = f[s].t /\ r.v = f[s].v
    BY <2>1, MirrorTells
  <2>3. \A r \in rows : Told(r).t = r.t /\ Told(r).v = r.v
    BY <2>1 DEF OfSymbol, Told
  <2> HIDE DEF f, rows
  <2>4. \A p \in told : p.t = f[s].t /\ p.v = f[s].v
    BY <2>2, <2>3
  <2>5. told = {} <=> s \notin DOMAIN f
    BY <2>1, <2>2, MirrorTells DEF rows
  <2>6. Points(told) = IF s \in DOMAIN f THEN {[t |-> f[s].t, v |-> f[s].v]} ELSE {}
    <3> HIDE DEF told
    <3> QED
      BY <2>4, <2>5 DEF Points
  <2>7. Points(M!GetSymbolFlowPressure(mem, s))
          = IF s \in DOMAIN f THEN {[t |-> f[s].t, v |-> f[s].v]} ELSE {}
    BY DEF M!GetSymbolFlowPressure, M!Get, Points, f
  <2> QED
    BY <2>6, <2>7 DEF GetSymbolFlowPressure, rows
<1>2. ASSUME family = "anchors", NEW s
      PROVE  LET a == M!AnchorOf(mem, s, Day)
             IN  /\ GetFuturePriceAnchor(db, s, Day) = {x.v : x \in a}
                 /\ GetFuturePriceAnchorSource(db, s, Day) = {x.source : x \in a}
                 /\ GetFuturePriceAnchorSavedAt(db, s, Day) = {x.at : x \in a}
  <2> DEFINE m == mem.anchors
             f == OfDay(mem.anchors)
             rows == OfSymbol(db, db.anchors, s)
             a == M!AnchorOf(mem, s, Day)
  <2>1. /\ Mirrors(db.underlyings, db.anchors, f, {"v", "source", "at"})
        /\ \A k \in DOMAIN m : k = <<k[1], Day>>
        /\ \A r \in db.anchors : r.day = Day
    BY <1>2 DEF KeyedFits, AnchorsFit, OfDay
  <2>2. AnchorsOf(db, s, Day) = rows
    BY <2>1 DEF AnchorsOf, OfSymbol
  <2>3. /\ s \notin DOMAIN f => rows = {}
        /\ s \in DOMAIN f => rows # {}
        /\ \A r \in rows : r.v = f[s].v /\ r.source = f[s].source /\ r.at = f[s].at
    BY <2>1, MirrorTells
  <2>4. DOMAIN f = {k[1] : k \in DOMAIN m} /\ \A r \in DOMAIN f : f[r] = m[<<r, Day>>]
    BY DEF OfDay
  <2>5. s \in DOMAIN f <=> <<s, Day>> \in DOMAIN m
    <3> HIDE DEF f, m
    <3> QED
      BY <2>1, <2>4
  <2>6. a = IF s \in DOMAIN f THEN {f[s]} ELSE {}
    <3>1. a = IF <<s, Day>> \in DOMAIN m THEN {m[<<s, Day>>]} ELSE {}
      BY DEF M!AnchorOf, M!Get
    <3> HIDE DEF f, m, a
    <3> QED
      BY <2>4, <2>5, <3>1
  <2> HIDE DEF f, m, rows, a
  <2>7. {r.v : r \in rows} = {x.v : x \in a} /\ {r.source : r \in rows} = {x.source : x \in a}
        /\ {r.at : r \in rows} = {x.at : x \in a}
    <3>1. CASE s \in DOMAIN f
      BY <2>3, <2>6, <3>1
    <3>2. CASE s \notin DOMAIN f
      BY <2>3, <2>6, <3>2
    <3> QED
      BY <3>1, <3>2
  <2> QED
    BY <2>2, <2>7 DEF GetFuturePriceAnchor, GetFuturePriceAnchorSource,
       GetFuturePriceAnchorSavedAt, a
<1>3. ASSUME family = "fallbacks", NEW s
      PROVE  {r.v : r \in {r \in GetIndexPriceFallbacks(db) : r.s = s}}
               = {q.v : q \in {q \in M!GetIndexPriceFallbacks(mem) : q.s = s}}
  <2> DEFINE f == mem.fallbacks
  <2>1. /\ db.fallbacks = {[s |-> k, v |-> f[k].v] : k \in DOMAIN f}
        /\ \A k \in DOMAIN f : f[k].s = k
    BY <1>3 DEF KeyedFits, FallbacksFit
  <2>2. M!GetIndexPriceFallbacks(mem) = {f[k] : k \in DOMAIN f}
    BY DEF M!GetIndexPriceFallbacks
  <2> HIDE DEF f
  <2>3. {r \in db.fallbacks : r.s = s} = IF s \in DOMAIN f THEN {[s |-> s, v |-> f[s].v]} ELSE {}
    BY <2>1
  <2>4. {q \in {f[k] : k \in DOMAIN f} : q.s = s} = IF s \in DOMAIN f THEN {f[s]} ELSE {}
    BY <2>1
  <2>10. CASE s \in DOMAIN f
    <3>1. PICK row : row = [s |-> s, v |-> f[s].v]
      OBVIOUS
    <3>2. {r \in db.fallbacks : r.s = s} = {row} /\ row.v = f[s].v
      BY <2>3, <2>10, <3>1
    <3> QED
      BY <2>2, <2>4, <2>10, <3>2 DEF GetIndexPriceFallbacks
  <2>11. CASE s \notin DOMAIN f
    BY <2>2, <2>3, <2>4, <2>11 DEF GetIndexPriceFallbacks
  <2> QED
    BY <2>10, <2>11
<1>4. ASSUME family = "quotes", NEW s
      PROVE  Points(GetFuturesLiveQuote(db, s)) = Points(M!GetFuturesLiveQuote(mem, s))
  <2> DEFINE f == mem.quotes
  <2>1. db.quotes = {[s |-> k, t |-> f[k].t, v |-> f[k].v] : k \in DOMAIN f}
    BY <1>4 DEF KeyedFits, QuotesFit
  <2>2. M!GetFuturesLiveQuote(mem, s) = IF s \in DOMAIN f THEN {f[s]} ELSE {}
    BY DEF M!GetFuturesLiveQuote, M!Get
  <2> HIDE DEF f
  <2>3. GetFuturesLiveQuote(db, s)
          = IF s \in DOMAIN f THEN {[s |-> s, t |-> f[s].t, v |-> f[s].v]} ELSE {}
    BY <2>1 DEF GetFuturesLiveQuote
  <2>10. CASE s \in DOMAIN f
    BY <2>2, <2>3, <2>10 DEF Points
  <2>11. CASE s \notin DOMAIN f
    BY <2>2, <2>3, <2>11 DEF Points
  <2> QED
    BY <2>10, <2>11
<1> QED
  BY <1>1, <1>2, <1>3, <1>4 DEF SameLatest

LEMMA VolumesAlike == IInv /\ KeyedFits => SameVolumes
<1> SUFFICES ASSUME IInv, KeyedFits PROVE SameVolumes
  OBVIOUS
<1>1. ASSUME family = "volumes", OneDay, Growing, NEW occs
      PROVE  /\ GetCumulativeVolumes(db, occs, Cutoff) = M!GetCumulativeVolumes(mem, occs)
             /\ GetCumulativeVolumesSince(db, Cutoff) = M!GetCumulativeVolumesSince(mem)
  <2> DEFINE f == mem.volumes
             rows == db.volumes
  <2>1. /\ \A r \in rows : \E i \in DOMAIN log : log[i].t = r.at
        /\ {[occ |-> r.occ, v |-> r.v] : r \in rows} = {[occ |-> o, v |-> f[o]] : o \in DOMAIN f}
    BY <1>1 DEF KeyedFits, VolumesFit
  <2>2. {r \in rows : r.at >= Cutoff} = rows
    BY <1>1, <2>1 DEF OneDay
  <2>3. GetCumulativeVolumesSince(db, Cutoff) = {[occ |-> o, v |-> f[o]] : o \in DOMAIN f}
    BY <2>1, <2>2 DEF GetCumulativeVolumesSince
  <2>4. \A os : M!GetCumulativeVolumes(mem, os) = {[occ |-> o, v |-> f[o]] : o \in DOMAIN f \cap os}
    BY DEF M!GetCumulativeVolumes
  <2>5. M!GetCumulativeVolumesSince(mem) = {[occ |-> o, v |-> f[o]] : o \in DOMAIN f \cap DOMAIN f}
    BY <2>4 DEF M!GetCumulativeVolumesSince
  <2> HIDE DEF f
  <2>6. {r \in {[occ |-> o, v |-> f[o]] : o \in DOMAIN f} : r.occ \in occs}
          = {[occ |-> o, v |-> f[o]] : o \in DOMAIN f \cap occs}
    OBVIOUS
  <2> QED
    BY <2>3, <2>4, <2>5, <2>6 DEF GetCumulativeVolumes
<1>2. ASSUME family = "corrections", OneDay, NEW occs
      PROVE  GetVolumeCorrections(db, occs, Cutoff) = M!GetVolumeCorrections(mem, occs)
  <2> DEFINE f == mem.corrections
             rows == db.corrections
  <2>1. /\ \A r \in rows : \E i \in DOMAIN log : log[i].t = r.at
        /\ {[occ |-> r.occ, v |-> r.v] : r \in rows} = {[occ |-> o, v |-> f[o]] : o \in DOMAIN f}
    BY <1>2 DEF KeyedFits, CorrectionsFit
  <2>2. {r \in rows : r.occ \in occs /\ r.at >= Cutoff} = {r \in rows : r.occ \in occs}
    BY <1>2, <2>1 DEF OneDay
  <2>3. GetVolumeCorrections(db, occs, Cutoff)
          = {[occ |-> r.occ, v |-> r.v] : r \in {r \in rows : r.occ \in occs}}
    BY <2>2 DEF GetVolumeCorrections
  <2>4. M!GetVolumeCorrections(mem, occs) = {[occ |-> o, v |-> f[o]] : o \in DOMAIN f \cap occs}
    BY DEF M!GetVolumeCorrections
  <2> HIDE DEF f, rows
  <2>5. {[occ |-> r.occ, v |-> r.v] : r \in {r \in rows : r.occ \in occs}}
          = {p \in {[occ |-> r.occ, v |-> r.v] : r \in rows} : p.occ \in occs}
    OBVIOUS
  <2>6. {p \in {[occ |-> o, v |-> f[o]] : o \in DOMAIN f} : p.occ \in occs}
          = {[occ |-> o, v |-> f[o]] : o \in DOMAIN f \cap occs}
    OBVIOUS
  <2> QED
    BY <2>1, <2>3, <2>4, <2>5, <2>6
<1> QED
  BY <1>1, <1>2 DEF SameVolumes

\* InMemoryStorage, on which the tests run, answers as the tables do wherever a
\* table has one row per key that a save replaces: accounts, invites, presets
\* (there and back through JSON), chart settings, thresholds, flow pressure,
\* anchors, fallbacks, live quotes, volumes and their corrections.  Users are made
\* once and by a normal name, volumes belong to one trade date and grow, a
\* threshold is one of a symbol with a row: otherwise the two do differ.
THEOREM KeyedAnswersAlike == Spec => [](SameAccounts /\ SameLatest /\ SameVolumes)
<1>1. Init => KeyedFits
  BY KeyedAtStart
<1>2. IInv /\ KeyedFits /\ [Next]_vars => KeyedFits'
  BY KeyedStep
<1>3. IInv /\ KeyedFits => SameAccounts /\ SameLatest /\ SameVolumes
  BY AccountsAlike, LatestAlike, VolumesAlike
<1> QED
  BY <1>1, <1>2, <1>3, StorageInvariance, PTL DEF Spec
=============================================================================
