------------------------------ MODULE AsyncStorage ------------------------------
(***************************************************************************)
(* AsyncPostgreSQLStorage (src/backend/adapters/storage/                   *)
(* postgresql_async.py): the reads of the API and the writes of the stream *)
(* processor, in SQL mirrored by hand from postgresql.py, over the tables  *)
(* of PostgresStorage and those of the option minutes.                     *)
(***************************************************************************)
EXTENDS PostgresStorage

CONSTANT FastCandidates   \* FAST_LATEST_SNAPSHOT_CANDIDATES

LatestPrice(db, s) ==
  LET ids == {u.id : u \in {u \in db.underlyings : u.symbol = s}}
  IN  NewestFirst({p \in db.prices : p.uid \in ids}, 1)
PriceHistory(db, s, from, to) ==
  OldestFirst({p \in OfSymbol(db, db.prices, s) : p.t \in from..to})
LatestGamma(db, s, view) ==
  LET rows == {g \in OfSymbol(db, db.aggregates, s) : g.view = view}
      top  == IF rows = {} THEN {} ELSE {Max({g.t : g \in rows})}
  IN  {[t |-> g.t, v |-> g.v,
        items |-> {[strike |-> i.strike, v |-> i.v] :
                     i \in {i \in db.items : i.uid = g.uid /\ i.t = g.t /\ i.view = view}}] :
         g \in {g \in rows : g.t \in top}}
DailyBars(db, s, limit) == NewestFirst(OfSymbol(db, db.bars, s), limit)
DailyGammaReferences(db, s, limit) == NewestFirst(OfSymbol(db, db.references, s), limit)
RecentFlow(db, s, limit) ==
  LET occs == {c.occ : c \in OfSymbol(db, db.contracts, s)}
  IN  NewestFirst({f \in db.flow : f.occ \in occs}, limit)
RecentWhaleAlerts(db, s, since, limit) ==
  LET alerts == OfSymbol(db, db.alerts, s)
      shown  == IF LeeReadyOnly THEN {a \in alerts : a.from = "lee_ready"} ELSE alerts
  IN  NewestFirst({a \in shown : a.t >= since}, limit)
SymbolFlowPressure(db, s) == {Told(r) : r \in OfSymbol(db, db.pressure, s)}
VolumeCorrections(db, occs, cutoff) ==
  {[occ |-> r.occ, v |-> r.v] :
     r \in {r \in db.corrections : r.occ \in occs /\ r.at >= cutoff}}
FuturePriceAnchor(db, s, day) ==
  {a.v : a \in {a \in OfSymbol(db, db.anchors, s) : a.day = day}}
IndexPriceFallbacks(db) == db.fallbacks
SaveFallback(db, x) ==
  [db EXCEPT !.fallbacks = {f \in @ : f.s # x.s} \cup {[s |-> x.s, v |-> x.v]}]
FuturesLiveQuote(db, s) == {q \in db.quotes : q.s = s}
FuturesLiveBars(db, s, since) == OldestFirst({b \in db.fbars : b.s = s /\ b.t >= since})
FuturesEvents(db, s, from, to) ==
  OldestFirst({e \in db.events : e.s = s /\ e.t \in from..(to - 1)})

-----------------------------------------------------------------------------
\* The latest chain.  The fast tier looks for a save with several expirations
\* among the newest times of the symbol; rows from before migration 0036 have
\* no underlying_id and are not among them.
LookupUnderlyingId(db, cache, s) ==
  IF s \in DOMAIN cache THEN {cache[s]}
  ELSE {u.id : u \in {u \in db.underlyings : u.symbol = s}}
NewestTime(db, cache, s) ==
  LET mine == {r \in db.snapshots : r.uid \in LookupUnderlyingId(db, cache, s)}
  IN  IF mine = {} THEN {} ELSE {Max({r.t : r \in mine})}
LatestMultiExpirationTime(db, cache, s) ==
  LET mine   == {r \in db.snapshots : r.uid \in LookupUnderlyingId(db, cache, s)}
      times  == {r.t : r \in mine}
      newest == {t \in times : Cardinality({u \in times : u > t}) < FastCandidates}
      multi  == {t \in newest : Cardinality(Expirations(db, AtTime(mine, t))) > 1}
  IN  IF multi = {} THEN {} ELSE {Max(multi)}
LatestChain(db, cache, s) ==
  LET rows == RowsOf(db, s)
      fast == LatestMultiExpirationTime(db, cache, s)
      full == IF rows = {} THEN {} ELSE {LatestTime(db, rows)}
  IN  {r \in rows : r.t \in IF fast # {} THEN fast ELSE full}
LatestChainWith(db, s, exp) ==
  LET occs  == {c.occ : c \in {c \in db.contracts : c.exp = exp}}
      rows  == {r \in RowsOf(db, s) : r.occ \in occs}
  IN  {r \in rows : \A q \in rows : q.t <= r.t}

-----------------------------------------------------------------------------
\* Reads of the charts over the stored history.
LevelHistory(db, s, view, from, to) ==
  OldestFirst({g \in OfSymbol(db, db.aggregates, s) :
                 g.view = view /\ from <= g.t /\ g.t < to})
SessionDates(db, s, first, last, dayOf, inSession) ==
  {d \in first..last : \E p \in OfSymbol(db, db.prices, s) :
                         dayOf[p.t] = d /\ inSession[p.t]}

\* Candles of the last sessions with a price, and per bucket of time the last
\* stored value of each strike.
PriceCandles(db, s, bucket, sessions, since, dayOf, inSession) ==
  LET regular == {p \in OfSymbol(db, db.prices, s) : p.t >= since /\ inSession[p.t]}
      days    == {dayOf[p.t] : p \in regular}
      recent  == {d \in days : Cardinality({e \in days : e > d}) < sessions}
      shown   == {p \in regular : dayOf[p.t] \in recent}
      Candle(rows) == [open  |-> {p.v : p \in AtTime(rows, Min({p.t : p \in rows}))},
                       high  |-> Max({p.v : p \in rows}),
                       low   |-> Min({p.v : p \in rows}),
                       close |-> {p.v : p \in AtTime(rows, Max({p.t : p \in rows}))}]
  IN  {[t |-> b * bucket, candle |-> Candle({p \in shown : p.t \div bucket = b})] :
         b \in {p.t \div bucket : p \in shown}}
HeatmapOfFirst(db, s, view, rows, from, to, bucket) ==
  LET mine == {i \in OfSymbol(db, rows, s) : i.view = view /\ from <= i.t /\ i.t < to}
      In(b) == {i \in mine : i.t \div bucket = b}
  IN  {[t |-> Max({i.t : i \in In(b)}),
        cells |-> {[strike |-> i.strike, v |-> i.v] :
                     i \in {i \in In(b) : \A j \in In(b) : j.strike = i.strike => j.t >= i.t}}] :
         b \in {i.t \div bucket : i \in mine}}
GammaHeatmap(db, s, view, rows, from, to, bucket) ==
  LET mine == {i \in OfSymbol(db, rows, s) : i.view = view /\ from <= i.t /\ i.t < to}
      In(b) == {i \in mine : i.t \div bucket = b}
  IN  {[t |-> Max({i.t : i \in In(b)}),
        cells |-> {[strike |-> i.strike, v |-> i.v] :
                     i \in {i \in In(b) : \A j \in In(b) : j.strike = i.strike => j.t <= i.t}}] :
         b \in {i.t \div bucket : i \in mine}}

-----------------------------------------------------------------------------
\* The minutes of the stream processor.  A repeated quote minute is ignored, a
\* repeated flow cell is added to.
NoMinutes == [qminutes |-> {}, mflow |-> {}, sflow |-> {}, prints |-> {}]
SaveOptionQuoteMinutes(mt, x) ==
  [mt EXCEPT !.qminutes = IF \E r \in @ : r.t = x.t /\ r.occ = x.occ THEN @
                          ELSE @ \cup {[t |-> x.t, occ |-> x.occ, v |-> x.v]}]
OptionQuoteSymbols(mt, from, to) ==
  {r.occ : r \in {r \in mt.qminutes : from <= r.t /\ r.t < to}}
OptionQuoteMinutes(mt, occs, from, to) ==
  OldestFirst({r \in mt.qminutes : r.occ \in occs /\ from <= r.t /\ r.t < to})
LastOptionQuotes(mt, occs, from, to) ==
  LET rows == {r \in mt.qminutes : r.occ \in occs /\ from <= r.t /\ r.t < to}
  IN  {r \in rows : \A q \in rows : q.occ = r.occ => q.t <= r.t}

ReplacedBy(rows, key, x) == Upserted(rows, key, x)
AddedTo(rows, key, x) ==
  LET old == {r \in rows : \A k \in key : r[k] = x[k]}
  IN  (rows \ old) \cup {[x EXCEPT !.v = @ + MapThenSumSet(LAMBDA r : r.v, old)]}
SaveMinuteOptionFlow(mt, x) == [mt EXCEPT !.mflow = AddedTo(@, {"s", "t", "root"}, x)]
SumOf(rows) == MapThenSumSet(LAMBDA r : r.v, rows)
\* The roots of a symbol (SPX and SPXW) summed per minute.
MinuteOptionFlow(mt, s, from, to) ==
  LET rows == {r \in mt.mflow : r.s = s /\ from <= r.t /\ r.t < to}
  IN  {[t |-> t, v |-> SumOf(AtTime(rows, t))] : t \in {r.t : r \in rows}}
SaveMinuteStrikeFlow(mt, x) ==
  [mt EXCEPT !.sflow = AddedTo(@, {"s", "t", "exp", "strike", "right"}, x)]
StrikeFlowExpirations(mt, s, from, to) ==
  {r.exp : r \in {r \in mt.sflow : r.s = s /\ from <= r.t /\ r.t < to}}
StrikeFlowRows(mt, s, from, to, exps) ==
  {r \in mt.sflow : /\ r.s = s /\ from <= r.t /\ r.t < to
                    /\ exps = {} \/ r.exp \in exps}
StrikeFlowMinutes(mt, s, from, to, exps) ==
  LET rows == StrikeFlowRows(mt, s, from, to, exps)
  IN  {[t |-> k[1], strike |-> k[2],
        v |-> SumOf({r \in rows : <<r.t, r.strike>> = k})] :
         k \in {<<r.t, r.strike>> : r \in rows}}
StrikeFlowSummary(mt, s, from, to, exps, w) ==
  LET rows == StrikeFlowRows(mt, s, from, to, exps)
      Cell(k) == {r \in rows : <<r.strike, r.right>> = k}
  IN  {[key |-> k, recent |-> SumOf({r \in Cell(k) : r.t >= to - w}),
        day |-> SumOf(Cell(k))] : k \in {<<r.strike, r.right>> : r \in rows}}
SaveLargeTradePrints(mt, x) == [mt EXCEPT !.prints = @ \cup {x}]
=============================================================================
