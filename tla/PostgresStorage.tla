---------------------------- MODULE PostgresStorage ----------------------------
(***************************************************************************)
(* The tables of the application and the methods of PostgreSQLStorage      *)
(* (src/backend/adapters/storage/postgresql.py): one operator per method,  *)
(* a save giving the tables after its transaction, a read its answer.      *)
(* A table is a set of rows.  Columns that only travel with their row      *)
(* (amounts, prices, greeks) are one value v; uid is underlying_id, s a    *)
(* symbol, t a time or date.                                               *)
(***************************************************************************)
EXTENDS Integers, Sequences, SequencesExt, FiniteSetsExt, TLC

CONSTANTS Configured,     \* the symbols of ACTIVE_UNDERLYINGS
          RecentWindow,   \* RECENT_CHAIN_SNAPSHOT_WINDOW_MINUTES
          DeltaWindow,    \* window_minutes of the delta read
          LeeReadyOnly    \* whale_alerts_lee_ready_only

NoTables ==
  [underlyings |-> {}, thresholds |-> {}, users |-> {}, invites |-> {},
   presets |-> {}, contracts |-> {}, snapshots |-> {}, aggregates |-> {},
   items |-> {}, fast |-> {}, prices |-> {}, flow |-> {}, references |-> {},
   bars |-> {}, alerts |-> {}, pressure |-> {}, volumes |-> {},
   corrections |-> {}, minutebars |-> {}, anchors |-> {}, fallbacks |-> {},
   quotes |-> {}, fbars |-> {}, events |-> {}, chart |-> {}]

\* INSERT ... ON CONFLICT (key) DO UPDATE of every other column.
Upserted(rows, key, row) == {r \in rows : \E k \in key : r[k] # row[k]} \cup {row}

\* JOIN underlyings ON id = underlying_id WHERE symbol = :symbol
OfSymbol(db, rows, s) ==
  {r \in rows : \E u \in db.underlyings : u.symbol = s /\ u.id = r.uid}

\* What a row tells once it is read back: its columns but underlying_id.
Told(r) == [k \in DOMAIN r \ {"uid"} |-> r[k]]
Earlier(a, b) == a.t < b.t
Later(a, b) == a.t > b.t
\* ORDER BY time DESC LIMIT n, and ORDER BY time
NewestFirst(rows, n) ==
  LET all == SetToSortSeq({Told(r) : r \in rows}, Later)
  IN  SubSeq(all, 1, Min({n, Len(all)}))
OldestFirst(rows) == SetToSortSeq({Told(r) : r \in rows}, Earlier)

-----------------------------------------------------------------------------
\* The underlyings table and the cache of ids in the adapter.
KindOf(s) == IF s \in Configured THEN "configured" ELSE "equity"
WithId(cache, s, id) ==
  [r \in DOMAIN cache \cup {s} |-> IF r = s THEN id ELSE cache[r]]

EnsureUnderlyingUncached(db, cache, s, next) ==
  LET old == {u \in db.underlyings : u.symbol = s}
      row == [id |-> next, symbol |-> s, kind |-> KindOf(s)]
  IN  [db |-> [db EXCEPT !.underlyings = (@ \ old) \cup {row}], id |-> row.id,
       cache |-> WithId(cache, s, row.id), next |-> next + 1]
EnsureUnderlying(db, cache, s, next) ==
  LET old == {u \in db.underlyings : u.symbol = s}
      row == IF old = {} THEN [id |-> next, symbol |-> s, kind |-> KindOf(s)]
             ELSE LET u == CHOOSE u \in old : TRUE
                  IN  IF s \in Configured THEN [u EXCEPT !.kind = KindOf(s)] ELSE u
  IN  IF s \in DOMAIN cache
      THEN [db |-> db, id |-> cache[s], cache |-> cache, next |-> next]
      ELSE [db |-> [db EXCEPT !.underlyings = (@ \ old) \cup {row}],
            id |-> row.id, cache |-> WithId(cache, s, row.id), next |-> next + 1]

ListUnderlyings(db) ==
  LET listed == {[s |-> u.symbol, kind |-> u.kind] :
                   u \in {u \in db.underlyings : u.symbol \in Configured}}
  IN  listed \cup {[s |-> s, kind |-> KindOf(s)] :
                     s \in Configured \ {l.s : l \in listed}}

SaveWhaleThreshold(db, id, x) ==
  [db EXCEPT !.thresholds = Upserted(@, {"uid"}, [uid |-> id, v |-> x.v])]
GetWhaleThresholds(db) ==
  {[s |-> p[1].symbol, v |-> p[2].v] :
     p \in {p \in db.underlyings \X db.thresholds : p[1].id = p[2].uid}}

-----------------------------------------------------------------------------
\* Accounts.  Normal stands for username.strip().lower().
Normal(name) == IF name = "Ann" THEN "ann" ELSE name

GetUserByUsername(db, name) == {u \in db.users : u.name = Normal(name)}
\* users.username is UNIQUE: the INSERT of a name that is there fails.
CanCreateUser(db, name) == GetUserByUsername(db, name) = {}
CreateUser(db, x) ==
  [db EXCEPT !.users = @ \cup {[id |-> Cardinality(@) + 1, name |-> Normal(x.name),
                                v |-> x.v]}]
UpdateUserPassword(db, x) ==
  [db EXCEPT !.users = {IF u.name = Normal(x.name) THEN [u EXCEPT !.v = x.v] ELSE u :
                          u \in @}]
CreateInvite(db, x) ==
  [db EXCEPT !.invites = @ \cup {[token |-> x.v, name |-> Normal(x.name),
                                  used |-> FALSE]}]
GetInviteByToken(db, token) == {i \in db.invites : i.token = token}
MarkInviteUsed(db, token) ==
  [db EXCEPT !.invites = {IF i.token = token THEN [i EXCEPT !.used = TRUE] ELSE i :
                            i \in @}]

\* The parameters of a preset travel as JSON, the numbers as text.  The board
\* has one number, the leaders an optional number and an optional limit.
ToJson(preset, p) ==
  IF preset = "board" THEN [net_gamma_max |-> <<"text", p.v>>]
  ELSE [min_magnitude |-> IF p.min = <<>> THEN <<>> ELSE <<"text", p.min[1]>>,
        limit |-> p.limit]
FromJson(preset, j) ==
  IF preset = "board" THEN [v |-> j.net_gamma_max[2]]
  ELSE [min |-> IF j.min_magnitude = <<>> THEN <<>> ELSE <<j.min_magnitude[2]>>,
        limit |-> j.limit]
SaveScreenerPresetSettings(db, x) ==
  [db EXCEPT !.presets = Upserted(@, {"preset"},
      [preset |-> x.preset, parameters |-> ToJson(x.preset, x.p)])]
GetScreenerPresetSettings(db, preset) ==
  {FromJson(preset, r.parameters) : r \in {r \in db.presets : r.preset = preset}}

SaveUserChartSettings(db, x) ==
  [db EXCEPT !.chart = Upserted(@, {"user"}, [user |-> x.user, v |-> x.v])]
GetUserChartSettings(db, user) == {r.v : r \in {r \in db.chart : r.user = user}}

-----------------------------------------------------------------------------
\* Chains: a contract row per option, a snapshot row per option and save.
SaveChainSnapshot(db, id, x) ==
  IF x.contracts = {} THEN db ELSE
  [db EXCEPT
     !.contracts = {c \in @ : \A n \in x.contracts : n.occ # c.occ}
                     \cup {[occ |-> n.occ, uid |-> id, exp |-> n.exp] : n \in x.contracts},
     !.snapshots = @ \cup {[t |-> x.t, occ |-> n.occ, uid |-> id, v |-> x.v] :
                             n \in x.contracts}]

\* Snapshot rows of a symbol, found through their contracts.
RowsOf(db, s) ==
  {r \in db.snapshots : \E c \in OfSymbol(db, db.contracts, s) : c.occ = r.occ}
Expirations(db, rows) == {c.exp : c \in {c \in db.contracts : \E r \in rows : r.occ = c.occ}}
AtTime(rows, t) == {r \in rows : r.t = t}
\* candidates ORDER BY priority, time DESC LIMIT 1: a save with several
\* expirations before any other, then the newest.
LatestTime(db, rows) ==
  LET multi == {t \in {r.t : r \in rows} : Cardinality(Expirations(db, AtTime(rows, t))) > 1}
  IN  IF multi # {} THEN Max(multi) ELSE Max({r.t : r \in rows})
\* The statement around each tier: the symbol's rows at the latest time.
SelectAt(db, s, rows) ==
  IF rows = {} THEN {} ELSE AtTime(RowsOf(db, s), LatestTime(db, rows))

LatestChainUnscoped(db, cache, s, now) ==
  LET window == {r \in db.snapshots : r.t >= now - RecentWindow}
      fast   == IF s \in DOMAIN cache
                THEN SelectAt(db, s, {r \in window : r.uid = cache[s]}) ELSE {}
      recent == SelectAt(db, s, window \cap RowsOf(db, s))
  IN  IF fast # {} THEN fast
      ELSE IF recent # {} THEN recent ELSE SelectAt(db, s, RowsOf(db, s))
LatestChainOf(db, s, exp) ==
  LET rows == {r \in RowsOf(db, s) :
                 \E c \in db.contracts : c.occ = r.occ /\ c.exp = exp}
  IN  IF rows = {} THEN {} ELSE AtTime(rows, Max({r.t : r \in rows}))

GetLatestOptionDelta(db, occ) ==
  LET rows == {r \in db.snapshots : r.occ = occ}
  IN  {r.v : r \in {r \in rows : \A q \in rows : q.t <= r.t}}
GetLatestOptionAbsDeltas(db, s, now) ==
  LET rows == {r \in OfSymbol(db, db.snapshots, s) : r.t >= now - DeltaWindow}
  IN  {[occ |-> r.occ, v |-> r.v] :
         r \in {r \in rows : \A q \in rows : q.occ = r.occ => q.t <= r.t}}

-----------------------------------------------------------------------------
\* Aggregates and their per-strike items.
SaveGammaAggregate(db, id, x) ==
  [db EXCEPT
     !.aggregates = Upserted(@, {"uid", "t", "view"},
                             [uid |-> id, t |-> x.t, view |-> x.view, v |-> x.v]),
     !.items = {i \in @ : ~(i.uid = id /\ i.t = x.t /\ i.view = x.view
                              /\ i.strike \in x.strikes)}
               \cup {[uid |-> id, t |-> x.t, view |-> x.view, strike |-> k, v |-> x.v] :
                       k \in x.strikes}]
SaveGammaFastItems(db, id, x) ==
  [db EXCEPT !.fast =
     {i \in @ : ~(i.uid = id /\ i.t = x.t /\ i.view = x.view /\ i.strike \in x.strikes)}
     \cup {[uid |-> id, t |-> x.t, view |-> x.view, strike |-> k, v |-> x.v] :
             k \in x.strikes}]
GammaAggregateItems(db, id, t, view) ==
  {[strike |-> i.strike, v |-> i.v] :
     i \in {i \in db.items : i.uid = id /\ i.t = t /\ i.view = view}}
GetLatestGammaAggregate(db, s, view) ==
  LET rows == {g \in OfSymbol(db, db.aggregates, s) : g.view = view}
  IN  {[t |-> g.t, v |-> g.v, items |-> GammaAggregateItems(db, g.uid, g.t, view)] :
         g \in {g \in rows : \A h \in rows : h.t <= g.t}}
GetGammaHistory(db, s, view, from, to) ==
  OldestFirst({g \in OfSymbol(db, db.aggregates, s) :
                 g.view = view /\ from <= g.t /\ g.t <= to})

-----------------------------------------------------------------------------
\* Prices, flow events, references, bars, alerts, pressure.
SaveMarketPrice(db, id, x) ==
  [db EXCEPT !.prices = @ \cup {[uid |-> id, t |-> x.t, v |-> x.v]}]
GetLatestPrice(db, s) == NewestFirst(OfSymbol(db, db.prices, s), 1)
GetPriceHistory(db, s, from, to) ==
  OldestFirst({p \in OfSymbol(db, db.prices, s) : from <= p.t /\ p.t <= to})

\* save_flow_event raises when the contract has no row.
CanSaveFlowEvent(db, x) ==
  \E c \in OfSymbol(db, db.contracts, x.s) : c.occ = x.occ
SaveFlowEvent(db, x) ==
  [db EXCEPT !.flow = @ \cup {[occ |-> x.occ, t |-> x.t, v |-> x.v]}]
GetFlowEvents(db, s, since, limit) ==
  NewestFirst({f \in db.flow : /\ f.t >= since
                               /\ \E c \in OfSymbol(db, db.contracts, s) : c.occ = f.occ},
              limit)
GetRecentFlow(db, s, limit) == GetFlowEvents(db, s, 0, limit)

SaveDailyGammaReference(db, id, x) ==
  [db EXCEPT !.references = Upserted(@, {"uid", "t"}, [uid |-> id, t |-> x.t, v |-> x.v])]
GetDailyGammaReferences(db, s, limit) ==
  NewestFirst(OfSymbol(db, db.references, s), limit)
SaveDailyBar(db, id, x) ==
  [db EXCEPT !.bars = Upserted(@, {"uid", "t"}, [uid |-> id, t |-> x.t, v |-> x.v])]
GetDailyBars(db, s, limit) == NewestFirst(OfSymbol(db, db.bars, s), limit)
SaveMinuteBar(db, id, x) ==
  [db EXCEPT !.minutebars = Upserted(@, {"uid", "t"}, [uid |-> id, t |-> x.t, v |-> x.v])]

\* A BVC alert is told from a Lee-Ready one by the units of its volumes.
SaveWhaleAlert(db, id, x) ==
  [db EXCEPT !.alerts = @ \cup {[uid |-> id, t |-> x.t, from |-> x.from, v |-> x.v]}]
GetRecentWhaleAlerts(db, s, since, limit) ==
  NewestFirst({a \in OfSymbol(db, db.alerts, s) :
                 /\ LeeReadyOnly => a.from = "lee_ready"
                 /\ a.t >= since}, limit)
SaveSymbolFlowPressure(db, id, x) ==
  [db EXCEPT !.pressure = Upserted(@, {"uid"}, [uid |-> id, t |-> x.t, v |-> x.v])]
GetSymbolFlowPressure(db, s) == {Told(r) : r \in OfSymbol(db, db.pressure, s)}

-----------------------------------------------------------------------------
\* Volumes: a row of this trade date (written at or after cutoff) only grows,
\* an older one is replaced and no longer read.
Grown(rows, x, now, cutoff) ==
  LET old == {r \in rows : r.occ = x.occ /\ r.at >= cutoff}
  IN  Upserted(rows, {"occ"}, [occ |-> x.occ, v |-> Max({x.v} \cup {r.v : r \in old}),
                               at |-> now])
SaveCumulativeVolumes(db, x, now, cutoff) ==
  [db EXCEPT !.volumes = Grown(@, x, now, cutoff)]
GetCumulativeVolumesSince(db, since) ==
  {[occ |-> r.occ, v |-> r.v] : r \in {r \in db.volumes : r.at >= since}}
GetCumulativeVolumes(db, occs, cutoff) ==
  {r \in GetCumulativeVolumesSince(db, cutoff) : r.occ \in occs}
SaveVolumeCorrections(db, x, now, cutoff) ==
  [db EXCEPT !.corrections = Grown(@, x, now, cutoff)]
GetVolumeCorrections(db, occs, cutoff) ==
  {[occ |-> r.occ, v |-> r.v] :
     r \in {r \in db.corrections : r.occ \in occs /\ r.at >= cutoff}}

-----------------------------------------------------------------------------
\* The morning anchor of a future, by session date; the stale-index switch;
\* the live feed of the futures.
AnchorRow(id, x, now) ==
  [uid |-> id, day |-> x.day, v |-> x.v, source |-> x.source, at |-> now]
SetFuturePriceAnchor(db, id, x, now) ==
  [db EXCEPT !.anchors = Upserted(@, {"uid", "day"}, AnchorRow(id, x, now))]
HasAnchor(db, id, day) == \E a \in db.anchors : a.uid = id /\ a.day = day
AddAnchorOver(db, id, x, now) == SetFuturePriceAnchor(db, id, x, now)
AddFuturePriceAnchorIfAbsent(db, id, x, now) ==
  IF HasAnchor(db, id, x.day) THEN db
  ELSE [db EXCEPT !.anchors = @ \cup {AnchorRow(id, x, now)}]
AnchorsOf(db, s, day) == {a \in OfSymbol(db, db.anchors, s) : a.day = day}
GetFuturePriceAnchor(db, s, day) == {a.v : a \in AnchorsOf(db, s, day)}
GetFuturePriceAnchorSource(db, s, day) == {a.source : a \in AnchorsOf(db, s, day)}
GetFuturePriceAnchorSavedAt(db, s, day) == {a.at : a \in AnchorsOf(db, s, day)}

SaveIndexPriceFallback(db, x) ==
  [db EXCEPT !.fallbacks = Upserted(@, {"s"}, [s |-> x.s, v |-> x.v])]
GetIndexPriceFallbacks(db) == db.fallbacks

SaveFuturesLiveQuote(db, x) ==
  [db EXCEPT !.quotes = Upserted(@, {"s"}, [s |-> x.s, t |-> x.t, v |-> x.v])]
GetFuturesLiveQuote(db, s) == {q \in db.quotes : q.s = s}
\* index_price = COALESCE(EXCLUDED.index_price, futures_live_bars.index_price)
SaveFuturesLiveBars(db, x) ==
  LET old == {b \in db.fbars : b.s = x.s /\ b.t = x.t}
      index == IF x.index # {} THEN x.index ELSE UNION {b.index : b \in old}
  IN  [db EXCEPT !.fbars = Upserted(@, {"s", "t"},
                                    [s |-> x.s, t |-> x.t, v |-> x.v, index |-> index])]
GetFuturesLiveBars(db, s, since) ==
  OldestFirst({b \in db.fbars : b.s = s /\ b.t >= since})
SaveFuturesEvents(db, x) ==
  [db EXCEPT !.events = @ \cup {[s |-> x.s, t |-> x.t, v |-> x.v]}]
GetFuturesEvents(db, s, from, to) ==
  OldestFirst({e \in db.events : e.s = s /\ from <= e.t /\ e.t < to})
=============================================================================
