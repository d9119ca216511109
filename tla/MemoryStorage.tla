----------------------------- MODULE MemoryStorage -----------------------------
(***************************************************************************)
(* InMemoryStorage (src/backend/adapters/storage/memory.py), the storage   *)
(* the tests run on, and the lists its asynchronous wrapper keeps          *)
(* (sync_read_adapter.py): dictionaries are functions, lists sequences.    *)
(* One operator per method, named as in PostgresStorage.                   *)
(***************************************************************************)
EXTENDS Integers, Sequences, SequencesExt, FiniteSetsExt, TLC

CONSTANT Configured

None == <<>>
Get(f, k) == IF k \in DOMAIN f THEN {f[k]} ELSE {}
Put(f, k, v) == [r \in DOMAIN f \cup {k} |-> IF r = k THEN v ELSE f[r]]
Added(f, k, v) == Put(f, k, IF k \in DOMAIN f THEN Append(f[k], v) ELSE <<v>>)
ListOf(f, k) == IF k \in DOMAIN f THEN f[k] ELSE <<>>
Where(seq, Test(_)) == SelectSeq(seq, Test)
Later(a, b) == a.t > b.t
Earlier(a, b) == a.t < b.t
Newest(seq, n) ==
  LET all == SortSeq(seq, Later) IN SubSeq(all, 1, Min({n, Len(all)}))
\* max(list, key=time): the first of the latest.
LatestOf(seq) ==
  LET late == {i \in DOMAIN seq : \A j \in DOMAIN seq : seq[j].t <= seq[i].t}
  IN  IF late = {} THEN {} ELSE {seq[Min(late)]}

InMemory ==
  [thresholds |-> [s \in Configured |-> 0], users |-> <<>>, invites |-> <<>>,
   presets |-> <<>>, chart |-> <<>>, chains |-> <<>>, gamma |-> <<>>,
   fast |-> <<>>, prices |-> <<>>, history |-> <<>>, flow |-> <<>>,
   references |-> <<>>, bars |-> <<>>, alerts |-> <<>>, pressure |-> <<>>,
   volumes |-> <<>>, corrections |-> <<>>, anchors |-> <<>>, fallbacks |-> <<>>,
   quotes |-> <<>>, fbars |-> <<>>, events |-> <<>>,
   qminutes |-> <<>>, mflow |-> <<>>, sflow |-> <<>>, prints |-> <<>>]

ListUnderlyings == Configured
SaveWhaleThreshold(m, x) == [m EXCEPT !.thresholds = Put(@, x.s, x.v)]
GetWhaleThresholds(m) == {[s |-> s, v |-> m.thresholds[s]] : s \in DOMAIN m.thresholds}

\* The name is kept as given; a lookup normalises what it is asked for.
Normal(name) == IF name = "Ann" THEN "ann" ELSE name
GetUserByUsername(m, name) == Get(m.users, Normal(name))
CreateUser(m, x) ==
  [m EXCEPT !.users = Put(@, x.name, [id |-> Cardinality(DOMAIN @) + 1,
                                      name |-> x.name, v |-> x.v])]
UpdateUserPassword(m, x) ==
  IF GetUserByUsername(m, x.name) = {} THEN m
  ELSE [m EXCEPT !.users[Normal(x.name)].v = x.v]
CreateInvite(m, x) ==
  [m EXCEPT !.invites = Put(@, x.v, [token |-> x.v, name |-> x.name, used |-> FALSE])]
GetInviteByToken(m, token) == Get(m.invites, token)
MarkInviteUsed(m, token) ==
  IF token \in DOMAIN m.invites THEN [m EXCEPT !.invites[token].used = TRUE] ELSE m
SaveScreenerPresetSettings(m, x) == [m EXCEPT !.presets = Put(@, x.preset, x.p)]
GetScreenerPresetSettings(m, preset) == Get(m.presets, preset)
SaveUserChartSettings(m, x) == [m EXCEPT !.chart = Put(@, x.user, x.v)]
GetUserChartSettings(m, user) == Get(m.chart, user)

SaveChainSnapshot(m, x) == [m EXCEPT !.chains = Added(@, x.s, x)]
ExpirationsIn(chain) == {n.exp : n \in chain.contracts}
GetLatestChainSnapshot(m, s, exps) ==
  LET chains == ListOf(m.chains, s)
      multi  == Where(chains, LAMBDA c : Cardinality(ExpirationsIn(c)) > 1)
  IN  IF exps # {} THEN LatestOf(Where(chains, LAMBDA c : ExpirationsIn(c) \cap exps # {}))
      ELSE LatestOf(IF multi # <<>> THEN multi ELSE chains)
\* The list of one symbol after the other, each from its end.
GetLatestOptionDelta(m, s, occ) ==
  LET having == {i \in DOMAIN ListOf(m.chains, s) :
                   \E n \in m.chains[s][i].contracts : n.occ = occ}
  IN  IF having = {} THEN {} ELSE {m.chains[s][Max(having)].v}
GetLatestOptionAbsDeltas(m, s) ==
  LET occs == {n.occ : n \in UNION {c.contracts : c \in ToSet(ListOf(m.chains, s))}}
  IN  {[occ |-> o, v |-> CHOOSE v \in GetLatestOptionDelta(m, s, o) : TRUE] : o \in occs}

SaveGammaAggregate(m, x) == [m EXCEPT !.gamma = Added(@, x.s, x)]
SaveGammaFastItems(m, x) ==
  IF x.strikes = {} THEN m ELSE [m EXCEPT !.fast = Append(@, x)]
GetLatestGammaAggregate(m, s, view) ==
  LatestOf(Where(ListOf(m.gamma, s), LAMBDA g : g.view = view))
GetGammaHistory(m, s, view, from, to) ==
  Where(ListOf(m.gamma, s), LAMBDA g : from <= g.t /\ g.t <= to /\ g.view = view)

SaveMarketPrice(m, x) ==
  [m EXCEPT !.prices = Put(@, x.s, x), !.history = Added(@, x.s, x)]
GetLatestPrice(m, s) == Get(m.prices, s)
GetPriceHistory(m, s, from, to) ==
  SortSeq(Where(ListOf(m.history, s), LAMBDA p : from <= p.t /\ p.t <= to), Earlier)

SaveFlowEvent(m, x) == [m EXCEPT !.flow = Added(@, x.s, x)]
GetFlowEvents(m, s, since, limit) ==
  Newest(Where(ListOf(m.flow, s), LAMBDA f : f.t >= since), limit)

SaveDailyGammaReference(m, x) == [m EXCEPT !.references = Put(@, <<x.s, x.t>>, x)]
GetDailyGammaReferences(m, s, limit) ==
  Newest(SetToSeq({m.references[k] : k \in {k \in DOMAIN m.references : k[1] = s}}), limit)
SaveDailyBar(m, x) == [m EXCEPT !.bars = Put(@, <<x.s, x.t>>, x)]
GetDailyBars(m, s, limit) ==
  Newest(SetToSeq({m.bars[k] : k \in {k \in DOMAIN m.bars : k[1] = s}}), limit)

SaveWhaleAlert(m, x) == [m EXCEPT !.alerts = Added(@, x.s, x)]
GetRecentWhaleAlerts(m, s, since, limit) ==
  Newest(Where(ListOf(m.alerts, s), LAMBDA a : a.t >= since), limit)
SaveSymbolFlowPressure(m, x) == [m EXCEPT !.pressure = Put(@, x.s, x)]
GetSymbolFlowPressure(m, s) == Get(m.pressure, s)

\* No times in memory: everything stored counts as today's.
SaveCumulativeVolumes(m, x) == [m EXCEPT !.volumes = Put(@, x.occ, x.v)]
GetCumulativeVolumes(m, occs) ==
  {[occ |-> o, v |-> m.volumes[o]] : o \in DOMAIN m.volumes \cap occs}
GetCumulativeVolumesSince(m) == GetCumulativeVolumes(m, DOMAIN m.volumes)
SaveVolumeCorrections(m, x) ==
  [m EXCEPT !.corrections = Put(@, x.occ, Max({x.v} \cup Get(@, x.occ)))]
GetVolumeCorrections(m, occs) ==
  {[occ |-> o, v |-> m.corrections[o]] : o \in DOMAIN m.corrections \cap occs}

SetFuturePriceAnchor(m, x, now) ==
  [m EXCEPT !.anchors = Put(@, <<x.s, x.day>>, [v |-> x.v, source |-> x.source, at |-> now])]
AddFuturePriceAnchorIfAbsent(m, x, now) ==
  IF <<x.s, x.day>> \in DOMAIN m.anchors THEN m ELSE SetFuturePriceAnchor(m, x, now)
AnchorOf(m, s, day) == Get(m.anchors, <<s, day>>)

SaveIndexPriceFallback(m, x) == [m EXCEPT !.fallbacks = Put(@, x.s, x)]
GetIndexPriceFallbacks(m) == {m.fallbacks[s] : s \in DOMAIN m.fallbacks}
SaveFuturesLiveQuote(m, x) == [m EXCEPT !.quotes = Put(@, x.s, x)]
GetFuturesLiveQuote(m, s) == Get(m.quotes, s)
SaveFuturesLiveBars(m, x) == [m EXCEPT !.fbars = Put(@, <<x.s, x.t>>, x)]
GetFuturesLiveBars(m, s, since) ==
  SortSeq(SetToSeq({b \in {m.fbars[k] : k \in DOMAIN m.fbars} : b.s = s /\ b.t >= since}),
          Earlier)
SaveFuturesEvents(m, x) == [m EXCEPT !.events = Append(@, x)]
GetFuturesEvents(m, s, from, to) ==
  SortSeq(Where(m.events, LAMBDA e : e.s = s /\ from <= e.t /\ e.t < to), Earlier)

-----------------------------------------------------------------------------
\* The wrapper's own lists.
SaveOptionQuoteMinutes(m, x) == [m EXCEPT !.qminutes = Append(@, x)]
GetOptionQuoteSymbols(m, from, to) ==
  {r.occ : r \in {r \in ToSet(m.qminutes) : from <= r.t /\ r.t < to}}
GetOptionQuoteMinutes(m, occs, from, to) ==
  SortSeq(Where(m.qminutes, LAMBDA r : r.occ \in occs /\ from <= r.t /\ r.t < to), Earlier)
GetLastOptionQuotes(m, occs, from, to) ==
  LET rows == GetOptionQuoteMinutes(m, occs, from, to)
  IN  {rows[i] : i \in {i \in DOMAIN rows : \A j \in DOMAIN rows :
                          j > i => rows[j].occ # rows[i].occ}}
SaveLargeTradePrints(m, x) == [m EXCEPT !.prints = Append(@, x)]
SaveMinuteOptionFlow(m, x) == [m EXCEPT !.mflow = Append(@, x)]
GetMinuteOptionFlow(m, s, from, to) ==
  SortSeq(Where(m.mflow, LAMBDA r : r.s = s /\ from <= r.t /\ r.t < to), Earlier)
SaveMinuteStrikeFlow(m, x) == [m EXCEPT !.sflow = Append(@, x)]
StrikeRows(m, s, from, to, exps) ==
  Where(m.sflow, LAMBDA r : /\ r.s = s /\ from <= r.t /\ r.t < to
                            /\ exps # {} => r.exp \in exps)
GetStrikeFlowExpirations(m, s, from, to) ==
  {r.exp : r \in ToSet(StrikeRows(m, s, from, to, {}))}
GetStrikeFlowMinutes(m, s, from, to, exps) == StrikeRows(m, s, from, to, exps)
\* Per strike and right: the flow of the last w minutes before to, and of all.
GetStrikeFlowSummary(m, s, from, to, exps, w) ==
  LET rows == StrikeRows(m, s, from, to, exps)
      Total(k, since) == FoldLeft(LAMBDA sum, r : IF <<r.strike, r.right>> = k /\ r.t >= since
                                                  THEN sum + r.v ELSE sum, 0, rows)
  IN  {[key |-> k, recent |-> Total(k, to - w), day |-> Total(k, from)] :
         k \in {<<r.strike, r.right>> : r \in ToSet(rows)}}
\* The level history leaves out what lies at the end of the range, which
\* get_gamma_history includes; zero is no level.
GetLevelHistory(m, s, view, from, to) ==
  Where(GetGammaHistory(m, s, view, from, to), LAMBDA g : g.t < to)
\* Days with a price inside the session, among those from first to last.
GetSessionDates(m, s, first, last, dayOf, inSession) ==
  {dayOf[p.t] : p \in {p \in ToSet(ListOf(m.history, s)) :
                         inSession[p.t] /\ first <= dayOf[p.t] /\ dayOf[p.t] <= last}}
=============================================================================
