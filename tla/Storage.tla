-------------------------------- MODULE Storage --------------------------------
(***************************************************************************)
(* The three storage adapters side by side: the tables behind              *)
(* PostgreSQLStorage and AsyncPostgreSQLStorage, and InMemoryStorage, which *)
(* the tests run on.  A behaviour saves into one family of tables; a       *)
(* transaction may fail and roll back, time passes, and the automatic      *)
(* anchor savers (src/backend/domain/use_cases/futures_anchor.py) race     *)
(* with a typed anchor.                                                    *)
(***************************************************************************)
EXTENDS AsyncStorage

CONSTANTS Symbols,      \* symbols that are saved
          Seeded,       \* symbols whose row exists at the start
          Families,     \* families of tables
          Start, MaxNow,  \* bounds: the time runs from Start to MaxNow
          MaxSaves      \* bound: saves of one behaviour

ASSUME StorageAssumption ==
  /\ IsFiniteSet(Symbols) /\ Seeded \subseteq Symbols
  /\ Symbols \cap Configured # {}
  /\ Start \in Nat \ {0} /\ MaxNow \in Nat /\ Start <= MaxNow

VARIABLES family,   \* the tables this behaviour saves into
          now,
          db,       \* the tables
          minutes,  \* the tables of the option minutes
          cache,    \* _underlying_id_cache of the adapter
          next,     \* the sequence of underlyings.id
          mem,      \* InMemoryStorage and its wrapper
          log,      \* the saves made, in order
          auto      \* the automatic anchor savers

vars == <<family, now, db, minutes, cache, next, mem, log, auto>>

M == INSTANCE MemoryStorage

DayLength == 2
DayOf == [t \in 0..MaxNow + 1 |-> t \div DayLength]
InSession == [t \in 0..MaxNow + 1 |-> t % DayLength = 0]
Cutoff == DayOf[now] * DayLength       \* volume_rows_since
Savers == {"ninjatrader", "yahoo"}
Contracts(s, exps) == {[occ |-> <<s, e>>, exp |-> e] : e \in exps}

SeedIds == LET seq == SetToSeq(Seeded) IN [s \in Seeded |-> CHOOSE i \in DOMAIN seq : seq[i] = s]
SeededTables ==
  [NoTables EXCEPT
     !.underlyings = {[id |-> SeedIds[s], symbol |-> s, kind |-> KindOf(s)] : s \in Seeded},
     !.thresholds = {[uid |-> SeedIds[s], v |-> 0] : s \in Seeded \cap Configured}]
\* A chain from before migration 0036 in the tables: no underlying_id.
OldChain(s) == [s |-> s, t |-> 0, v |-> 0, contracts |-> Contracts(s, {1, 2})]
WithContracts(d, s) ==
  [d EXCEPT !.contracts = @ \cup {[occ |-> n.occ, uid |-> SeedIds[s], exp |-> n.exp] :
                                    n \in OldChain(s).contracts}]
WithOldChain(d, s) ==
  [WithContracts(d, s) EXCEPT
     !.snapshots = {[t |-> 0, occ |-> n.occ, uid |-> 0, v |-> 0] : n \in OldChain(s).contracts}]

Init ==
  /\ family \in Families
  /\ now = Start /\ log = <<>>
  /\ \E s \in Symbols, old \in BOOLEAN :
        /\ old => family \in {"chain", "flow"} /\ s \in Seeded
        /\ db = IF ~old THEN SeededTables
                ELSE IF family = "chain" THEN WithOldChain(SeededTables, s)
                ELSE WithContracts(SeededTables, s)
        /\ mem = IF old /\ family = "chain"
                 THEN M!SaveChainSnapshot(M!InMemory, OldChain(s)) ELSE M!InMemory
  /\ minutes = NoMinutes
  /\ cache = <<>> /\ next = Cardinality(Symbols) + 1
  /\ auto = [a \in Savers |-> "idle"]

-----------------------------------------------------------------------------
V == Len(log) + 1             \* every save carries a value of its own
Times == {now - 1, now}
Calls(f, x) == family = f /\ Len(log) < MaxSaves /\ log' = Append(log, x)

\* A save that resolves underlying_id first: the foreign key asks for its row.
Ensured(s) == EnsureUnderlying(db, cache, s, next)
Through(f, x, d, m) ==
  /\ Calls(f, x)
  /\ LET e == Ensured(x.s)
     IN  /\ \E u \in e.db.underlyings : u.id = e.id
         /\ db' = d /\ cache' = e.cache /\ next' = e.next
  /\ mem' = m
  /\ UNCHANGED <<family, now, minutes, auto>>
\* A save into tables without underlying_id.
Directly(f, x, d, m) ==
  /\ Calls(f, x) /\ db' = d /\ mem' = m
  /\ UNCHANGED <<family, now, minutes, cache, next, auto>>
\* A save into the tables of the option minutes.
Minutely(f, x, mt, m) ==
  /\ Calls(f, x) /\ minutes' = mt /\ mem' = m
  /\ UNCHANGED <<family, now, db, cache, next, auto>>

\* A transaction that fails after the id was resolved: the tables are rolled
\* back, the cache and the sequence are not.
SaveFails(s) ==
  /\ family = "prices" /\ s \notin DOMAIN cache
  /\ LET e == EnsureUnderlying(db, cache, s, next)
     IN  cache' = e.cache /\ next' = e.next
  /\ UNCHANGED <<family, now, db, minutes, mem, log, auto>>

Tick == /\ now < MaxNow /\ now' = now + 1
        /\ UNCHANGED <<family, db, minutes, cache, next, mem, log, auto>>

Threshold == \E s \in Symbols :
  LET x == [s |-> s, v |-> V, t |-> now]
      e == Ensured(s) IN
  Through("threshold", x, SaveWhaleThreshold(e.db, e.id, x),
          M!SaveWhaleThreshold(mem, x))
NewUser == \E name \in {"Ann", "ann", "bob"} :
  LET x == [name |-> name, v |-> V, t |-> now, new |-> TRUE] IN
  Directly("users", x, IF CanCreateUser(db, name) THEN CreateUser(db, x) ELSE db,
           M!CreateUser(mem, x))
Password == \E name \in {"Ann", "bob"} :
  LET x == [name |-> name, v |-> V, t |-> now] IN
  /\ family = "users" /\ \E i \in DOMAIN log : Normal(log[i].name) = Normal(name)
  /\ Directly("users", [name |-> Normal(name), v |-> V, t |-> now, new |-> FALSE],
              UpdateUserPassword(db, x), M!UpdateUserPassword(mem, x))
Invite == LET x == [name |-> "bob", v |-> V, t |-> now] IN
  Directly("invites", x, CreateInvite(db, x), M!CreateInvite(mem, x))
InviteUsed == \E token \in 1..MaxSaves :
  Directly("invites", [token |-> token, t |-> now], MarkInviteUsed(db, token),
           M!MarkInviteUsed(mem, token))
Preset == \E p \in {[v |-> V]} \cup [min : {<<>>, <<V>>}, limit : {<<>>, <<1>>}] :
  LET x == [preset |-> IF "v" \in DOMAIN p THEN "board" ELSE "leaders", p |-> p, t |-> now] IN
  Directly("presets", x, SaveScreenerPresetSettings(db, x),
           M!SaveScreenerPresetSettings(mem, x))
Chart == \E u \in 1..2 : LET x == [user |-> u, v |-> V, t |-> now] IN
  Directly("chart", x, SaveUserChartSettings(db, x), M!SaveUserChartSettings(mem, x))
Chain == \E s \in Symbols, t \in Times, exps \in {{1}, {2}, {1, 2}} :
  LET x == [s |-> s, t |-> t, v |-> V, contracts |-> Contracts(s, exps)]
      e == Ensured(s) IN
  Through("chain", x, SaveChainSnapshot(e.db, e.id, x), M!SaveChainSnapshot(mem, x))
Gamma == \E s \in Symbols, t \in Times, w \in {"structural", "0dte"}, ks \in {{1}, {1, 2}} :
  LET x == [s |-> s, t |-> t, v |-> V, view |-> w, strikes |-> ks]
      e == Ensured(s) IN
  Through("gamma", x, SaveGammaAggregate(e.db, e.id, x), M!SaveGammaAggregate(mem, x))
Fast == \E s \in Symbols, ks \in {{}, {1}} :
  LET x == [s |-> s, t |-> now, v |-> V, view |-> "structural", strikes |-> ks]
      e == Ensured(s) IN
  IF ks = {} THEN Directly("fast", x, db, M!SaveGammaFastItems(mem, x))
  ELSE Through("fast", x, SaveGammaFastItems(e.db, e.id, x),
               M!SaveGammaFastItems(mem, x))
Price == \E s \in Symbols, t \in Times :
  LET x == [s |-> s, t |-> t, v |-> V]
      e == Ensured(s) IN
  Through("prices", x, SaveMarketPrice(e.db, e.id, x), M!SaveMarketPrice(mem, x))
Flow == \E s \in Symbols, t \in Times :
  LET x == [s |-> s, t |-> t, v |-> V, occ |-> <<s, 1>>] IN
  /\ CanSaveFlowEvent(db, x)
  /\ Directly("flow", x, SaveFlowEvent(db, x), M!SaveFlowEvent(mem, x))
Reference == \E s \in Symbols, t \in Times :
  LET x == [s |-> s, t |-> t, v |-> V]
      e == Ensured(s) IN
  Through("references", x, SaveDailyGammaReference(e.db, e.id, x),
          M!SaveDailyGammaReference(mem, x))
Bar == \E s \in Symbols, t \in Times :
  LET x == [s |-> s, t |-> t, v |-> V]
      e == Ensured(s) IN
  Through("bars", x, SaveDailyBar(SaveMinuteBar(e.db, e.id, x), e.id, x),
          M!SaveDailyBar(mem, x))
Alert == \E s \in Symbols, t \in Times, from \in {"lee_ready", "bvc"} :
  LET x == [s |-> s, t |-> t, v |-> V, from |-> from]
      e == Ensured(s) IN
  Through("alerts", x, SaveWhaleAlert(e.db, e.id, x), M!SaveWhaleAlert(mem, x))
Pressure == \E s \in Symbols, t \in Times :
  LET x == [s |-> s, t |-> t, v |-> V]
      e == Ensured(s) IN
  Through("pressure", x, SaveSymbolFlowPressure(e.db, e.id, x),
          M!SaveSymbolFlowPressure(mem, x))
Volume == \E o \in {"c1", "c2"}, v \in 1..2 : LET x == [occ |-> o, v |-> v, t |-> now] IN
  \/ Directly("volumes", x, SaveCumulativeVolumes(db, x, now, Cutoff),
              M!SaveCumulativeVolumes(mem, x))
  \/ Directly("corrections", x, SaveVolumeCorrections(db, x, now, Cutoff),
              M!SaveVolumeCorrections(mem, x))
Feed == \E s \in {"ES", "NQ"}, t \in Times, index \in {{}, {V}} :
  LET x == [s |-> s, t |-> t, v |-> V, index |-> index] IN
  \/ Directly("fallbacks", x, SaveFallback(SaveIndexPriceFallback(db, x), x),
              M!SaveIndexPriceFallback(mem, x))
  \/ Directly("quotes", x, SaveFuturesLiveQuote(db, x), M!SaveFuturesLiveQuote(mem, x))
  \/ Directly("fbars", x, SaveFuturesLiveBars(db, x), M!SaveFuturesLiveBars(mem, x))
  \/ Directly("events", x, SaveFuturesEvents(db, x), M!SaveFuturesEvents(mem, x))
QuoteMinute == \E o \in {"c1", "c2"}, t \in Times : LET x == [occ |-> o, t |-> t, v |-> V] IN
  Minutely("qminutes", x, SaveOptionQuoteMinutes(minutes, x), M!SaveOptionQuoteMinutes(mem, x))
FlowMinute == \E s \in Symbols, t \in Times, r \in {"SPX", "SPXW"} :
  LET x == [s |-> s, t |-> t, root |-> r, v |-> V] IN
  Minutely("mflow", x, SaveMinuteOptionFlow(minutes, x), M!SaveMinuteOptionFlow(mem, x))
StrikeMinute == \E t \in Times, e \in 1..2, k \in 1..2, r \in {"C", "P"} :
  LET x == [s |-> "SPX", t |-> t, exp |-> e, strike |-> k, right |-> r, v |-> V] IN
  Minutely("sflow", x, SaveMinuteStrikeFlow(minutes, x), M!SaveMinuteStrikeFlow(mem, x))
Prints == LET x == [s |-> "SPX", t |-> now, v |-> V] IN
  Minutely("prints", x, SaveLargeTradePrints(minutes, x), M!SaveLargeTradePrints(mem, x))

-----------------------------------------------------------------------------
\* The anchor of a day: typed at any time, and saved by two sources that look
\* first and write afterwards.
Day == 1
TypeAnchor == \E s \in Symbols :
  LET x == [s |-> s, day |-> Day, v |-> V, source |-> "manual", t |-> now]
      e == Ensured(s) IN
  Through("anchors", x, SetFuturePriceAnchor(e.db, e.id, x, now),
          M!SetFuturePriceAnchor(mem, x, now))
Future == CHOOSE s \in Symbols \cap Configured : TRUE
AutoReads(a, ok) ==
  /\ family = "anchors" /\ auto[a] = "idle"
  /\ auto' = [auto EXCEPT ![a] =
       IF GetFuturePriceAnchor(db, Future, Day) # {} THEN "exists"
       ELSE IF ~ok THEN "check_failed" ELSE "absent"]
  /\ UNCHANGED <<family, now, db, minutes, cache, next, mem, log>>
AutoWrites(a) ==
  LET x == [s |-> Future, day |-> Day, v |-> V, source |-> a, t |-> now]
      e == EnsureUnderlying(db, cache, x.s, next)
  IN  /\ auto[a] = "absent" /\ Calls("anchors", x)
      /\ db' = AddFuturePriceAnchorIfAbsent(e.db, e.id, x, now)
      /\ cache' = e.cache /\ next' = e.next
      /\ mem' = M!AddFuturePriceAnchorIfAbsent(mem, x, now)
      /\ auto' = [auto EXCEPT ![a] = IF HasAnchor(e.db, e.id, Day) THEN "exists" ELSE "saved"]
      /\ UNCHANGED <<family, now, minutes>>

Next ==
  \/ Tick \/ \E s \in Symbols : SaveFails(s)
  \/ Threshold \/ NewUser \/ Password \/ Invite \/ InviteUsed \/ Preset \/ Chart
  \/ Chain \/ Gamma \/ Fast \/ Price \/ Flow \/ Reference \/ Bar \/ Alert
  \/ Pressure \/ Volume \/ Feed \/ QuoteMinute \/ FlowMinute \/ StrikeMinute
  \/ Prints \/ TypeAnchor
  \/ \E a \in Savers : AutoWrites(a) \/ \E ok \in BOOLEAN : AutoReads(a, ok)

Spec == Init /\ [][Next]_vars

-----------------------------------------------------------------------------
\* The type invariant: ids are unique, and the cache maps symbols to ids.
TypeOK ==
  /\ family \in Families /\ now \in Start..MaxNow
  /\ cache \in [DOMAIN cache -> Nat] /\ DOMAIN cache \subseteq Symbols
  /\ \A u, w \in db.underlyings : u # w => u.id # w.id /\ u.symbol # w.symbol
  /\ auto \in [Savers -> {"idle", "absent", "exists", "check_failed", "saved"}]

\* Answers are compared on what both sides tell: times and values.
End == MaxNow + 1
Points(rows) == {[t |-> r.t, v |-> r.v] : r \in rows}
Line(seq) == [i \in DOMAIN seq |-> [t |-> seq[i].t, v |-> seq[i].v]]
Options(rows) == {[t |-> r.t, occ |-> r.occ, v |-> r.v] : r \in rows}
Unfolded(chains) ==
  UNION {{[t |-> c.t, occ |-> n.occ, v |-> c.v] : n \in c.contracts} : c \in chains}
Saves(s) == {i \in DOMAIN log : log[i].s = s}
\* The saves of a symbol have times of their own; they come in time order.
Apart(s) == \A i, j \in Saves(s) : i # j => log[i].t # log[j].t
InOrder(s) == \A i, j \in Saves(s) : i < j => log[i].t < log[j].t
\* The newest save with several expirations, if any, lies in the window.
Windowed(s) ==
  LET multi  == {t \in 0..End : Cardinality(Expirations(db, AtTime(RowsOf(db, s), t))) > 1}
      recent == {r \in RowsOf(db, s) : r.t >= now - RecentWindow}
  IN  recent = {} \/ multi = {} \/ Max(multi) >= now - RecentWindow
\* All of its chains were saved since, and by the code of today.
NewSince(s, since) == /\ \A i \in Saves(s) : log[i].t >= since
                      /\ \A r \in RowsOf(db, s) : r.uid # 0
AllLeeReady == \A i \in DOMAIN log : log[i].from = "lee_ready"
OneDay == \A i \in DOMAIN log : log[i].t >= Cutoff
\* The symbols that have a row: seeded, or given one by a save.
Rowed == Seeded \cup {log[i].s : i \in DOMAIN log}
Growing == \A i, j \in DOMAIN log : i < j /\ log[i].occ = log[j].occ => log[i].v <= log[j].v

SameAccounts ==
  /\ family = "users" =>
       LET made == {i \in DOMAIN log : log[i].new}
       IN  (/\ \A i \in made : log[i].name = Normal(log[i].name)
            /\ \A i, j \in made : log[i].name = log[j].name => i = j) =>
             \A name \in {"Ann", "ann", "bob"} :
               GetUserByUsername(db, name) = M!GetUserByUsername(mem, name)
  /\ family = "invites" => \A token \in 1..MaxSaves :
       GetInviteByToken(db, token) = M!GetInviteByToken(mem, token)
  /\ family = "presets" => \A p \in {"board", "leaders"} :
       GetScreenerPresetSettings(db, p) = M!GetScreenerPresetSettings(mem, p)
  /\ family = "chart" => \A u \in 1..2 :
       GetUserChartSettings(db, u) = M!GetUserChartSettings(mem, u)
  /\ family = "threshold" =>
       /\ GetWhaleThresholds(db) = {w \in M!GetWhaleThresholds(mem) : w.s \in Rowed}
       /\ {l.s : l \in ListUnderlyings(db)} = M!ListUnderlyings
SameChains == family = "chain" => \A s \in Symbols :
  LET chain(exps) == Unfolded(M!GetLatestChainSnapshot(mem, s, exps))
  IN  /\ Apart(s) /\ Windowed(s) =>
           Options(LatestChainUnscoped(db, cache, s, now)) = chain({})
      /\ Apart(s) => \A e \in 1..2 :
           Options(LatestChainOf(db, s, e)) = {o \in chain({e}) : o.occ = <<s, e>>}
      /\ InOrder(s) =>
           /\ \A e \in 1..2 :
                GetLatestOptionDelta(db, <<s, e>>) = M!GetLatestOptionDelta(mem, s, <<s, e>>)
           /\ NewSince(s, now - DeltaWindow) =>
                GetLatestOptionAbsDeltas(db, s, now) = M!GetLatestOptionAbsDeltas(mem, s)
SameHistories == \A s \in Symbols :
  /\ family = "gamma" /\ Apart(s) =>
       /\ Points(GetLatestGammaAggregate(db, s, "0dte"))
            = Points(M!GetLatestGammaAggregate(mem, s, "0dte"))
       /\ InOrder(s) => \A to \in Start..End :
            /\ Line(GetGammaHistory(db, s, "0dte", Start, to))
                 = Line(M!GetGammaHistory(mem, s, "0dte", Start, to))
            /\ Line(LevelHistory(db, s, "0dte", Start, to))
                 = Line(M!GetLevelHistory(mem, s, "0dte", Start, to))
  /\ family = "prices" =>
       /\ InOrder(s) => Points(ToSet(GetLatestPrice(db, s))) = Points(M!GetLatestPrice(mem, s))
       /\ Apart(s) => Line(GetPriceHistory(db, s, Start, now))
                       = Line(M!GetPriceHistory(mem, s, Start, now))
       /\ SessionDates(db, s, 1, DayOf[now], DayOf, InSession)
            = M!GetSessionDates(mem, s, 1, DayOf[now], DayOf, InSession)
  /\ family = "flow" /\ Apart(s) => \A since \in {0, now} :
       Line(GetFlowEvents(db, s, since, 2)) = Line(M!GetFlowEvents(mem, s, since, 2))
  /\ family = "references" =>
       Line(GetDailyGammaReferences(db, s, 2)) = Line(M!GetDailyGammaReferences(mem, s, 2))
  /\ family = "bars" => Line(GetDailyBars(db, s, 2)) = Line(M!GetDailyBars(mem, s, 2))
  /\ family = "alerts" /\ Apart(s) /\ (LeeReadyOnly => AllLeeReady) =>
         Line(GetRecentWhaleAlerts(db, s, now, 2)) = Line(M!GetRecentWhaleAlerts(mem, s, now, 2))
\* Where a symbol has one row, which a save replaces.
SameLatest ==
  /\ \A s \in Symbols :
       /\ family = "pressure" =>
            Points(GetSymbolFlowPressure(db, s)) = Points(M!GetSymbolFlowPressure(mem, s))
       /\ family = "anchors" =>
            LET a == M!AnchorOf(mem, s, Day)
            IN  /\ GetFuturePriceAnchor(db, s, Day) = {x.v : x \in a}
                /\ GetFuturePriceAnchorSource(db, s, Day) = {x.source : x \in a}
                /\ GetFuturePriceAnchorSavedAt(db, s, Day) = {x.at : x \in a}
  /\ \A s \in {"ES", "NQ"} :
       /\ family = "fallbacks" =>
            {r.v : r \in {r \in GetIndexPriceFallbacks(db) : r.s = s}}
              = {q.v : q \in {q \in M!GetIndexPriceFallbacks(mem) : q.s = s}}
       /\ family = "quotes" =>
            Points(GetFuturesLiveQuote(db, s)) = Points(M!GetFuturesLiveQuote(mem, s))
SameFeeds == \A s \in {"ES", "NQ"} :
  /\ family = "fbars" =>
       LET bars == GetFuturesLiveBars(db, s, Start)
           told == M!GetFuturesLiveBars(mem, s, Start)
       IN  /\ Line(bars) = Line(told)
           /\ (\A i, j \in DOMAIN log : i < j /\ log[i].s = s /\ log[i].t = log[j].t
                                        => log[j].index # {}) =>
                \A i \in DOMAIN bars : bars[i].index = told[i].index
  /\ family = "events" /\ Apart(s) => \A to \in Start..End :
       Line(GetFuturesEvents(db, s, Start, to)) = Line(M!GetFuturesEvents(mem, s, Start, to))
SameVolumes ==
  LET occs == {"c1", "c2"}
  IN  /\ family = "volumes" /\ OneDay /\ Growing =>
           /\ GetCumulativeVolumes(db, occs, Cutoff) = M!GetCumulativeVolumes(mem, occs)
           /\ GetCumulativeVolumesSince(db, Cutoff) = M!GetCumulativeVolumesSince(mem)
      /\ family = "corrections" /\ OneDay =>
           GetVolumeCorrections(db, occs, Cutoff) = M!GetVolumeCorrections(mem, occs)
SameMinutes == \A to \in Start..End :
  /\ family = "qminutes" =>
       LET occs == {"c1", "c2"}
       IN  /\ OptionQuoteSymbols(minutes, Start, to) = M!GetOptionQuoteSymbols(mem, Start, to)
           /\ (\A i, j \in DOMAIN log : i # j => <<log[i].t, log[i].occ>> # <<log[j].t, log[j].occ>>) =>
                /\ ToSet(OptionQuoteMinutes(minutes, occs, Start, to))
                     = ToSet(M!GetOptionQuoteMinutes(mem, occs, Start, to))
                /\ LastOptionQuotes(minutes, occs, Start, to)
                     = M!GetLastOptionQuotes(mem, occs, Start, to)
  /\ family = "mflow" => \A s \in Symbols :
       LET told == M!GetMinuteOptionFlow(mem, s, Start, to)
       IN  MinuteOptionFlow(minutes, s, Start, to)
             = {[t |-> t, v |-> FoldLeft(LAMBDA sum, r : IF r.t = t THEN sum + r.v ELSE sum, 0, told)] :
                  t \in {r.t : r \in ToSet(told)}}
  /\ family = "sflow" => \A exps \in {{}, {1}} :
       /\ StrikeFlowExpirations(minutes, "SPX", Start, to)
            = M!GetStrikeFlowExpirations(mem, "SPX", Start, to)
       /\ StrikeFlowSummary(minutes, "SPX", Start, to, exps, 1)
            = M!GetStrikeFlowSummary(mem, "SPX", Start, to, exps, 1)
       /\ {[t |-> r.t, strike |-> r.strike] : r \in StrikeFlowMinutes(minutes, "SPX", Start, to, exps)}
            = {[t |-> r.t, strike |-> r.strike] :
                 r \in ToSet(M!GetStrikeFlowMinutes(mem, "SPX", Start, to, exps))}

\* The storage the tests run on answers as the tables do, after the saves for
\* which it should: where the two differ, the condition says when they do not
\* (times of their own, in order, of one trade date, Lee-Ready alerts only; a
\* threshold of a symbol without a row is only a default of InMemoryStorage).
SameAnswers ==
  /\ SameAccounts /\ SameLatest /\ SameChains /\ SameHistories
  /\ SameFeeds /\ SameVolumes /\ SameMinutes

\* The asynchronous reads are SQL written a second time: whatever is in the
\* tables, they answer as the synchronous ones, and the full chain of a symbol
\* is found however long ago it was saved.
TwinAnswers == \A s \in Symbols :
  /\ Points(ToSet(LatestPrice(db, s))) = Points(ToSet(GetLatestPrice(db, s)))
  /\ PriceHistory(db, s, Start, now) = GetPriceHistory(db, s, Start, now)
  /\ LatestGamma(db, s, "0dte") = GetLatestGammaAggregate(db, s, "0dte")
  /\ DailyBars(db, s, 2) = GetDailyBars(db, s, 2)
  /\ DailyGammaReferences(db, s, 2) = GetDailyGammaReferences(db, s, 2)
  /\ RecentFlow(db, s, 2) = GetRecentFlow(db, s, 2)
  /\ RecentWhaleAlerts(db, s, now, 2) = GetRecentWhaleAlerts(db, s, now, 2)
  /\ SymbolFlowPressure(db, s) = GetSymbolFlowPressure(db, s)
  /\ FuturePriceAnchor(db, s, Day) = GetFuturePriceAnchor(db, s, Day)
  /\ VolumeCorrections(db, {"c1"}, Cutoff) = GetVolumeCorrections(db, {"c1"}, Cutoff)
  /\ IndexPriceFallbacks(db) = GetIndexPriceFallbacks(db)
  /\ \A f \in {"ES", "NQ"} :
       /\ FuturesLiveQuote(db, f) = GetFuturesLiveQuote(db, f)
       /\ FuturesLiveBars(db, f, Start) = GetFuturesLiveBars(db, f, Start)
       /\ FuturesEvents(db, f, Start, now) = GetFuturesEvents(db, f, Start, now)
  /\ \A e \in 1..2 : LatestChainWith(db, s, e) = LatestChainOf(db, s, e)
  /\ family = "chain" /\ Apart(s) =>
       Options(LatestChain(db, cache, s)) = Unfolded(M!GetLatestChainSnapshot(mem, s, {}))

\* The candles open and close with the first and last stored price of their
\* bucket, and the last column of the heatmap shows the latest aggregate.
ChartsShowStored == \A s \in Symbols :
  LET history == GetPriceHistory(db, s, 0, End)
  IN  /\ family = "prices" /\ Apart(s) => \A c \in PriceCandles(db, s, 2, 1, 0, DayOf, InSession) :
           LET in == SelectSeq(history, LAMBDA p : p.t \div 2 = c.t \div 2 /\ InSession[p.t])
           IN  in # <<>> /\ c.candle.open = {in[1].v} /\ c.candle.close = {in[Len(in)].v}
      /\ family = "gamma" => \A g \in GetLatestGammaAggregate(db, s, "0dte") :
           \E c \in GammaHeatmap(db, s, "0dte", db.items, Start - 1, End, 2) :
              c.t = g.t /\ g.items \subseteq c.cells

\* A typed anchor stands: an automatic saver that looked before it was typed
\* does not write over it (add_future_price_anchor_if_absent, ON CONFLICT DO
\* NOTHING).
TypedAnchorStands ==
  [][\A a \in db.anchors : a.source = "manual" =>
       \E b \in db'.anchors : b.uid = a.uid /\ b.day = a.day /\ b.source = "manual"]_vars
\* "never a wrong value": a cached id is the id of the symbol's row.
CachedIdsExist ==
  \A s \in DOMAIN cache : \E u \in db.underlyings : u.symbol = s /\ u.id = cache[s]

\* What a page reads is what is stored, whichever of the two storages it asks.
ReadsAgree == TwinAnswers /\ ChartsShowStored
=============================================================================
