----------------------------- MODULE Migrations -----------------------------
(***************************************************************************)
(* The migrations of src/backend/db/migrations in their order: what each   *)
(* does going up and going down.  "block" is the index that a migration    *)
(* builds or drops CONCURRENTLY in an autocommit block, which ends the     *)
(* transaction opened before it: after "up", before "down".                *)
(***************************************************************************)
EXTENDS Schema, Integers

Migration(up, down) == [up |-> up, down |-> down, block |-> <<>>]
WithBlock(up, down, index) == [up |-> up, down |-> down, block |-> <<index>>]

GA == "gamma_aggregates"
GI == "gamma_aggregate_items"
OCS == "option_chain_snapshots"
WA == "whale_alerts"

AddAll(t, cs)  == [i \in DOMAIN cs |-> Add(t, cs[i], "req")]
DropAll(t, cs) == [i \in DOMAIN cs |-> Drop(t, cs[i])]
AddOptional(t, cs) == [i \in DOMAIN cs |-> AddMissing(t, cs[i], "opt")]
NewTable(t, cols, keys, refs) ==
  Migration(<<Create(t, cols, keys, refs)>>, <<DropTable(t)>>)

InitialSchema ==
  Migration(
   <<Create("underlyings", Columns({"symbol", "kind"}, {"id", "is_priority"}, {}),
            {{"id"}, {"symbol"}}, {}),
     Kinds({"equity", "index"}),
     Create("option_contracts",
            Columns({"underlying_id", "strike", "expiration", "contract_type",
                     "occ_symbol"}, {"id"}, {}),
            {{"id"}, {"occ_symbol"}}, {ToUnderlying("option_contracts")}),
     Create(OCS, Columns({"time", "contract_id", "bid", "ask", "last", "volume",
                          "open_interest", "iv", "delta", "gamma"}, {},
                         {"theta", "vega"}),
            {}, {Ref(OCS, {"contract_id"}, "option_contracts", {"id"})}),
     Create(GA, Columns({"time", "underlying_id", "gamma_flip", "call_wall",
                         "put_wall", "max_pain", "net_gamma",
                         "dealer_gamma_notional"}, {}, {}),
            {}, {ToUnderlying(GA)}),
     Create("market_snapshots",
            Columns({"time", "underlying_id", "price", "volume"}, {}, {}),
            {}, {ToUnderlying("market_snapshots")}),
     Create("flow_events", Columns({"time", "contract_id", "event_type",
                                    "premium", "size", "aggressor_side"}, {}, {}),
            {}, {Ref("flow_events", {"contract_id"}, "option_contracts", {"id"})})>>,
   <<DropTable("flow_events"), DropTable("market_snapshots"), DropTable(GA),
     DropTable(OCS), DropTable("option_contracts"), DropTable("underlyings")>>)

CharmVannaLeavesOne == Migration(AddAll(OCS, <<"charm", "vanna">>),
                                 DropAll(OCS, <<"vanna">>))
CharmVanna == Migration(AddAll(OCS, <<"charm", "vanna">>),
                        DropAll(OCS, <<"vanna", "charm">>))

ThetaVegaNotNull ==
  Migration(<<FillNulls(OCS, "theta"), FillNulls(OCS, "vega"),
              NotNull(OCS, "theta"), NotNull(OCS, "vega")>>,
            <<Nullable(OCS, "vega"), Nullable(OCS, "theta")>>)

SpotPrice == Migration(AddAll(OCS, <<"spot_price">>), DropAll(OCS, <<"spot_price">>))

DailyGammaReference ==
  NewTable("daily_gamma_reference",
           Columns({"date", "underlying_id", "net_gamma", "pc_oi_ratio",
                    "skew_25d"}, {}, {}),
           {{"underlying_id", "date"}}, {ToUnderlying("daily_gamma_reference")})

VegaThetaExposure == Migration(AddAll(GA, <<"vega_exposure", "theta_exposure">>),
                               DropAll(GA, <<"theta_exposure", "vega_exposure">>))
CharmExposure == Migration(AddAll(GA, <<"charm_exposure">>),
                           DropAll(GA, <<"charm_exposure">>))
ReferenceAtmIv == Migration(AddAll("daily_gamma_reference", <<"atm_iv">>),
                            DropAll("daily_gamma_reference", <<"atm_iv">>))
AbsoluteGammaStrike == Migration(AddAll(GA, <<"absolute_gamma_strike">>),
                                 DropAll(GA, <<"absolute_gamma_strike">>))

SeedEveryKind == Migration(<<Seed({"equity", "index", "future"})>>, <<>>)
\* Only the kinds the CHECK of this revision allows; nothing is undone.
SeedActive == Migration(<<Seed({"equity", "index"})>>, <<>>)

VannaExposure == Migration(AddAll(GA, <<"vanna_exposure">>),
                           DropAll(GA, <<"vanna_exposure">>))

WhaleThresholds ==
  Migration(
   <<CreateNew("whale_thresholds",
               Columns({"underlying_id", "unusual_min", "whale_min",
                        "unusual_multiplier", "whale_multiplier"}, {}, {}),
               {{"underlying_id"}}, {ToUnderlying("whale_thresholds")}),
     ResetThresholds>>,
   <<DropTable("whale_thresholds")>>)

DailyBars ==
  NewTable("daily_bars",
           Columns({"date", "underlying_id", "open", "high", "low", "close"}, {}, {}),
           {{"underlying_id", "date"}}, {ToUnderlying("daily_bars")})

GammaItems ==
  Migration(
   <<AddKey(GA, {"underlying_id", "time"}),
     Create(GI, Columns({"underlying_id", "time", "strike",
                         "total_gamma_exposure", "call_gamma_exposure",
                         "put_gamma_exposure", "net_gamma", "contract_count",
                         "absolute_gamma"}, {"open_interest", "volume"}, {}),
            {{"underlying_id", "time", "strike"}},
            {Ref(GI, {"underlying_id", "time"}, GA, {"underlying_id", "time"})})>>,
   <<DropTable(GI), DropKey(GA, {"underlying_id", "time"})>>)

FutureKind ==
  Migration(<<Kinds({"equity", "index", "future"}),
              Seed({"equity", "index", "future"})>>,
            <<DeleteFutures, Kinds({"equity", "index"})>>)

SustainedFlow ==
  Migration(<<Add("whale_thresholds", "sustained_flow_min", "opt"),
              FillNulls("whale_thresholds", "sustained_flow_min"),
              NotNull("whale_thresholds", "sustained_flow_min")>>,
            DropAll("whale_thresholds", <<"sustained_flow_min">>))

ScreenerPresets ==
  Migration(<<CreateNew("screener_preset_settings",
                        Columns({"preset", "parameters"}, {}, {}), {{"preset"}}, {})>>,
            <<DropTable("screener_preset_settings")>>)

\* 0018, 0019 and 0033: the whole seed again, thresholds for the new symbols
\* only, so that a customised row stays as it is.
SeedSymbols(us) ==
  Migration(<<Seed({"equity", "index", "future"}), Thresholds(us)>>,
            <<Delete("whale_thresholds", us), Delete("underlyings", us)>>)
SeedNdxReset ==
  Migration(<<Seed({"equity", "index", "future"}), ResetThresholds>>,
            <<Delete("whale_thresholds", {"NDX"}), Delete("underlyings", {"NDX"})>>)
SeedNdx   == SeedSymbols({"NDX"})
SeedAapl  == SeedSymbols({"AAPL", "MSFT", "DIA"})
SeedNq    == SeedSymbols({"NQ"})

AggregateTotals ==
  LET new == <<"total_market_gamma", "positive_gamma", "negative_gamma",
               "peak_gamma_value">>
  IN  Migration(AddAll(GA, new), DropAll(GA, new))

FlipNullable == Migration(<<Nullable(GA, "gamma_flip")>>, <<NotNull(GA, "gamma_flip")>>)

MinuteBars ==
  NewTable("minute_bars",
           Columns({"time", "underlying_id", "open", "high", "low", "close",
                    "volume"}, {}, {}),
           {{"underlying_id", "time"}}, {ToUnderlying("minute_bars")})

WhaleAlerts ==
  NewTable(WA, Columns({"time", "underlying_id", "occ_symbol", "alert_type",
                        "amount", "estimated_buy_volume",
                        "estimated_sell_volume"}, {}, {}),
           {}, {ToUnderlying(WA)})

RequestSlotRows ==
  NewTable("theta_request_slots", Columns({"slot"}, {}, {"acquired_at", "holder"}),
           {{"slot"}}, {})

FlowPressure ==
  NewTable("symbol_flow_pressure",
           Columns({"underlying_id", "as_of", "net_call_premium",
                    "net_put_premium", "rolling_net_call_premium",
                    "rolling_net_put_premium", "rolling_window_minutes"}, {}, {}),
           {{"underlying_id"}}, {ToUnderlying("symbol_flow_pressure")})

QuoteUnavailable == Migration(<<AddMissing(WA, "quote_unavailable", "def")>>,
                              DropAll(WA, <<"quote_unavailable">>))
DeltaExposure == Migration(AddAll(GA, <<"delta_exposure">>),
                           DropAll(GA, <<"delta_exposure">>))

CumulativeVolumeTable ==
  NewTable("contract_cumulative_volume",
           Columns({"occ_symbol", "volume", "updated_at"}, {}, {}),
           {{"occ_symbol"}}, {})

AggregateViewNarrowKey ==
  Migration(<<Add(GA, "view", "req"), Add(GI, "view", "req")>>,
            <<DeleteTactical(GI), DeleteTactical(GA),
              Drop(GI, "view"), Drop(GA, "view")>>)
AggregateViewKeyFirst ==
  LET narrow == {"underlying_id", "time"}
      wide   == {"underlying_id", "time", "view"}
  IN  Migration(
       <<Add(GA, "view", "req"), Add(GI, "view", "req"),
         DropRef(Ref(GI, narrow, GA, narrow)),
         DropKey(GI, narrow \cup {"strike"}), DropKey(GA, narrow),
         AddKey(GA, wide), AddKey(GI, wide \cup {"strike"}),
         AddRef(Ref(GI, wide, GA, wide))>>,
       <<DeleteTactical(GI), DeleteTactical(GA), DropKey(GA, wide),
         DropRef(Ref(GI, wide, GA, wide)), DropKey(GI, wide \cup {"strike"}),
         Drop(GI, "view"), Drop(GA, "view"),
         AddKey(GA, narrow), AddKey(GI, narrow \cup {"strike"}),
         AddRef(Ref(GI, narrow, GA, narrow))>>)

\* The child's foreign key goes before the parent's key, and comes back after.
AggregateView ==
  LET narrow == {"underlying_id", "time"}
      wide   == {"underlying_id", "time", "view"}
  IN  Migration(
       <<Add(GA, "view", "req"), Add(GI, "view", "req"),
         DropRef(Ref(GI, narrow, GA, narrow)),
         DropKey(GI, narrow \cup {"strike"}), DropKey(GA, narrow),
         AddKey(GA, wide), AddKey(GI, wide \cup {"strike"}),
         AddRef(Ref(GI, wide, GA, wide))>>,
       <<DeleteTactical(GI), DeleteTactical(GA),
         DropRef(Ref(GI, wide, GA, wide)), DropKey(GI, wide \cup {"strike"}),
         Drop(GI, "view"), DropKey(GA, wide), Drop(GA, "view"),
         AddKey(GA, narrow), AddKey(GI, narrow \cup {"strike"}),
         AddRef(Ref(GI, narrow, GA, narrow))>>)

NullableWalls ==
  Migration(<<Nullable(GA, "call_wall"), Nullable(GA, "put_wall")>>,
            <<FillNulls(GA, "call_wall"), FillNulls(GA, "put_wall"),
              NotNull(GA, "call_wall"), NotNull(GA, "put_wall")>>)

Users ==
  NewTable("users", Columns({"username", "password_hash", "salt"},
                            {"id", "is_admin", "created_at"}, {}),
           {{"id"}, {"username"}}, {})

Invites ==
  NewTable("invites", Columns({"token", "username", "expires_at"},
                              {"id", "is_admin", "created_at"}, {"used_at"}),
           {{"id"}, {"token"}}, {})

FutureAnchors ==
  NewTable("future_price_anchors",
           Columns({"underlying_id", "session_date", "anchor_price"},
                   {"updated_at"}, {}),
           {{"underlying_id", "session_date"}},
           {ToUnderlying("future_price_anchors")})

\* Prices and bars of NQ are not deleted: one of them makes the last line fail.
RemoveNq ==
  Migration(<<Delete("whale_thresholds", {"NQ"}), Delete(GI, {"NQ"}),
              Delete(GA, {"NQ"}), Delete("future_price_anchors", {"NQ"}),
              Delete("underlyings", {"NQ"})>>,
            <<SeedOne("NQ")>>)

SnapshotUnderlying ==
  WithBlock(<<AddMissing(OCS, "underlying_id", "opt"), AddRef(ToUnderlying(OCS))>>,
            DropAll(OCS, <<"underlying_id">>),
            [table |-> OCS, col |-> "underlying_id"])

MarketSnapshotIndex ==
  WithBlock(<<>>, <<>>, [table |-> "market_snapshots", col |-> "underlying_id"])

ContextTags ==
  LET new == <<"moneyness", "near_gamma_level", "repeat_count">>
  IN  Migration(AddOptional(WA, new), DropAll(WA, new))
NearMoneyWidth == Migration(AddOptional(GA, <<"near_the_money_width">>),
                            DropAll(GA, <<"near_the_money_width">>))

QuoteMinutes ==
  NewTable("option_quote_minutes",
           Columns({"time", "occ_symbol", "bid", "ask", "quote_time"}, {}, {}),
           {{"time", "occ_symbol"}}, {})

AlertConditions == Migration(AddOptional(WA, <<"condition_premium">>),
                             DropAll(WA, <<"condition_premium">>))
ItemGreeks ==
  Migration(AddOptional(GI, <<"delta_exposure", "vanna_exposure", "charm_exposure">>),
            DropAll(GI, <<"charm_exposure", "vanna_exposure", "delta_exposure">>))

LargePrintsTable ==
  NewTable("large_trade_prints",
           Columns({"time", "symbol", "price", "size", "received_at"}, {"id"},
                   {"condition", "exchange", "at_market"}),
           {{"id"}}, {})

VolumeCorrections ==
  NewTable("contract_volume_corrections",
           Columns({"occ_symbol", "volume", "as_of"}, {}, {}), {{"occ_symbol"}}, {})

AlertSimpleFlow == Migration(AddOptional(WA, <<"simple_flow">>),
                             DropAll(WA, <<"simple_flow">>))
AlertCubeData == Migration(AddOptional(WA, <<"delta", "contracts">>),
                           DropAll(WA, <<"contracts", "delta">>))

FastItems ==
  NewTable("gamma_fast_items",
           Columns({"underlying_id", "time", "strike", "spot",
                    "total_gamma_exposure", "call_gamma_exposure",
                    "put_gamma_exposure", "net_gamma", "contract_count",
                    "absolute_gamma"}, {"view", "open_interest", "volume"},
                   {"delta_exposure", "vanna_exposure", "charm_exposure"}),
           {{"underlying_id", "view", "time", "strike"}}, {})

MinuteFlow ==
  NewTable("minute_option_flow",
           Columns({"minute", "symbol", "root"},
                   {"calls_delta_flow", "puts_delta_flow", "trades_classified",
                    "trades_unclassified", "contracts_classified",
                    "contracts_total"}, {}),
           {{"symbol", "minute", "root"}}, {})

AlertTradeTime == Migration(AddOptional(WA, <<"trade_start", "trade_minutes">>),
                            DropAll(WA, <<"trade_minutes", "trade_start">>))

StrikeFlow ==
  NewTable("minute_strike_flow",
           Columns({"minute", "symbol", "expiration", "strike", "option_right"},
                   {"delta_flow", "contracts_signed", "contracts_package",
                    "contracts_other", "buy_premium", "sell_premium"}, {}),
           {{"symbol", "minute", "expiration", "strike", "option_right"}}, {})

InvitePurpose == Migration(<<AddMissing("invites", "purpose", "def")>>,
                           DropAll("invites", <<"purpose">>))
QuoteMinuteRange ==
  LET new == <<"mid_high", "mid_low", "trade_high", "trade_low">>
  IN  Migration(AddOptional("option_quote_minutes", new),
                DropAll("option_quote_minutes", new))
AnchorSource == Migration(AddOptional("future_price_anchors", <<"source">>),
                          DropAll("future_price_anchors", <<"source">>))

IndexFallback ==
  NewTable("index_price_fallback",
           Columns({"symbol", "proxy", "active", "ratio", "reason", "since",
                    "updated_at"}, {}, {}),
           {{"symbol"}}, {})

FuturesLive ==
  Migration(
   <<Create("futures_live_quotes",
            Columns({"symbol", "contract", "last", "exchange_time",
                     "received_at"}, {}, {"bid", "ask"}), {{"symbol"}}, {}),
     Create("futures_live_bars",
            Columns({"symbol", "contract", "minute", "open", "high", "low",
                     "close", "volume", "session", "received_at"}, {},
                    {"index_price"}),
            {{"symbol", "contract", "minute"}}, {})>>,
   <<DropTable("futures_live_bars"), DropTable("futures_live_quotes")>>)

FuturesEvents ==
  NewTable("futures_events",
           Columns({"future", "contract", "at", "type", "side", "price",
                    "price_low", "price_high", "volume", "detail", "translated",
                    "received_at"}, {"id"}, {}),
           {{"id"}}, {})

ChartSettings ==
  NewTable("user_chart_settings", Columns({"user_id", "settings"}, {"updated_at"}, {}),
           {{"user_id"}}, {})

ToUser(t) == Ref(t, {"user_id"}, "users", {"id"})
EmaAlerts ==
  Migration(
   <<Create("telegram_chats", Columns({"user_id", "chat_id"}, {"linked_at"}, {}),
            {{"user_id"}}, {ToUser("telegram_chats")}),
     Create("telegram_link_codes",
            Columns({"code", "user_id", "expires_at"}, {}, {}),
            {{"code"}}, {ToUser("telegram_link_codes")}),
     Create("ema_alert_rules",
            Columns({"user_id", "symbol", "timeframe"},
                    {"id", "fast_period", "slow_period", "direction", "enabled",
                     "created_at"},
                    {"last_state", "last_candle", "last_fired_at"}),
            {{"id"}, {"user_id", "symbol", "timeframe", "fast_period",
                      "slow_period"}}, {ToUser("ema_alert_rules")})>>,
   <<DropTable("ema_alert_rules"), DropTable("telegram_link_codes"),
     DropTable("telegram_chats")>>)

-----------------------------------------------------------------------------
\* The chain of down_revision, oldest first.
Chain ==
  <<InitialSchema, CharmVanna, ThetaVegaNotNull, SpotPrice, DailyGammaReference,
    VegaThetaExposure, CharmExposure, ReferenceAtmIv, AbsoluteGammaStrike,
    SeedActive, VannaExposure, WhaleThresholds, DailyBars, GammaItems,
    FutureKind, SustainedFlow, ScreenerPresets, SeedNdx, SeedAapl,
    AggregateTotals, FlipNullable, MinuteBars, WhaleAlerts, RequestSlotRows,
    FlowPressure, QuoteUnavailable, DeltaExposure, CumulativeVolumeTable,
    AggregateView, NullableWalls, Users, Invites, SeedNq, FutureAnchors,
    RemoveNq, SnapshotUnderlying, MarketSnapshotIndex, ContextTags,
    NearMoneyWidth, QuoteMinutes, AlertConditions, ItemGreeks, LargePrintsTable,
    VolumeCorrections, AlertSimpleFlow, AlertCubeData, FastItems, MinuteFlow,
    AlertTradeTime, StrikeFlow, InvitePurpose, QuoteMinuteRange, AnchorSource,
    IndexFallback, FuturesLive, FuturesEvents, ChartSettings, EmaAlerts>>

Newest == Len(Chain)
=============================================================================
