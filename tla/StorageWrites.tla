---------------------------- MODULE StorageWrites ----------------------------
(***************************************************************************)
(* The INSERT statements of the storage adapters: the columns each writes  *)
(* and the columns of its ON CONFLICT clause ({} when it has none).        *)
(***************************************************************************)
EXTENDS Migrations

Insert(t, cols)         == [table |-> t, cols |-> cols, target |-> {}]
Upsert(t, cols, target) == [table |-> t, cols |-> cols \cup target, target |-> target]

SettingsWrites ==
  {Upsert("whale_thresholds", {"unusual_min", "whale_min", "unusual_multiplier",
                               "whale_multiplier", "sustained_flow_min"},
          {"underlying_id"}),
   Insert("users", {"username", "password_hash", "salt", "is_admin"}),
   Insert("invites", {"token", "username", "is_admin", "expires_at", "purpose"}),
   Upsert("screener_preset_settings", {"parameters"}, {"preset"})}

ChainWrites ==
  {Upsert("option_contracts", {"underlying_id", "strike", "expiration",
                               "contract_type"}, {"occ_symbol"}),
   Insert(OCS, {"time", "contract_id", "underlying_id", "bid", "ask", "last",
                "volume", "open_interest", "iv", "delta", "gamma", "theta",
                "vega", "charm", "vanna", "spot_price"})}

ItemColumns == {"total_gamma_exposure", "call_gamma_exposure",
                "put_gamma_exposure", "net_gamma", "contract_count",
                "absolute_gamma", "open_interest", "volume", "delta_exposure",
                "vanna_exposure", "charm_exposure"}
AggregateWrites ==
  {Upsert(GA, {"gamma_flip", "call_wall", "put_wall", "near_the_money_width",
               "max_pain", "net_gamma", "dealer_gamma_notional",
               "vega_exposure", "theta_exposure", "charm_exposure",
               "vanna_exposure", "delta_exposure", "absolute_gamma_strike",
               "total_market_gamma", "positive_gamma", "negative_gamma",
               "peak_gamma_value"}, {"underlying_id", "time", "view"}),
   Upsert(GI, ItemColumns, {"underlying_id", "time", "view", "strike"})}
FastWrites ==
  {Upsert("gamma_fast_items", ItemColumns \cup {"spot"},
          {"underlying_id", "view", "time", "strike"})}

PriceRowWrites ==
  {Insert("market_snapshots", {"time", "underlying_id", "price", "volume"})}
FlowEventWrites ==
  {Insert("flow_events", {"time", "contract_id", "event_type", "premium", "size",
                          "aggressor_side"})}
ReferenceWrites ==
  {Upsert("daily_gamma_reference", {"net_gamma", "pc_oi_ratio", "skew_25d",
                                    "atm_iv"}, {"underlying_id", "date"})}
DailyBarWrites ==
  {Upsert("daily_bars", {"open", "high", "low", "close"}, {"underlying_id", "date"})}
AlertWrites ==
  {Insert(WA, {"time", "underlying_id", "occ_symbol", "alert_type", "amount",
               "estimated_buy_volume", "estimated_sell_volume",
               "quote_unavailable", "moneyness", "near_gamma_level",
               "repeat_count", "condition_premium", "simple_flow", "delta",
               "contracts", "trade_start", "trade_minutes"})}
PressureWrites ==
  {Upsert("symbol_flow_pressure",
          {"as_of", "net_call_premium", "net_put_premium",
           "rolling_net_call_premium", "rolling_net_put_premium",
           "rolling_window_minutes"}, {"underlying_id"})}
VolumeWrites ==
  {Upsert("contract_cumulative_volume", {"volume", "updated_at"}, {"occ_symbol"}),
   Upsert("contract_volume_corrections", {"volume", "as_of"}, {"occ_symbol"})}
MinuteBarWrites ==
  {Upsert("minute_bars", {"open", "high", "low", "close", "volume"},
          {"underlying_id", "time"})}
AnchorWrites ==
  {Upsert("future_price_anchors", {"anchor_price", "source"},
          {"underlying_id", "session_date"})}
FallbackWrites ==
  {Upsert("index_price_fallback", {"proxy", "active", "ratio", "reason", "since",
                                   "updated_at"}, {"symbol"})}
FuturesWrites ==
  {Upsert("futures_live_quotes", {"contract", "last", "bid", "ask",
                                  "exchange_time", "received_at"}, {"symbol"}),
   Upsert("futures_live_bars", {"open", "high", "low", "close", "volume",
                                "session", "index_price", "received_at"},
          {"symbol", "contract", "minute"}),
   Insert("futures_events", {"future", "contract", "at", "type", "side", "price",
                             "price_low", "price_high", "volume", "detail",
                             "translated", "received_at"})}
ChartSettingsWrites ==
  {Upsert("user_chart_settings", {"settings", "updated_at"}, {"user_id"})}
UnderlyingWrites ==
  {Upsert("underlyings", {"kind", "is_priority"}, {"symbol"})}
QuoteMinuteWrites ==
  {Upsert("option_quote_minutes", {"bid", "ask", "quote_time", "mid_high",
                                   "mid_low", "trade_high", "trade_low"},
          {"time", "occ_symbol"})}
MinuteFlowWrites ==
  {Upsert("minute_option_flow",
          {"calls_delta_flow", "puts_delta_flow", "trades_classified",
           "trades_unclassified", "contracts_classified", "contracts_total"},
          {"symbol", "minute", "root"})}
StrikeFlowWrites ==
  {Upsert("minute_strike_flow",
          {"delta_flow", "contracts_signed", "contracts_package",
           "contracts_other", "buy_premium", "sell_premium"},
          {"symbol", "minute", "expiration", "strike", "option_right"})}
PrintWrites ==
  {Insert("large_trade_prints", {"time", "symbol", "price", "size", "condition",
                                 "exchange", "at_market", "received_at"})}
EmaWrites ==
  {Upsert("ema_alert_rules", {"direction"},
          {"user_id", "symbol", "timeframe", "fast_period", "slow_period"}),
   Insert("telegram_link_codes", {"code", "user_id", "expires_at"}),
   Upsert("telegram_chats", {"chat_id"}, {"user_id"})}

Writes ==
  UNION {SettingsWrites, ChainWrites, AggregateWrites, FastWrites,
         PriceRowWrites, FlowEventWrites, ReferenceWrites, DailyBarWrites,
         AlertWrites, PressureWrites, VolumeWrites, MinuteBarWrites,
         AnchorWrites, FallbackWrites, FuturesWrites, ChartSettingsWrites,
         UnderlyingWrites, QuoteMinuteWrites, MinuteFlowWrites,
         StrikeFlowWrites, PrintWrites, EmaWrites}

\* A write fits when its columns exist, none that must be given is missing,
\* and its ON CONFLICT columns are a key.
WriteFits(db, w) ==
  /\ w.table \in Tables(db)
  /\ w.cols \subseteq DOMAIN db.cols[w.table]
  /\ \A c \in DOMAIN db.cols[w.table] :
        db.cols[w.table][c] = "req" => c \in w.cols
  /\ w.target # {} => Key(w.table, w.target) \in db.keys
=============================================================================
