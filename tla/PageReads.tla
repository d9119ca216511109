------------------------------ MODULE PageReads ------------------------------
(***************************************************************************)
(* What a page is told (read_models.py and the reads of gamma.py): the     *)
(* stored answer of the symbol, of the index behind a future moved by its  *)
(* offset, or why there is none.                                           *)
(*                                                                         *)
(* A storage is a record st: the time, and by symbol the readings of the   *)
(* price, the gamma views, the chains (by symbol and expiration, None for  *)
(* the whole), the daily bars, the flow and, for a future, what            *)
(* FutureLevels needs to know of it (future).  A chain keeps its second    *)
(* (taken_at) next to its day.  An answer is a value or a reason.          *)
(***************************************************************************)
EXTENDS FutureLevels

Found(value) == [found |-> TRUE, value |-> value]
NotFound == [found |-> FALSE, why |-> "not found"]
NoOpeningPrice == [found |-> FALSE, why |-> "no opening price"]

(* A page of a future: the index's answer moved, or the reason it cannot.  *)
Moved(answer, offset, missing, moved) ==
  IF offset = None THEN missing
  ELSE IF answer.found THEN Found(moved) ELSE answer

Stored(table, key) == IF key \in DOMAIN table THEN Found(table[key]) ELSE NotFound

FutureOffset(st, future) == resolve_future_offset(future, st.future[future], NoCaches).offset

VWAP_PROXY_SYMBOL_BY_INDEX == [s \in {"SPX", "NDX"} |-> IF s = "SPX" THEN "SPY" ELSE "QQQ"]
is_pure_index(symbol) == symbol \in {"SPX", "NDX", "VIX"}
CHAIN_STORED_MAX_AGE_SECONDS == 60

-----------------------------------------------------------------------------
(* Gamma.                                                                  *)

get_gamma_exposure(st, symbol, view) ==
  LET Move(answer, offset) ==
        IF ~answer.found THEN NotFound
        ELSE Moved(answer, offset, Found(empty_future_aggregate(answer.value)),
                   shift_gamma_aggregate(answer.value, offset))
  IN  IF ~IsFuture(symbol) THEN Stored(st.gamma, <<symbol, view>>)
      ELSE Move(Stored(st.gamma, <<PRICE_PROXY_SYMBOL_BY_FUTURE[symbol], view>>),
                FutureOffset(st, symbol))

(* The history of a future starts at the open of the index's last session: *)
(* its offset is that session's.                                           *)
get_gamma_history(st, symbol, start, end, view) ==
  LET Rows(s, from) == {g \in st.gamma_rows : /\ g.symbol = s /\ g.view = view
                                              /\ from <= g.taken_at /\ g.taken_at <= end}
      RowsMoved(proxy, offset) ==
        IF offset = None \/ st.prices[proxy] = {} THEN {}
        ELSE {shift_gamma_aggregate(g, offset) :
                g \in Rows(proxy, Larger(start, calculate_session_open(Latest(st.prices[proxy]).as_of)))}
  IN  IF ~IsFuture(symbol) THEN Rows(symbol, start)
      ELSE RowsMoved(PRICE_PROXY_SYMBOL_BY_FUTURE[symbol], FutureOffset(st, symbol))

get_gamma_heatmap(st, symbol) ==
  LET Move(answer, offset) ==
        Moved(answer, offset, NoOpeningPrice, {k + offset : k \in answer.value})
  IN  IF ~IsFuture(symbol) THEN Stored(st.heatmap, symbol)
      ELSE Move(Stored(st.heatmap, PRICE_PROXY_SYMBOL_BY_FUTURE[symbol]), FutureOffset(st, symbol))

-----------------------------------------------------------------------------
(* The chain.  A stored one is served when it is fresh, when the market is *)
(* closed, when its expiration is over or when the provider fails; the     *)
(* provider's own has the counted volumes merged in.                       *)

is_expired_expiration(expiration, now) == expiration # None /\ expiration < DayOf(now)

(* Only a contract without a volume of its own takes the counted one.      *)
merge_cumulative_volume(chain, counted) ==
  [chain EXCEPT !.contracts =
     {IF c.volume = 0 /\ c.occ_symbol \in DOMAIN counted
      THEN [c EXCEPT !.volume = counted[c.occ_symbol]] ELSE c : c \in @}]

LOCAL ChainMoved(answer, offset) ==
  IF ~answer.found THEN NotFound
  ELSE Moved(answer, offset, NotFound, shift_option_chain(answer.value, offset))

get_option_chain_expirations(st, symbol) ==
  IF ~IsFuture(symbol) THEN Stored(st.chains, <<symbol, None>>)
  ELSE ChainMoved(Stored(st.chains, <<PRICE_PROXY_SYMBOL_BY_FUTURE[symbol], None>>),
                  FutureOffset(st, symbol))

IndexChain(st, symbol, expiration, live) ==
  LET Fresh(chain) == \/ st.now - chain.taken_at <= CHAIN_STORED_MAX_AGE_SECONDS
                      \/ ~is_market_open(st.now, {})
      Serve(stored) ==
        IF is_expired_expiration(expiration, st.now) THEN stored
        ELSE IF IF stored.found THEN Fresh(stored.value) ELSE FALSE THEN stored
        ELSE IF live = None THEN stored
        ELSE Found(merge_cumulative_volume(live, st.counted))
  IN  Serve(Stored(st.chains, <<symbol, expiration>>))

(* The synchronous read never asks the provider for a future; the other    *)
(* one may, for the chain of its index.                                    *)
get_option_chain(st, symbol, expiration, live) ==
  IF IsFuture(symbol) THEN get_option_chain_expirations(st, symbol)
  ELSE IndexChain(st, symbol, expiration, live)

get_option_chain_async(st, symbol, expiration, live) ==
  IF ~IsFuture(symbol) THEN IndexChain(st, symbol, expiration, live)
  ELSE ChainMoved(IndexChain(st, PRICE_PROXY_SYMBOL_BY_FUTURE[symbol], expiration, live),
                  FutureOffset(st, symbol))

-----------------------------------------------------------------------------
(* Prices.  The series of a future are moved by the anchor alone.          *)

future_price_offset(st, future) ==
  AnchorOffset(st.future[future], [d \in {} |-> 0]).offset

SessionReadingsOf(st, symbol) ==
  IF st.prices[symbol] = {} THEN {} ELSE OfSession(st.prices[symbol], Latest(st.prices[symbol]).as_of)

get_price_history(st, symbol) ==
  LET Line(readings, offset) ==
        IF offset = None THEN {} ELSE {[r EXCEPT !.price = @ + offset] : r \in readings}
  IN  IF ~IsFuture(symbol) THEN SessionReadingsOf(st, symbol)
      ELSE Line(SessionReadingsOf(st, PRICE_PROXY_SYMBOL_BY_FUTURE[symbol]),
                future_price_offset(st, symbol))

IndexVwapHistory(st, symbol) ==
  LET as_of == Latest(st.prices[symbol]).as_of
      proxied == symbol \in DOMAIN VWAP_PROXY_SYMBOL_BY_INDEX
  IN  IF ~proxied /\ is_pure_index(symbol) THEN [series |-> <<>>, not_applicable |-> TRUE]
      ELSE [not_applicable |-> FALSE,
            series |-> IF st.prices[symbol] = {} THEN <<>>
                       ELSE IF proxied
                       THEN calculate_proxy_anchored_vwap_series(
                              st.prices[symbol], st.prices[VWAP_PROXY_SYMBOL_BY_INDEX[symbol]], as_of)
                       ELSE calculate_anchored_vwap_series(st.prices[symbol], as_of, FALSE)]

get_vwap_history(st, symbol) ==
  LET Line(of, offset) ==
        IF offset = None THEN [series |-> <<>>, not_applicable |-> FALSE]
        ELSE [of EXCEPT !.series = [i \in DOMAIN @ |-> ShiftPoint(@[i], offset)]]
  IN  IF ~IsFuture(symbol) THEN IndexVwapHistory(st, symbol)
      ELSE Line(IndexVwapHistory(st, PRICE_PROXY_SYMBOL_BY_FUTURE[symbol]),
                future_price_offset(st, symbol))

(* The candles of several sessions, read at most every 30 seconds; a       *)
(* future has none.                                                        *)
CANDLE_CACHE_TTL_SECONDS == 30
get_price_candles(st, symbol, entry) ==
  IF IsFuture(symbol) THEN NotFound
  ELSE Found(IF Cached(entry, st.now, CANDLE_CACHE_TTL_SECONDS) THEN entry.candles
             ELSE st.candles[symbol])

get_symbol_flow_pressure(st, symbol) == Stored(st.pressure, symbol)

-----------------------------------------------------------------------------
(* The page of one symbol.                                                 *)

IndexSnapshot(st, symbol) ==
  LET gamma == Stored(st.gamma, <<symbol, "tactical">>)
      chain == Stored(st.chains, <<symbol, None>>)
      proxied == symbol \in DOMAIN VWAP_PROXY_SYMBOL_BY_INDEX
      OpenOf(history) == IF history = {} THEN None ELSE ByTime(history)[1].price
      Snapshot(price, history, open) == Found(
        [symbol |-> symbol, as_of |-> price.as_of, price |-> price.price, volume |-> price.volume,
         gamma |-> gamma.value,
         expected_move |-> calculate_expected_move(chain.value, price.as_of, open),
         anchored_vwap |->
           IF proxied THEN calculate_proxy_anchored_vwap(
                             history, st.prices[VWAP_PROXY_SYMBOL_BY_INDEX[symbol]], price.as_of,
                             VWAP_PROXY_SYMBOL_BY_INDEX[symbol])
           ELSE calculate_anchored_vwap(history, price.as_of, is_pure_index(symbol)),
         atr_range |-> calculate_atr_range(st.daily_bars[symbol], history),
         closing_dynamics |-> calculate_closing_dynamics(gamma.value, price.price,
                                                         calculate_time_to_close_pct(price.as_of)),
         recent_flow |-> st.recent_flow[symbol]])
      SnapshotAt(price, history) == Snapshot(price, history, OpenOf(history))
  IN  IF st.prices[symbol] = {} \/ ~gamma.found \/ ~chain.found THEN NotFound
      ELSE SnapshotAt(Latest(st.prices[symbol]),
                      OfSession(st.prices[symbol], Latest(st.prices[symbol]).as_of))

(* The page of a future asks for the offset before anything else.          *)
build_market_snapshot(st, symbol) ==
  LET Move(answer, offset) ==
        Moved(answer, offset, NoOpeningPrice, shift_market_snapshot(answer.value, offset))
  IN  IF ~IsFuture(symbol) THEN IndexSnapshot(st, symbol)
      ELSE Move(IndexSnapshot(st, PRICE_PROXY_SYMBOL_BY_FUTURE[symbol]), FutureOffset(st, symbol))
=============================================================================
