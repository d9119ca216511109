-------------------------- MODULE SessionReadings ---------------------------
(***************************************************************************)
(* What the pages derive from one session: the opening reference, the      *)
(* anchored VWAP and its proxy form, candles, the expected move, closing   *)
(* dynamics, the derived metrics and the daily reference they are ranked   *)
(* against (calculate_anchored_vwap.py, replay.py, calculate_expected_     *)
(* move.py, calculate_closing_dynamics.py, calculate_derived_metrics.py).  *)
(*                                                                         *)
(* A time is a number of seconds of New York time since the midnight that  *)
(* begins day 0; a reading is a record of as_of, price and volume, and no  *)
(* two readings of a symbol have one as_of.  Prices are even, so that half *)
(* the sum of two of them is a number of the same kind.                    *)
(***************************************************************************)
EXTENDS Numbers, Entities

DaySeconds == 86400
DayOf(t) == t \div DaySeconds
TimeOf(t) == t % DaySeconds
MARKET_OPEN_ET == 34200
MARKET_CLOSE_ET == 57600
TRADE_DATE_OPENS_ET == 72900

ByTime(readings) == InOrder(readings, LAMBDA r : r.as_of)

-----------------------------------------------------------------------------
(* The clock: day 0 is a Monday.                                           *)

IsWeekend(t) == DayOf(t) % 7 \in {5, 6}

is_market_open(now, holidays) ==
  LET holiday == {h \in holidays : h.date = DayOf(now)}
      Within(from, to) == from <= TimeOf(now) /\ TimeOf(now) < to
  IN  /\ ~IsWeekend(now)
      /\ IF holiday = {} THEN Within(MARKET_OPEN_ET, MARKET_CLOSE_ET)
         ELSE \A h \in holiday :
                /\ h.closure_type # "full_close"
                /\ Within(IF h.open = None THEN MARKET_OPEN_ET ELSE h.open,
                          IF h.close = None THEN MARKET_CLOSE_ET ELSE h.close)

trade_date_of(now) == IF TimeOf(now) >= TRADE_DATE_OPENS_ET THEN DayOf(now) + 1 ELSE DayOf(now)
trade_date_start(now) == (trade_date_of(now) - 1) * DaySeconds + TRADE_DATE_OPENS_ET
next_trade_date_roll(now) == trade_date_of(now) * DaySeconds + TRADE_DATE_OPENS_ET

(* Before the instant the counters began to follow the trade date, the     *)
(* rows of the day are those since midnight.                               *)
volume_rows_since(now, counters_from) ==
  IF now < counters_from THEN Larger(trade_date_start(now), DayOf(now) * DaySeconds)
  ELSE trade_date_start(now)

calculate_session_open(as_of) == DayOf(as_of) * DaySeconds + MARKET_OPEN_ET

-----------------------------------------------------------------------------
(* The opening reference and the anchored VWAP.                            *)

OPENING_REFERENCE_SECONDS == 60

(* The readings of the minute that begins with the first one; it is over   *)
(* when that long has passed since a reading.                              *)
FirstMinute(readings) ==
  {r \in readings : \A s \in readings : r.as_of <= s.as_of + OPENING_REFERENCE_SECONDS}

MinuteOver(readings, as_of) ==
  \E s \in readings : as_of >= s.as_of + OPENING_REFERENCE_SECONDS

MedianPrice(readings) ==
  LET in == ByTime(readings)
  IN  TwiceMedian([i \in 1..Len(in) |-> in[i].price]) \div 2

(* The median of the first minute of readings, and whether that minute is  *)
(* over; None without a reading.                                           *)
opening_reference(readings, as_of) ==
  IF readings = {} THEN None
  ELSE [price |-> MedianPrice(FirstMinute(readings)), complete |-> MinuteOver(readings, as_of)]

PROXY_CLIP_WARMUP == 4
PROXY_BLOCK_CLIP_MULTIPLE == 3

OfSession(readings, as_of) ==
  {r \in readings : calculate_session_open(as_of) <= r.as_of /\ r.as_of <= as_of}

AddCarriedReading(sum, r, stale, clipped) ==
  LET interval == Larger(r.volume - sum.previous, 0)
      den == sum.den + interval
      num == sum.num + r.price * interval
  IN  [previous |-> r.volume, num |-> num, den |-> den, seen |-> sum.seen,
       series |-> IF den > 0 THEN Append(sum.series, [as_of |-> r.as_of, num |-> num, den |-> den])
                  ELSE sum.series]

(* One reading: how much was traded since the last one, a block clipped to *)
(* three medians of the intervals seen so far once four were seen.         *)
AddReading(sum, r, stale, clipped) ==
  LET volume == IF stale # None /\ r.volume = stale THEN sum.previous ELSE r.volume
      interval == Larger(volume - sum.previous, 0)
      used == IF clipped /\ interval > 0 /\ Len(sum.seen) >= PROXY_CLIP_WARMUP
              THEN Smaller(interval, (TwiceMedian(sum.seen) * PROXY_BLOCK_CLIP_MULTIPLE) \div 2)
              ELSE interval
      num == sum.num + r.price * used
      den == sum.den + used
  IN  [previous |-> volume, num |-> num, den |-> den,
       seen |-> IF clipped /\ interval > 0 THEN Append(sum.seen, interval) ELSE sum.seen,
       series |-> IF den > 0 THEN Append(sum.series, [as_of |-> r.as_of, num |-> num, den |-> den])
                  ELSE sum.series]

(* The series of fractions num / den.  When the counter of the first       *)
(* reading is larger than a later one it is yesterday's, and every reading *)
(* that repeats it counts nothing.                                         *)
calculate_anchored_vwap_series(readings, as_of, clipped) ==
  LET in == ByTime(OfSession(readings, as_of))
      stale == IF \E i \in 2..Len(in) : in[i].volume < in[1].volume THEN in[1].volume ELSE None
  IN  FoldLeft(LAMBDA sum, r : AddReading(sum, r, stale, clipped),
               [previous |-> 0, num |-> 0, den |-> 0, seen |-> <<>>, series |-> <<>>], in).series

(* The proxy's series carried over to the index by the ratio of the opens. *)
calculate_proxy_anchored_vwap_series(index_readings, proxy_readings, as_of) ==
  LET index == OfSession(index_readings, as_of)
      proxy == OfSession(proxy_readings, as_of)
      Carried(series, index_open, proxy_open) ==
        IF proxy_open = 0 THEN <<>>
        ELSE [i \in 1..Len(series) |-> [as_of |-> series[i].as_of, num |-> series[i].num * index_open,
                                        den |-> series[i].den * proxy_open]]
  IN  IF index = {} \/ proxy = {} THEN <<>>
      ELSE Carried(calculate_anchored_vwap_series(proxy_readings, as_of, TRUE),
                   opening_reference(index, as_of).price, opening_reference(proxy, as_of).price)

VwapOf(series, readings, as_of, proxy) ==
  [value |-> IF series = <<>> THEN None ELSE Last(series), provisional |-> series = <<>>,
   anchor_time |-> calculate_session_open(as_of), not_applicable |-> FALSE,
   sample_count |-> Cardinality(OfSession(readings, as_of)), proxy_symbol |-> proxy]

calculate_proxy_anchored_vwap(index_readings, proxy_readings, as_of, proxy_symbol) ==
  VwapOf(calculate_proxy_anchored_vwap_series(index_readings, proxy_readings, as_of),
         proxy_readings, as_of, proxy_symbol)

calculate_anchored_vwap(readings, as_of, not_applicable) ==
  IF not_applicable
  THEN [value |-> None, provisional |-> FALSE, anchor_time |-> calculate_session_open(as_of),
        sample_count |-> 0, not_applicable |-> TRUE, proxy_symbol |-> None]
  ELSE VwapOf(calculate_anchored_vwap_series(readings, as_of, FALSE), readings, as_of, None)

(* The running VWAP the stream keeps from the prints themselves; a new day *)
(* starts it again.                                                        *)
StreamVwapObserve(running, trade) ==
  LET t == TimeOf(trade.exchange_ts)
      of == IF running = None \/ running.session # DayOf(trade.exchange_ts)
            THEN [session |-> DayOf(trade.exchange_ts), price_volume |-> 0, volume |-> 0, trades |-> 0]
            ELSE running
  IN  IF trade.exchange_ts = None THEN running
      ELSE IF trade.size <= 0 \/ trade.price <= 0 \/ t < MARKET_OPEN_ET \/ t >= MARKET_CLOSE_ET
      THEN running
      ELSE [of EXCEPT !.price_volume = @ + trade.price * trade.size, !.volume = @ + trade.size,
                      !.trades = @ + 1]

-----------------------------------------------------------------------------
(* Candles and the per-minute line of a replayed day.                      *)

bucket_candles(readings, session_open, bucket_seconds, offset) ==
  LET index(r) == (r.as_of - session_open) \div bucket_seconds
      kept == {r \in readings : r.as_of >= session_open}
      Candle(n) ==
        LET in == ByTime({r \in kept : index(r) = n})
            prices == {in[i].price : i \in 1..Len(in)}
        IN  [time |-> session_open + n * bucket_seconds, open_price |-> in[1].price + offset,
             high |-> Max(prices) + offset, low |-> Min(prices) + offset,
             close |-> in[Len(in)].price + offset]
  IN  {Candle(n) : n \in {index(r) : r \in kept}}

per_minute(series, offset) ==
  LET Minute(p) == p.as_of - (p.as_of % 60)
      LastOfMinute(i) == \A j \in i + 1..Len(series) : Minute(series[j]) # Minute(series[i])
  IN  {[as_of |-> Minute(series[i]), num |-> series[i].num + offset * series[i].den,
        den |-> series[i].den] : i \in {n \in 1..Len(series) : LastOfMinute(n)}}

-----------------------------------------------------------------------------
(* The expected move.  A side is a set of contracts of one type at one     *)
(* expiration, one per strike; a mid is kept twice as large.               *)

SessionSeconds == MARKET_CLOSE_ET - MARKET_OPEN_ET
SecondsToClose(as_of) ==
  Smaller(SessionSeconds, Larger(0, MARKET_CLOSE_ET - TimeOf(as_of)))
calculate_time_to_close_pct(as_of) == (SecondsToClose(as_of) * 100) \div SessionSeconds

(* MIN_YEAR_FRACTION is 5 / 525,600 of a year, and the year fraction of    *)
(* today's expiration is the share of the session left over 365: T is too  *)
(* small when share / 365 < 5 / 525,600.                                   *)
EnoughTime(as_of, dte) ==
  dte > 0 \/ SecondsToClose(as_of) * 1440 >= 5 * SessionSeconds

MidPrice(c) == IF c.bid <= 0 \/ c.bid > c.ask THEN None ELSE c.bid + c.ask

StrikesOf(side) == {c.strike : c \in side}
At(side, strike) == CHOOSE c \in side : c.strike = strike

(* The strike whose call and put are closest in price, the lowest of       *)
(* equals, and twice the forward their difference implies.                 *)
SelectAtmStrikeAndForward(calls, puts) ==
  LET priced == {k \in StrikesOf(calls) \cap StrikesOf(puts) :
                   MidPrice(At(calls, k)) # None /\ MidPrice(At(puts, k)) # None}
      Gap(k) == MidPrice(At(calls, k)) - MidPrice(At(puts, k))
      best == CHOOSE k \in priced : \A j \in priced :
                Abs(Gap(k)) < Abs(Gap(j)) \/ (Abs(Gap(k)) = Abs(Gap(j)) /\ k <= j)
  IN  IF priced = {} THEN None ELSE [strike |-> best, twice_forward |-> 2 * best + Gap(best)]

SelectK0(strikes, twice_forward, atm_strike) ==
  LET below == {k \in strikes : 2 * k <= twice_forward}
  IN  IF below = {} THEN atm_strike ELSE Max(below)

WalkCountsEveryGap(side, outward) ==
  FoldLeft(LAMBDA w, k :
             LET c == At(side, k)
             IN  IF w.zeros >= 2 THEN w
                 ELSE IF c.bid <= 0 THEN [w EXCEPT !.zeros = @ + 1]
                 ELSE [w EXCEPT !.taken = @ \cup {k}],
           [zeros |-> 0, taken |-> {}], outward).taken

(* Walking away from the money, the strikes with a bid and a usable quote  *)
(* until two in a row have none.                                           *)
Walk(side, outward) ==
  FoldLeft(LAMBDA w, k :
             LET c == At(side, k)
             IN  IF w.zeros >= 2 THEN w
                 ELSE IF c.bid <= 0 THEN [w EXCEPT !.zeros = @ + 1]
                 ELSE [zeros |-> 0, taken |-> IF MidPrice(c) = None THEN w.taken
                                              ELSE w.taken \cup {k}],
           [zeros |-> 0, taken |-> {}], outward).taken

(* The strikes of the variance sum, each with four times its price.        *)
SelectOtmStrikes(calls, puts, k0) ==
  LET below == Walk(puts, Reverse(Ascending({k \in StrikesOf(puts) : k < k0})))
      above == Walk(calls, Ascending({k \in StrikesOf(calls) : k > k0}))
      both == {k \in StrikesOf(calls) \cap StrikesOf(puts) :
                 k = k0 /\ MidPrice(At(calls, k)) # None /\ MidPrice(At(puts, k)) # None}
  IN  [k \in below \cup above \cup both |->
         IF k \in both THEN MidPrice(At(calls, k)) + MidPrice(At(puts, k))
         ELSE 2 * MidPrice(IF k < k0 THEN At(puts, k) ELSE At(calls, k))]

(* Twice the width a strike stands for.                                    *)
StrikeInterval(in, i) ==
  IF Len(in) = 1 THEN 0
  ELSE IF i = 1 THEN 2 * (in[2] - in[1])
  ELSE IF i = Len(in) THEN 2 * (in[i] - in[i - 1])
  ELSE in[i + 1] - in[i - 1]

(* The year fraction cancels out of the sign, which is all that decides    *)
(* between the variance and the fallback; the scale keeps it an integer.   *)
VarianceScale == 10000
VarianceSign(selected, k0, twice_forward, enough_time) ==
  LET in == Ascending(DOMAIN selected)
      sum == FoldLeft(LAMBDA acc, i : acc + (VarianceScale * StrikeInterval(in, i) * selected[in[i]])
                                              \div (4 * in[i] * in[i]),
                      0, [i \in 1..Len(in) |-> i])
      excess == twice_forward - 2 * k0
  IN  IF Len(in) < 2 \/ ~enough_time THEN None
      ELSE sum - (VarianceScale * excess * excess) \div (4 * k0 * k0)

FallbackAtmIv(chain, atm_strike) ==
  LET Of(t) == {c \in chain.contracts : c.strike = atm_strike /\ c.contract_type = t}
      First(S) == CHOOSE c \in S : \A d \in S : c.expiration <= d.expiration
  IN  IF Of(CALL) = {} \/ Of(PUT) = {} THEN None
      ELSE (First(Of(CALL)).iv + First(Of(PUT)).iv) \div 2

(* Where the volatility of the expected move comes from, and the band: its *)
(* volatility stands for half its width, which only scales it.             *)
calculate_expected_move(chain, as_of, session_open_price) ==
  LET nearest == Min({c.expiration : c \in chain.contracts})
      Side(t) == {c \in chain.contracts : c.expiration = nearest /\ c.contract_type = t}
      strikes == StrikesOf(Side(CALL) \cup Side(PUT))
      NearestOf(listed) == CHOOSE k \in listed : \A j \in listed :
                             LET d(x) == Abs(x - chain.spot_price)
                             IN  d(k) < d(j) \/ (d(k) = d(j) /\ k <= j)
      anchor_price == IF session_open_price = None THEN chain.spot_price ELSE session_open_price
      Move(atm_strike, k0, selected, variance, fallback) ==
        LET from_variance == variance # None /\ variance > 0
            equivalent_iv == IF from_variance THEN variance
                             ELSE IF fallback = None THEN 0 ELSE fallback
        IN  [upper_bound |-> anchor_price + equivalent_iv,
             lower_bound |-> anchor_price - equivalent_iv,
             atm_strike |-> atm_strike, remaining_pct |-> calculate_time_to_close_pct(as_of),
             source |-> IF from_variance THEN "variance"
                        ELSE IF fallback = None THEN "none" ELSE "quoted",
             strikes |-> selected, k0 |-> k0,
             atm_iv |-> equivalent_iv]
      WithVariance(atm, k0, selected) ==
        Move(atm.strike, k0, DOMAIN selected,
             VarianceSign(selected, k0, atm.twice_forward,
                          EnoughTime(as_of, Larger(nearest - DayOf(as_of), 0))),
             FallbackAtmIv(chain, atm.strike))
      Around(atm, k0) == WithVariance(atm, k0, SelectOtmStrikes(Side(CALL), Side(PUT), k0))
      Unpriced(atm_strike) == Move(atm_strike, None, {}, None, FallbackAtmIv(chain, atm_strike))
      MoveOf(atm) == IF atm = None THEN Unpriced(NearestOf(strikes))
                     ELSE Around(atm, SelectK0(strikes, atm.twice_forward, atm.strike))
  IN  MoveOf(SelectAtmStrikeAndForward(Side(CALL), Side(PUT)))

-----------------------------------------------------------------------------
(* Closing dynamics.  Scores are in thousandths, the pin score in per cent.*)

CLOSING_WINDOW_THRESHOLD_PCT == 15
TOP_STRIKES_FOR_OI_CONCENTRATION == 3

MagnetStrike(items) ==
  CHOOSE i \in items : \A j \in items :
    Abs(i.net_gamma) > Abs(j.net_gamma)
      \/ (Abs(i.net_gamma) = Abs(j.net_gamma) /\ i.strike <= j.strike)

OiConcentrationScore(items) ==
  LET total == Total(items, LAMBDA i : i.open_interest)
      ranked == Sorted(items, LAMBDA i, j : i.open_interest > j.open_interest
                               \/ (i.open_interest = j.open_interest /\ i.strike < j.strike))
      top == Total(ToSet(FirstOf(TOP_STRIKES_FOR_OI_CONCENTRATION, ranked)),
                   LAMBDA i : i.open_interest)
  IN  IF total <= 0 THEN 0 ELSE Smaller((top * 2000) \div total, 1000)

(* Full within half a per cent of the price, then falling with distance.   *)
ProximityScore(magnet, price) ==
  LET distance == Abs(magnet.strike - price)
  IN  IF price <= 0 THEN 0
      ELSE IF distance * 200 <= price THEN 1000
      ELSE (price * 5) \div distance

TimeScore(pct) == (100 - pct) * 10

(* The largest net gamma against ten medians of the magnitudes.            *)
GammaScore(magnet, items) ==
  LET in == InOrder(items, LAMBDA i : i.strike)
      twice == TwiceMedian([n \in 1..Len(in) |-> Abs(in[n].net_gamma)])
  IN  IF twice <= 0 THEN 0 ELSE Smaller((Abs(magnet.net_gamma) * 200) \div twice, 1000)

calculate_pin_risk_score(items, price, pct) ==
  IF items = {} THEN [score |-> (TimeScore(pct) * 25) \div 1000, magnet |-> None]
  ELSE LET m == MagnetStrike(items)
       IN  [score |-> (OiConcentrationScore(items) * 30 + ProximityScore(m, price) * 25
                         + TimeScore(pct) * 25 + GammaScore(m, items) * 20) \div 1000,
            magnet |-> m.strike]

SignLabel(x, buy, sell) == IF x > 0 THEN buy ELSE IF x < 0 THEN sell ELSE None

calculate_closing_dynamics(gamma, price, pct) ==
  LET pin == calculate_pin_risk_score(gamma.items, price, pct)
  IN  [time_to_close_pct |-> pct, active |-> pct <= CLOSING_WINDOW_THRESHOLD_PCT,
       pin_score |-> pin.score, magnet_strike |-> pin.magnet, max_pain |-> gamma.max_pain,
       charm_regime |-> SignLabel(gamma.exposures["charm"], "time_decay_dealers_buy",
                                  "time_decay_dealers_sell"),
       vanna_interpretation |-> SignLabel(gamma.exposures["vanna"], "iv_increase_dealers_buy",
                                          "iv_increase_dealers_sell")]

-----------------------------------------------------------------------------
(* The derived metrics.  References come newest first; scores are in per   *)
(* cent.                                                                   *)

MINIMUM_HISTORY_DAYS == 20

percentile_rank(current, values) ==
  (Cardinality({i \in 1..Len(values) : values[i] <= current}) * 100) \div Len(values)

agreement_component(gamma, price) ==
  LET price_mode == IF price >= gamma.gamma_flip THEN "long_gamma" ELSE "short_gamma"
  IN  IF gamma.gamma_flip = None THEN 100
      ELSE IF dealer_position(gamma.net_gamma) = price_mode THEN 100 ELSE 40

freshness_component(as_of, gamma_as_of) ==
  LET lag == Larger(as_of - gamma_as_of, 0)
  IN  IF lag < 60 THEN 100 ELSE IF lag > 300 THEN 0 ELSE ((300 - lag) * 100) \div 240

market_bias_label(score) ==
  IF score > 65 THEN "bullish" ELSE IF score < 35 THEN "bearish" ELSE "neutral"

calculate_iv_rank(current, values) ==
  LET lowest == Min({values[i] : i \in 1..Len(values)})
      highest == Max({values[i] : i \in 1..Len(values)})
  IN  IF highest = lowest THEN 50 ELSE ((current - lowest) * 100) \div (highest - lowest)

volatility_regime_label(iv_rank) ==
  IF iv_rank < 30 THEN "low" ELSE IF iv_rank > 70 THEN "high" ELSE "moderate"

(* Net gammas written before the tactical view fed them are left out of    *)
(* the history they are ranked in; the other columns keep every day.       *)
ComputeDerivedMetrics(gamma, price, references, net_gamma_from) ==
  LET days == Len(references)
      nets == SelectSeq(references, LAMBDA r : r.date >= net_gamma_from)
      Column(f(_), in) == [i \in 1..Len(in) |-> f(in[i])]
      Rank(f(_), in) == percentile_rank(f(in[1]), Column(f, in))
      impact == IF Len(nets) >= MINIMUM_HISTORY_DAYS
                THEN Rank(LAMBDA r : Abs(r.net_gamma), nets) ELSE None
      agreement == agreement_component(gamma, price.price)
      freshness == freshness_component(price.as_of, gamma.taken_at)
      enough == days >= MINIMUM_HISTORY_DAYS
      bias == (200 - Rank(LAMBDA r : r.pc_oi_ratio, references)
                   - Rank(LAMBDA r : r.skew_25d, references)) \div 2
      rank == calculate_iv_rank(references[1].atm_iv, Column(LAMBDA r : r.atm_iv, references))
  IN  [dealer_impact_score |-> impact, net_gamma_days |-> Len(nets), days_accumulated |-> days,
       signal_alignment_score |->
         IF impact = None THEN (60 * agreement + 40 * freshness) \div 100
         ELSE (40 * agreement + 30 * freshness + 60 * Abs(impact - 50)) \div 100,
       market_bias |-> IF enough THEN bias ELSE None,
       market_label |-> IF enough THEN market_bias_label(bias) ELSE None,
       iv_rank |-> IF enough THEN rank ELSE None,
       volatility_label |-> IF enough THEN volatility_regime_label(rank) ELSE None]

REFERENCE_MINUTE == MARKET_OPEN_ET + 300
LATE_CAPTURE_UNTIL == 37800

(* One cycle's chance to write the reference of its day: always within the *)
(* minute 09:35, and until the end of 10:30 only when the day has none.    *)
(* Saving replaces the row of the date.                                    *)
capture_daily_gamma_reference(references, gamma, market) ==
  LET day == DayOf(market.as_of)
      minute == TimeOf(market.as_of) - (TimeOf(market.as_of) % 60)
      late == REFERENCE_MINUTE < minute /\ minute <= LATE_CAPTURE_UNTIL
      has == \E r \in references : r.date = day /\ \A s \in references : s.date <= day
  IN  IF minute # REFERENCE_MINUTE /\ (~late \/ has) THEN references
      ELSE {r \in references : r.date # day}
             \cup {[date |-> day, net_gamma |-> gamma.net_gamma, pc_oi_ratio |-> market.pc_oi_ratio,
                    skew_25d |-> market.skew_25d, atm_iv |-> market.atm_iv]}
=============================================================================
