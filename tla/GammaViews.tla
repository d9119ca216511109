----------------------------- MODULE GammaViews -----------------------------
(***************************************************************************)
(* From an option chain to the gamma views the pages show: gamma.py, the   *)
(* calculators it is wired with (adapters/providers/mock) and the width    *)
(* of the near-the-money band.                                             *)
(*                                                                         *)
(* A chain is a record of the day it was taken on (as_of, in days), the    *)
(* spot price and a set of contracts; the order of the contracts matters   *)
(* to nothing below.  Prices are integers and every decimal factor that    *)
(* scales all the results alike (100 shares a contract, one per cent of    *)
(* the spot) is left out of the sums.                                      *)
(***************************************************************************)
EXTENDS Numbers, Entities

-----------------------------------------------------------------------------
(* The width of the near-the-money band.                                   *)

ATR_WINDOW_DAYS == 14
REQUIRED_DAILY_BARS == ATR_WINDOW_DAYS + 1

TrueRange(previous, current) ==
  Max({current.high - current.low, Abs(current.high - previous.close),
       Abs(current.low - previous.close)})

(* The mean true range of the last 15 bars by date, None with fewer.       *)
Atr(daily_bars) ==
  LET MeanRange(recent) ==
        IF Len(recent) < REQUIRED_DAILY_BARS THEN None
        ELSE FoldSet(LAMBDA i, sum : sum + TrueRange(recent[i - 1], recent[i]), 0, 2..Len(recent))
               \div (Len(recent) - 1)
  IN  MeanRange(LastOf(REQUIRED_DAILY_BARS, InOrder(daily_bars, LAMBDA b : b.date)))

calculate_atr_range(daily_bars, readings) ==
  LET Bands(atr, open, banded) ==
        [atr |-> atr, atr_provisional |-> atr = None, daily_bars_count |-> Cardinality(daily_bars),
         today_open |-> open, bands_provisional |-> ~banded,
         outer_upper_band |-> IF banded THEN open + atr ELSE None,
         outer_lower_band |-> IF banded THEN open - atr ELSE None,
         inner_upper_band |-> IF banded THEN open + atr \div 2 ELSE None,
         inner_lower_band |-> IF banded THEN open - atr \div 2 ELSE None]
      Around(atr, open) == Bands(atr, open, atr # None /\ open # None)
  IN  Around(Atr(daily_bars),
             IF readings = {} THEN None
             ELSE (CHOOSE r \in readings : \A s \in readings : r.as_of <= s.as_of).price)

FIXED_WIDTH_BY_SYMBOL == [s \in {"VIX", "ES", "NQ"} |->
                            CASE s = "VIX" -> 6 [] s = "ES" -> 100 [] s = "NQ" -> 200]

(* The multiplier is in halves: the default of 1.5 is 3.                   *)
ATR_WIDTH_MULTIPLIER == 3
calculate_near_the_money_width(symbol, daily_bars, spot_price, multiplier) ==
  LET atr == Atr(daily_bars)
  IN  IF symbol \in DOMAIN FIXED_WIDTH_BY_SYMBOL
      THEN (FIXED_WIDTH_BY_SYMBOL[symbol] * multiplier) \div ATR_WIDTH_MULTIPLIER
      ELSE IF atr = None
      THEN (spot_price * 2 * multiplier) \div (100 * ATR_WIDTH_MULTIPLIER)
      ELSE (atr * multiplier) \div 2

-----------------------------------------------------------------------------
(* The calculators.                                                        *)

SignOf(contract_type) == IF contract_type = CALL THEN 1 ELSE -1

ContractExposure(c, spot_price) ==
  LET notional == c.open_interest * spot_price
      sign == SignOf(c.contract_type)
  IN  [occ_symbol |-> c.occ_symbol, strike |-> c.strike, contract_type |-> c.contract_type,
       open_interest |-> c.open_interest, volume |-> c.volume, sign |-> sign,
       dealer_gamma_exposure |-> c.greeks.gamma * c.open_interest * spot_price * spot_price * sign,
       delta_exposure |-> c.greeks.delta * notional,
       vanna_exposure |-> c.greeks.vanna * notional * sign,
       charm_exposure |-> c.greeks.charm * notional * sign]

Exposures(chain) == {ContractExposure(c, chain.spot_price) : c \in chain.contracts}

ItemOf(strike, es) ==
  LET call == Total({e \in es : e.contract_type = CALL}, LAMBDA e : e.dealer_gamma_exposure)
      put == Total({e \in es : e.contract_type = PUT}, LAMBDA e : e.dealer_gamma_exposure)
  IN  [strike |-> strike, call_gamma_exposure |-> call, put_gamma_exposure |-> put,
       net_gamma |-> call + put, absolute_gamma |-> Abs(call + put),
       total_gamma_exposure |-> Abs(call) + Abs(put), contract_count |-> Cardinality(es),
       open_interest |-> Total(es, LAMBDA e : e.open_interest),
       volume |-> Total(es, LAMBDA e : e.volume),
       delta_exposure |-> Total(es, LAMBDA e : e.delta_exposure),
       vanna_exposure |-> Total(es, LAMBDA e : e.vanna_exposure),
       charm_exposure |-> Total(es, LAMBDA e : e.charm_exposure)]

ItemsOf(exposures) ==
  {ItemOf(k, {e \in exposures : e.strike = k}) : k \in {e.strike : e \in exposures}}

(* Of the items with the largest weight (a field), the one at the lowest   *)
(* strike: the items are scanned in strike order.                          *)
Heaviest(items, weight) ==
  CHOOSE i \in items : \A j \in items :
    i[weight] > j[weight] \/ (i[weight] = j[weight] /\ i.strike <= j.strike)

AggregateOf(chain) ==
  LET Aggregate(items, peak) ==
        [items |-> items, net_gamma |-> Total(items, LAMBDA i : i.net_gamma),
         positive_gamma |-> Total({i \in items : i.net_gamma > 0}, LAMBDA i : i.net_gamma),
         negative_gamma |-> Total({i \in items : i.net_gamma < 0}, LAMBDA i : i.net_gamma),
         absolute_gamma_strike |-> IF items = {} THEN 0 ELSE peak.strike,
         peak_gamma_value |-> IF items = {} THEN 0 ELSE peak.total_gamma_exposure]
      WithPeak(items) == Aggregate(items, Heaviest(items, "total_gamma_exposure"))
  IN  WithPeak(ItemsOf(Exposures(chain)))

NoFlip == [gamma_flip_price |-> None, lower_strike |-> None, upper_strike |-> None,
           flip_found |-> FALSE]

(* Between two neighbouring strikes whose net gammas have opposite signs   *)
(* the flip is where the straight line crosses zero.                       *)
Crossing(lower, upper) ==
  [gamma_flip_price |-> lower.strike + (Abs(lower.net_gamma) * (upper.strike - lower.strike))
                          \div (Abs(lower.net_gamma) + Abs(upper.net_gamma)),
   lower_strike |-> lower.strike, upper_strike |-> upper.strike, flip_found |-> TRUE]

(* The crossing nearest to the spot; the lowest of two at one distance.    *)
GammaFlip(items, spot_price) ==
  LET Crossings(in) == {Crossing(in[n], in[n + 1]) : n \in {m \in 1..Len(in) - 1 :
                                                        in[m].net_gamma * in[m + 1].net_gamma < 0}}
      Distance(f) == Abs(f.gamma_flip_price - spot_price)
      Nearest(crossings) ==
        IF crossings = {} THEN NoFlip
        ELSE CHOOSE f \in crossings : \A g \in crossings :
               Distance(f) < Distance(g)
                 \/ (Distance(f) = Distance(g) /\ f.lower_strike <= g.lower_strike)
  IN  Nearest(Crossings(InOrder(items, LAMBDA i : i.strike)))

WallOf(candidates) ==
  IF candidates = {} THEN None
  ELSE LET i == Heaviest(candidates, "absolute_gamma")
       IN  [strike |-> i.strike, gamma |-> i.net_gamma, open_interest |-> i.open_interest,
            volume |-> i.volume]

WallsOf(items) == [call_wall |-> WallOf({i \in items : i.net_gamma > 0}),
                   put_wall |-> WallOf({i \in items : i.net_gamma < 0})]

PainAt(strike, contracts) ==
  LET call == Total({c \in contracts : c.contract_type = CALL},
                    LAMBDA c : Larger(strike - c.strike, 0) * c.open_interest)
      put == Total({c \in contracts : c.contract_type = PUT},
                   LAMBDA c : Larger(c.strike - strike, 0) * c.open_interest)
  IN  [strike |-> strike, total_call_pain |-> call, total_put_pain |-> put,
       total_pain |-> call + put]

(* The five strikes of least pain, the lower strike first of equals.       *)
PainRanking(chain) ==
  FirstOf(5, Sorted({PainAt(c.strike, chain.contracts) : c \in chain.contracts},
                          LAMBDA p, q : p.total_pain < q.total_pain
                                          \/ (p.total_pain = q.total_pain /\ p.strike < q.strike)))

MaxPainOf(chain) ==
  LET Of(ranking) ==
        IF ranking = <<>>
        THEN [max_pain_strike |-> 0, total_call_pain |-> 0, total_put_pain |-> 0, total_pain |-> 0]
        ELSE [max_pain_strike |-> ranking[1].strike, total_call_pain |-> ranking[1].total_call_pain,
              total_put_pain |-> ranking[1].total_put_pain, total_pain |-> ranking[1].total_pain]
  IN  Of(PainRanking(chain))

-----------------------------------------------------------------------------
(* The expirations of a view.                                              *)

TACTICAL_WINDOW_DAYS == 2
TACTICAL_LISTED_EXPIRATIONS == 3
LONG_VIEW_DAYS == 90
TACTICAL_LISTED_MAX_DAYS == 7
TACTICAL_FALLBACK_WINDOW_DAYS == 7
TACTICAL_ENABLED_SYMBOLS == {"SPX", "VIX", "NDX", "SPY", "QQQ", "IWM", "DIA", "NVDA"}
STRUCTURAL_30 == {"SPX", "NDX", "VIX", "SPY", "QQQ", "IWM", "DIA", "ES", "NQ"}
StructuralWindowDays(symbol) == IF symbol \in STRUCTURAL_30 THEN 30 ELSE 45

LOCAL Keep(chain, wanted) ==
  [chain EXCEPT !.contracts = {c \in @ : c.expiration \in wanted}]

(* The unexpired expirations of a chain in date order.                     *)
Listed(chain) == Ascending({c.expiration : c \in {d \in chain.contracts : d.expiration >= chain.as_of}})

FirstListed(chain, today, count) ==
  LET listed == FirstOf(count, SelectSeq(Listed([chain EXCEPT !.as_of = today]),
                                         LAMBDA e : e <= today + TACTICAL_LISTED_MAX_DAYS))
  IN  IF listed = <<>> THEN [chain |-> chain, window |-> TACTICAL_WINDOW_DAYS]
      ELSE [chain |-> Keep(chain, ToSet(listed)),
            window |-> Larger(TACTICAL_WINDOW_DAYS, listed[Len(listed)] - today)]

PositionOf(view) == CHOOSE i \in 1..3 : LISTED_EXPIRATION_VIEWS[i] = view

ListedExpirationForView(chain, view) ==
  LET listed == Listed(chain)
  IN  IF Len(listed) >= PositionOf(view) THEN listed[PositionOf(view)] ELSE None

(* Without an anchor the window opens at the nearest expiration there is,  *)
(* expired or not.                                                         *)
NearTerm(chain, window_days, anchor) ==
  IF chain.contracts = {} THEN chain
  ELSE LET from == IF anchor = None THEN Min({c.expiration : c \in chain.contracts}) ELSE anchor
       IN  Keep(chain, from..from + window_days)

-----------------------------------------------------------------------------
(* One view.                                                               *)

EmptyView(chain, view) ==
  [view |-> view, as_of |-> chain.as_of, items |-> {}, net_gamma |-> 0, positive_gamma |-> 0,
   negative_gamma |-> 0, absolute_gamma_strike |-> 0, peak_gamma_value |-> 0, gamma_flip |-> None,
   call_wall |-> None, put_wall |-> None, near_the_money_width |-> None, max_pain |-> 0,
   exposures |-> [g \in {"delta", "theta", "vega", "charm", "vanna"} |-> 0]]

(* The dollar exposure of the other greeks, with no sign for a put: they    *)
(* carry their own.                                                        *)
ViewExposures(contracts, spot) ==
  [g \in {"delta", "theta", "vega", "charm", "vanna"} |->
     Total(contracts, LAMBDA c : c.greeks[g] * c.open_interest * spot)]

(* The flip and the totals are the wide aggregate's, the items and the     *)
(* peak the narrow one's.                                                  *)
ViewOf(view, chain, wide, narrow, walls, width, max_pain, exposures) ==
  LET StrikeOf(wall) == IF wall = None THEN None ELSE wall.strike
  IN  [view |-> view, as_of |-> chain.as_of, items |-> narrow.items,
       absolute_gamma_strike |-> narrow.absolute_gamma_strike,
       peak_gamma_value |-> narrow.peak_gamma_value,
       net_gamma |-> wide.net_gamma, positive_gamma |-> wide.positive_gamma,
       negative_gamma |-> wide.negative_gamma,
       gamma_flip |-> GammaFlip(wide.items, chain.spot_price).gamma_flip_price,
       call_wall |-> StrikeOf(walls.call_wall), put_wall |-> StrikeOf(walls.put_wall),
       near_the_money_width |-> width, max_pain |-> max_pain, exposures |-> exposures]

(* The flip and the totals come from every expiration of the window and    *)
(* every strike, the items, the walls, max pain and the exposures from     *)
(* the strikes near the money (all of them when none is near).  The walls  *)
(* of the structural view leave out what expires today.                    *)
BuildView(symbol, chain, daily_bars, window_days, anchor, view) ==
  LET spot == chain.spot_price
      OrFallback(first) ==
        IF first.contracts = {} /\ view = "tactical"
        THEN NearTerm(chain, TACTICAL_FALLBACK_WINDOW_DAYS, None) ELSE first
      OrAll(part, all) == IF part = {} THEN all ELSE part
      NearOf(enriched, width) ==
        [enriched EXCEPT !.contracts = OrAll({c \in @ : Abs(c.strike - spot) <= width}, @)]
      Walled(narrow) ==
        IF view # "structural" THEN narrow
        ELSE [narrow EXCEPT !.contracts = OrAll({c \in @ : c.expiration # chain.as_of}, @)]
      View(enriched, narrow, width) ==
        ViewOf(view, enriched, AggregateOf(enriched), AggregateOf(narrow),
               WallsOf(ItemsOf(Exposures(Walled(narrow)))), width,
               MaxPainOf(narrow).max_pain_strike, ViewExposures(narrow.contracts, spot))
      Within(enriched, width) ==
        IF enriched.contracts = {} THEN EmptyView(chain, view)
        ELSE View(enriched, NearOf(enriched, width), width)
  IN  Within(OrFallback(NearTerm(chain, window_days, anchor)),
             calculate_near_the_money_width(symbol, daily_bars, spot, ATR_WIDTH_MULTIPLIER))

StructuralView(symbol, chain, daily_bars) ==
  BuildView(symbol, chain, daily_bars, StructuralWindowDays(symbol), None, "structural")

TacticalView(symbol, chain, daily_bars) ==
  LET Of(listed) ==
        BuildView(symbol, listed.chain, daily_bars, listed.window, chain.as_of, "tactical")
  IN  Of(FirstListed(chain, chain.as_of, TACTICAL_LISTED_EXPIRATIONS))

(* What execute_tactical and execute_both save as the tactical view.       *)
TacticalSaved(symbol, chain, daily_bars) ==
  IF symbol \in TACTICAL_ENABLED_SYMBOLS THEN TacticalView(symbol, chain, daily_bars)
  ELSE EmptyView(chain, "tactical")

(* A volume view reads the volume of the day where the others read open    *)
(* interest: the larger of the live counter and the corrected one.         *)
ByVolume(contracts, corrections) ==
  {[c EXCEPT !.open_interest =
      Larger(c.volume, IF c.occ_symbol \in DOMAIN corrections THEN corrections[c.occ_symbol] ELSE 0)]
     : c \in contracts}

ExpirationView(symbol, chain, daily_bars, view, corrections) ==
  LET by_volume == view \in DOMAIN VOLUME_GAMMA_VIEWS
      expiration == ListedExpirationForView(chain, IF by_volume THEN VOLUME_GAMMA_VIEWS[view]
                                                   ELSE view)
      of == {c \in chain.contracts : c.expiration = expiration}
  IN  IF expiration = None THEN EmptyView(chain, view)
      ELSE BuildView(symbol,
                     [chain EXCEPT !.contracts = IF by_volume THEN ByVolume(of, corrections) ELSE of],
                     daily_bars, 0, expiration, view)

LongViewFromSecond(symbol, chain, daily_bars) ==
  LET listed == Listed(chain)
      keep == {e \in ToSet(SubSeq(listed, 2, Len(listed))) : e - chain.as_of <= LONG_VIEW_DAYS}
  IN  IF keep = {} THEN EmptyView(chain, "90d")
      ELSE BuildView(symbol, Keep(chain, keep), daily_bars, LONG_VIEW_DAYS,
                     chain.as_of, "90d")

LongView(symbol, chain, daily_bars) ==
  LET listed == Listed(chain)
      keep == {e \in ToSet(SubSeq(listed, 3, Len(listed))) : e - chain.as_of <= LONG_VIEW_DAYS}
  IN  IF keep = {} THEN EmptyView(chain, "90d")
      ELSE BuildView(symbol, Keep(chain, keep), daily_bars, LONG_VIEW_DAYS,
                     chain.as_of, "90d")

(* A cycle of execute_both: what the cycle saves, the tactical view first  *)
(* and then each expiration view that does not fail.                       *)
CycleViews(symbol, chain, daily_bars, corrections, failing) ==
  {TacticalSaved(symbol, chain, daily_bars)} \cup
    IF symbol \notin TACTICAL_ENABLED_SYMBOLS THEN {}
    ELSE {ExpirationView(symbol, chain, daily_bars, v, corrections) :
            v \in (ToSet(LISTED_EXPIRATION_VIEWS) \cup DOMAIN VOLUME_GAMMA_VIEWS) \ failing}

-----------------------------------------------------------------------------
(* The corrected volumes of the day.                                       *)

CORRECTION_WINDOW_DAYS == 2

apply_volume_corrections(chain, corrections) ==
  [chain EXCEPT !.contracts =
     {IF c.occ_symbol \in DOMAIN corrections /\ corrections[c.occ_symbol] > c.volume
      THEN [c EXCEPT !.volume = corrections[c.occ_symbol]] ELSE c : c \in @}]

expirations_to_correct(listed, today) ==
  LET unexpired == {e \in listed : e >= today}
      inside == {e \in unexpired : e <= today + CORRECTION_WINDOW_DAYS}
  IN  IF inside # {} \/ unexpired = {} THEN inside ELSE {Min(unexpired)}

-----------------------------------------------------------------------------
(* The mock provider and the greeks it is paired with, in ten-thousandths. *)

ONE == 10000

FakeGreeksFor(contract_type, strike, spot_price, expiration, as_of) ==
  LET dte == Larger(expiration - as_of, 1)
      distance == ((spot_price - strike) * ONE) \div spot_price
      time == Min({(dte * ONE) \div 365, ONE})
      call_delta == Min({9500, Larger(500, 5000 + distance)})
      direction == SignOf(contract_type)
  IN  [delta |-> IF contract_type = CALL THEN call_delta ELSE call_delta - ONE,
       gamma |-> (((400 * ONE) \div (ONE + Abs(distance) * 10)) * ONE) \div (ONE + time),
       theta |-> -(100 + (ONE - time) \div 100),
       vega |-> 800 + (time * 12) \div 100,
       charm |-> (-direction * distance) \div (1 + dte),
       vanna |-> (direction * distance * (ONE - time)) \div ONE]

FakeGreeks(chain) ==
  [chain EXCEPT !.contracts =
     {[c EXCEPT !.greeks = FakeGreeksFor(c.contract_type, c.strike, chain.spot_price,
                                         c.expiration, chain.as_of)] : c \in @}]

PassthroughGreeks(chain) == chain

MockContract(strike, expiration, contract_type) ==
  [strike |-> strike, expiration |-> expiration, contract_type |-> contract_type,
   occ_symbol |-> <<strike, expiration, contract_type>>, bid |-> 120, ask |-> 125, last |-> 122,
   volume |-> 3400, open_interest |-> 8000, iv |-> 1800,
   greeks |-> [delta |-> IF contract_type = CALL THEN 4200 ELSE -4000, gamma |-> 300,
               theta |-> -150, vega |-> 1200,
               charm |-> IF contract_type = CALL THEN -10 ELSE 10,
               vanna |-> IF contract_type = CALL THEN 200 ELSE -200]]

MockChain(as_of, expiration) ==
  [as_of |-> as_of, spot_price |-> 55225,
   contracts |-> {MockContract(k, expiration, t) : k \in {54000, 54500, 55000}, t \in ContractType}]

MockDailyBars(end_date, days) ==
  {LET close == 55000 + 100 * ((offset % 5) - 2)
   IN  [date |-> end_date - offset, open_price |-> close - 50, high |-> close + 100,
        low |-> close - 100, close |-> close] : offset \in 0..days - 1}
=============================================================================
