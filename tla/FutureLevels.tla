---------------------------- MODULE FutureLevels ----------------------------
(***************************************************************************)
(* The futures: ES and NQ are their index moved by a basis.  Where the     *)
(* basis comes from (futures_proxy.py, futures_live.py), which contract is *)
(* the front one and whether an opening anchor is plausible                *)
(* (futures_anchor.py), and how a page of the index is moved.              *)
(*                                                                         *)
(* A storage is a record w of the time, the readings of the index, the     *)
(* anchors by day and the live bars of the future, whether the bars can be *)
(* read; the caches of the process are a record of the live basis, the     *)
(* last known basis and the opens by day.  A contract is the day of its    *)
(* expiry.  Day 0 is Monday 2026-01-05.                                    *)
(***************************************************************************)
EXTENDS SessionReadings, GammaViews

PRICE_PROXY_SYMBOL_BY_FUTURE == [f \in {"ES", "NQ"} |-> IF f = "ES" THEN "SPX" ELSE "NDX"]
IsFuture(symbol) == symbol \in DOMAIN PRICE_PROXY_SYMBOL_BY_FUTURE

-----------------------------------------------------------------------------
(* The contracts.  The first days of March, June, September, December and  *)
(* of the next March, and their third Fridays.                             *)

QuarterFirsts == {55, 147, 239, 330, 420}
ThirdFriday(first) == first + ((4 - (first % 7) + 7) % 7) + 14

ROLL_DAYS_BEFORE_EXPIRY == 8
ROLL_WINDOW_DAYS == 3
BASIS_DAYS == 5

contract_expiry(day) ==
  Min({e \in {ThirdFriday(f) : f \in QuarterFirsts} : day < e - ROLL_DAYS_BEFORE_EXPIRY})

DaysLeft(day, expiry) == Larger(1, expiry - day)

(* Thousandths of a point.                                                 *)
Point == 1000

NextContractOnly(history, session_date) ==
  LET days == FirstOf(BASIS_DAYS, history)
      rate == TwiceMedian([i \in 1..Len(days) |->
                             days[i].offset \div DaysLeft(days[i].day, contract_expiry(days[i].day))])
      front == contract_expiry(session_date)
      roll == front - ROLL_DAYS_BEFORE_EXPIRY
      other == IF roll - session_date <= ROLL_WINDOW_DAYS THEN contract_expiry(roll) ELSE front
  IN  IF days = <<>> THEN {}
      ELSE {(rate * DaysLeft(session_date, expiry)) \div 2 : expiry \in {front, other}}

(* The basis shrinks with the days left: the median rate of the last five  *)
(* days, newest first, times the days left today, of the front contract    *)
(* and, around the roll, of the other one.                                 *)
expected_offsets(history, session_date) ==
  LET days == FirstOf(BASIS_DAYS, history)
      rate == TwiceMedian([i \in 1..Len(days) |->
                             days[i].offset \div DaysLeft(days[i].day, contract_expiry(days[i].day))])
      front == contract_expiry(session_date)
      roll == front - ROLL_DAYS_BEFORE_EXPIRY
      before == contract_expiry(session_date - ROLL_WINDOW_DAYS)
      other == IF roll - session_date <= ROLL_WINDOW_DAYS THEN contract_expiry(roll) ELSE before
  IN  IF days = <<>> THEN {}
      ELSE {(rate * DaysLeft(session_date, expiry)) \div 2 : expiry \in {front, other}}

FUTURE_SPECS ==
  [f \in {"ES", "NQ"} |-> IF f = "ES" THEN [usual |-> <<40, 60>>, margin |-> 5]
                                      ELSE [usual |-> <<190, 250>>, margin |-> 20]]

(* An offset against the expected one nearest to it, or against the usual  *)
(* range without a history; the margin grows by half of the range of the   *)
(* index's first minute.                                                   *)
check_anchor(future, offset, history, session_date, first_minute_range) ==
  LET expected == expected_offsets(history, session_date)
      spec == FUTURE_SPECS[future]
      margin == spec.margin * Point + first_minute_range \div 2
      Near(e) == Abs(offset - e) <= margin
  IN  IF expected # {} THEN \E e \in expected : Near(e)
      ELSE /\ (spec.usual[1] - spec.margin) * Point <= offset
           /\ offset <= (spec.usual[2] + spec.margin) * Point

(* The anchor of the 09:30 bar, in quarters of a point: a third is never a *)
(* half, so nothing depends on how halves are rounded.                     *)
anchor_from_bar(high, low, close) == (2 * (high + low + close) + 3) \div 6

-----------------------------------------------------------------------------
(* The live feed.                                                          *)

LIVE_BASIS_BARS == 5
LIVE_BASIS_FRESH == 600
LIVE_BASIS_MAX_GAP == [f \in {"ES", "NQ"} |-> IF f = "ES" THEN 25 ELSE 100]
LIVE_BASIS_CACHE_SECONDS == 5
LAST_BASIS_CACHE_SECONDS == 60
LAST_BASIS_DAYS == 4

is_front(contract, day) == contract = contract_expiry(day)
is_rth(minute) == MARKET_OPEN_ET <= TimeOf(minute) /\ TimeOf(minute) < MARKET_CLOSE_ET

Usable(bars) ==
  {b \in bars : /\ b.index_price # None /\ b.session = "rth"
                /\ is_front(b.contract, DayOf(b.minute))}

(* The newest five of them, oldest first.                                  *)
Newest(usable) == LastOf(LIVE_BASIS_BARS, InOrder(usable, LAMBDA b : b.minute))

(* The newest bar, and so every bar, is older than the basis may be.       *)
TooOld(usable, now, fresh) ==
  fresh # None /\ \A b \in usable : now - (b.minute + 60) > fresh

live_basis(bars, now, fresh) ==
  LET Median(newest) ==
        TwiceMedian([i \in 1..Len(newest) |-> newest[i].close - newest[i].index_price]) \div 2
  IN  IF Usable(bars) = {} \/ TooOld(Usable(bars), now, fresh) THEN None
      ELSE Median(Newest(Usable(bars)))

LiveRatioScale == 1000
live_ratio(bars, now) ==
  LET usable == Usable({b \in bars : b.index_price # None /\ b.index_price > 0})
      Median(newest) ==
        TwiceMedian([i \in 1..Len(newest) |->
                       (newest[i].close * LiveRatioScale) \div newest[i].index_price]) \div 2
  IN  IF usable = {} \/ TooOld(usable, now, LIVE_BASIS_FRESH) THEN None
      ELSE Median(Newest(usable))

trusted_basis(future, live, anchor_offset) ==
  /\ live # None
  /\ anchor_offset = None \/ Abs(live - anchor_offset) <= LIVE_BASIS_MAX_GAP[future]

(* An order-flow event on the tape of a future, on the charts it is drawn. *)
translate(future, price, basis, index_etf_ratio, rty_ratio) ==
  LET index == PRICE_PROXY_SYMBOL_BY_FUTURE[future]
      etf == IF index = "SPX" THEN "SPY" ELSE "QQQ"
      targets == {index} \cup IF index_etf_ratio = None THEN {} ELSE {etf}
  IN  IF future = "RTY"
      THEN [s \in IF rty_ratio = None THEN {} ELSE {"IWM"} |-> (price * LiveRatioScale) \div rty_ratio]
      ELSE IF ~IsFuture(future) \/ basis = None THEN [s \in {} |-> 0]
      ELSE [s \in targets |-> IF s = index THEN price - basis
                              ELSE ((price - basis) * LiveRatioScale) \div index_etf_ratio]

-----------------------------------------------------------------------------
(* The offset in force.                                                    *)

ASSUME SourceAssumption == None \notin {"anchor", "ninjatrader", "ninjatrader_last"}

Latest(readings) == CHOOSE r \in readings : \A s \in readings : s.as_of <= r.as_of

(* The cache of the opens, emptied when it has grown beyond 64 of them.    *)
MOST_OPENS == 64
remember_open(opens, day, price) ==
  LET kept == IF Cardinality(DOMAIN opens) > MOST_OPENS THEN {} ELSE DOMAIN opens
  IN  [d \in kept \cup {day} |-> IF d = day THEN price ELSE opens[d]]

FirstOpenKept(w, opens) ==
  LET day == DayOf(Latest(w.readings).as_of)
      history == OfSession(w.readings, Latest(w.readings).as_of)
      open == opening_reference(history, Latest(w.readings).as_of)
  IN  IF history = {} \/ day \notin DOMAIN w.anchors THEN [offset |-> None, opens |-> opens]
      ELSE IF day \in DOMAIN opens THEN [offset |-> w.anchors[day] - opens[day], opens |-> opens]
      ELSE [offset |-> w.anchors[day] - open.price, opens |-> remember_open(opens, day, open.price)]

(* The anchor of the index's last session minus the index's own opening    *)
(* reference, kept once its first minute is over.                          *)
AnchorOffset(w, opens) ==
  LET latest == Latest(w.readings)
      day == DayOf(latest.as_of)
      history == OfSession(w.readings, latest.as_of)
      None_ == [offset |-> None, opens |-> opens]
      Anchored(open) ==
        [offset |-> w.anchors[day] - open.price,
         opens |-> IF open.complete THEN remember_open(opens, day, open.price) ELSE opens]
  IN  IF w.readings = {} THEN None_
      ELSE IF day \notin DOMAIN w.anchors THEN None_
      ELSE IF day \in DOMAIN opens THEN [offset |-> w.anchors[day] - opens[day], opens |-> opens]
      ELSE IF history = {} THEN None_
      ELSE Anchored(opening_reference(history, latest.as_of))

(* What a cache answers, or what a read of the bars does; a read that      *)
(* fails is remembered as no basis.                                        *)
Cached(entry, now, ttl) == IF entry = None THEN FALSE ELSE now - entry.at < ttl

Remembered(entry, w, ttl, since, fresh) ==
  IF Cached(entry, w.now, ttl) THEN entry
  ELSE [at |-> w.now,
        basis |-> IF ~w.readable THEN None
                  ELSE live_basis({b \in w.bars : b.minute >= since}, w.now, fresh)]

LiveFutureBasis(entry, w) ==
  Remembered(entry, w, LIVE_BASIS_CACHE_SECONDS,
             w.now - LIVE_BASIS_FRESH - 60 * (LIVE_BASIS_BARS + 2), LIVE_BASIS_FRESH)

LastKnownBasis(entry, w) ==
  Remembered(entry, w, LAST_BASIS_CACHE_SECONDS, w.now - LAST_BASIS_DAYS * DaySeconds, None)

WithLiveBasis(future, anchor_offset, live) ==
  IF trusted_basis(future, live, anchor_offset) THEN live ELSE anchor_offset

NoCaches == [live |-> None, last |-> None, opens |-> [d \in {} |-> 0]]

(* The live basis when it is trusted, else the anchor, else the last known *)
(* basis; and what the caches hold afterwards.                             *)
resolve_future_offset(future, w, caches) ==
  LET Resolved(anchor, live, offset, last) ==
        [offset |-> IF offset # None THEN offset ELSE last.basis,
         source |-> IF offset # None THEN IF offset = anchor.offset THEN "anchor" ELSE "ninjatrader"
                    ELSE IF last.basis = None THEN None ELSE "ninjatrader_last",
         anchor |-> anchor.offset, live |-> live.basis,
         caches |-> [live |-> live, last |-> IF offset # None THEN caches.last ELSE last,
                     opens |-> anchor.opens]]
      WithLive(anchor, live) ==
        Resolved(anchor, live, WithLiveBasis(future, anchor.offset, live.basis),
                 LastKnownBasis(caches.last, w))
  IN  WithLive(AnchorOffset(w, caches.opens), LiveFutureBasis(caches.live, w))

(* The page that takes the opening price: which session it would belong    *)
(* to, and what it waits for.                                              *)
opening_price_window(now, latest_as_of) ==
  LET latest_session == IF latest_as_of = None THEN None ELSE DayOf(latest_as_of)
      Window(session, waiting) ==
        [session_date |-> session, accepting |-> waiting = None, waiting_reason |-> waiting]
  IN  IF ~IsWeekend(now)
      THEN IF TimeOf(now) < MARKET_OPEN_ET THEN Window(DayOf(now), "before_open")
           ELSE IF latest_session # DayOf(now) THEN Window(DayOf(now), "waiting_first_price")
           ELSE Window(DayOf(now), None)
      ELSE IF latest_session = None THEN Window(DayOf(now), "waiting_first_price")
      ELSE Window(latest_session, None)

-----------------------------------------------------------------------------
(* A page of the index moved by an offset: every price moves, every width, *)
(* share and exposure stays.  A value that means "no such level" (None, or *)
(* 0 for the two strikes that are never None) stays too.                   *)

Shift(value, offset) == IF value = None THEN None ELSE value + offset
ShiftStrike(strike, offset) == IF strike = 0 THEN 0 ELSE strike + offset

FlipLeftBehind(gamma, offset) ==
  [gamma EXCEPT !.call_wall = Shift(@, offset), !.put_wall = Shift(@, offset),
                !.max_pain = ShiftStrike(@, offset),
                !.absolute_gamma_strike = ShiftStrike(@, offset),
                !.items = {[i EXCEPT !.strike = @ + offset] : i \in @}]

shift_gamma_aggregate(gamma, offset) ==
  [gamma EXCEPT !.gamma_flip = Shift(@, offset), !.call_wall = Shift(@, offset),
                !.put_wall = Shift(@, offset), !.max_pain = ShiftStrike(@, offset),
                !.absolute_gamma_strike = ShiftStrike(@, offset),
                !.items = {[i EXCEPT !.strike = @ + offset] : i \in @}]

empty_future_aggregate(gamma) ==
  EmptyView([as_of |-> gamma.as_of, spot_price |-> 0, contracts |-> {}], gamma.view)

ShiftPoint(point, offset) ==
  IF point = None THEN None ELSE [point EXCEPT !.num = @ + offset * point.den]

ShiftBands(range, offset) ==
  [range EXCEPT !.today_open = Shift(@, offset),
                !.outer_upper_band = Shift(@, offset), !.outer_lower_band = Shift(@, offset),
                !.inner_upper_band = Shift(@, offset), !.inner_lower_band = Shift(@, offset)]
ShiftMagnet(closing, offset) ==
  [closing EXCEPT !.magnet_strike = Shift(@, offset), !.max_pain = ShiftStrike(@, offset)]

shift_market_snapshot(s, offset) ==
  [s EXCEPT !.price = @ + offset,
            !.gamma = shift_gamma_aggregate(@, offset),
            !.expected_move.upper_bound = @ + offset, !.expected_move.lower_bound = @ + offset,
            !.anchored_vwap.value = ShiftPoint(@, offset),
            !.atr_range = ShiftBands(@, offset),
            !.closing_dynamics = ShiftMagnet(@, offset),
            !.recent_flow = <<>>]

shift_option_chain(chain, offset) ==
  [chain EXCEPT !.spot_price = @ + offset,
                !.contracts = {[c EXCEPT !.strike = @ + offset] : c \in @}]
=============================================================================
