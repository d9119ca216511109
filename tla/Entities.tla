------------------------------ MODULE Entities ------------------------------
(***************************************************************************)
(* What the constructors of the domain entities accept                     *)
(* (src/backend/domain/entities/entities.py).                              *)
(*                                                                         *)
(* Every value object of the code checks itself when it is built and       *)
(* raises otherwise, so a calculation that builds an illegal value fails   *)
(* the cycle it runs in.  Each operator below says which field values the  *)
(* constructor of that name accepts.  Decimals are integers in a unit the  *)
(* caller chooses, None stands for a missing value, and what is a test of  *)
(* the Python type alone (is it a Decimal, is it finite) has no            *)
(* counterpart.                                                            *)
(***************************************************************************)
EXTENDS Integers, FiniteSets

CONSTANT None      \* a missing value

CALL == "call"
PUT == "put"
ContractType == {CALL, PUT}

LISTED_EXPIRATION_VIEWS == <<"0dte", "1dte", "2dte">>
VOLUME_GAMMA_VIEWS == [v \in {"0dte_volume"} |-> "0dte"]
EXPIRATION_GAMMA_VIEWS == {LISTED_EXPIRATION_VIEWS[i] : i \in 1..3} \cup {"90d"}
GAMMA_VIEWS == {"structural", "tactical"} \cup EXPIRATION_GAMMA_VIEWS
                 \cup DOMAIN VOLUME_GAMMA_VIEWS

Positive(x) == x > 0

(* The greeks are in units of 1 / One.                                     *)
ValidGreeks(g, One) == -One <= g.delta /\ g.delta <= One

ValidExpiration(expiration, as_of) == expiration >= as_of
DaysToExpiration(expiration, as_of) ==
  IF expiration - as_of > 0 THEN expiration - as_of ELSE 0

ValidQuote(bid, ask) == bid >= 0 /\ ask >= bid

ValidContract(c, One) ==
  /\ Positive(c.strike)
  /\ c.contract_type \in ContractType
  /\ ValidQuote(c.bid, c.ask) /\ c.last >= 0 /\ c.iv >= 0
  /\ c.volume >= 0 /\ c.open_interest >= 0
  /\ ValidGreeks(c.greeks, One)

ValidChain(chain, One) ==
  /\ Positive(chain.spot_price)
  /\ \A c \in chain.contracts : ValidContract(c, One)

ValidStrikePain(p) ==
  /\ Positive(p.strike)
  /\ p.total_call_pain >= 0 /\ p.total_put_pain >= 0 /\ p.total_pain >= 0

ValidMaxPain(m) ==
  /\ m.max_pain_strike # 0 => Positive(m.max_pain_strike)
  /\ m.total_call_pain >= 0 /\ m.total_put_pain >= 0 /\ m.total_pain >= 0

ValidGammaAggregateItem(i) ==
  Positive(i.strike) /\ i.contract_count >= 0 /\ i.open_interest >= 0 /\ i.volume >= 0

ValidWall(w) == Positive(w.strike) /\ w.open_interest >= 0 /\ w.volume >= 0
ValidWalls(ws) == \A w \in {ws.call_wall, ws.put_wall} \ {None} : ValidWall(w)

ValidGammaFlip(f) ==
  \A x \in {f.gamma_flip_price, f.lower_strike, f.upper_strike} \ {None} : Positive(x)

ValidGammaExposure(e) ==
  /\ Positive(e.strike) /\ e.volume >= 0 /\ e.open_interest >= 0
  /\ e.sign \in {-1, 1}

dealer_position(net_gamma) == IF net_gamma >= 0 THEN "long_gamma" ELSE "short_gamma"

ValidGammaAggregate(g) ==
  g.view \in GAMMA_VIEWS /\ \A i \in g.items : ValidGammaAggregateItem(i)

ValidDailyGammaReference(r) == r.pc_oi_ratio >= 0 /\ r.atm_iv >= 0

(* The shape of a daily bar, of a minute bar and of a candle.              *)
ValidBar(b) ==
  /\ b.low <= b.high
  /\ b.low <= b.open_price /\ b.open_price <= b.high
  /\ b.low <= b.close /\ b.close <= b.high

ValidMinuteBar(b) == ValidBar(b) /\ b.volume >= 0

ValidMarketHoliday(h) ==
  h.closure_type = "early_close" => h.open # None /\ h.close # None

ValidMarketPrice(p) == p.price >= 0 /\ p.volume >= 0

ValidMarketSnapshot(s) == s.price >= 0 /\ s.volume >= 0 /\ s.pc_oi_ratio >= 0 /\ s.atm_iv >= 0

(* The sign the price alone gives, when there is a flip to compare with.   *)
PriceDealerMode(s) ==
  IF s.gamma.gamma_flip = None THEN None
  ELSE IF s.price >= s.gamma.gamma_flip THEN "long_gamma" ELSE "short_gamma"

DealerModeConfirmed(s) ==
  PriceDealerMode(s) \in {None, dealer_position(s.gamma.net_gamma)}

DealerMode(s) ==
  IF DealerModeConfirmed(s) THEN dealer_position(s.gamma.net_gamma) ELSE PriceDealerMode(s)

DealerModeSource(s) == IF DealerModeConfirmed(s) THEN "agree" ELSE "price_vs_flip"

(* What the accounts and the thresholds check of themselves.               *)
ValidWhaleThreshold(t) ==
  /\ Positive(t.unusual_min) /\ Positive(t.whale_min) /\ Positive(t.sustained_flow_min)
  /\ Positive(t.unusual_multiplier) /\ Positive(t.whale_multiplier)

InviteIsValid(i, now) == i.used_at = None /\ i.expires_at > now

ValidAnchoredVwap(v) == v.sample_count >= 0
ValidAtrRange(r) == r.daily_bars_count >= 0
ValidClosingDynamics(d) == 0 <= d.pin_score /\ d.pin_score <= 100

(* The two ways a screener preset can be configured.                       *)
ValidExposureLeadersSettings(s) ==
  (s.min_magnitude # None => s.min_magnitude >= 0) /\ (s.limit # None => s.limit >= 1)
=============================================================================
