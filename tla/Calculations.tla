---------------------------- MODULE Calculations ----------------------------
(***************************************************************************)
(* Questions put to the calculations, and the stale index guard.           *)
(*                                                                         *)
(* The calculations of GammaViews, SessionReadings, FutureLevels and       *)
(* PageReads keep no state between two pages but the caches of the basis:  *)
(* a behaviour asks one of them once, with one of the inputs below, and    *)
(* the answer is kept next to the question.  The guard of IndexGuard does  *)
(* keep state; it runs in the behaviours that ask nothing.                 *)
(*                                                                         *)
(* Inputs: one index around 40 points, whose options have three strikes    *)
(* and six expirations, and its future.  Day 0 is a Monday.                *)
(***************************************************************************)
EXTENDS PageReads, IndexGuard

VARIABLE asked      \* the question and its answer, None before it is asked

vars == <<guardVars, asked>>

NothingYet == GuardInit /\ asked = None
Ask(question) == asked' = question /\ UNCHANGED guardVars

-----------------------------------------------------------------------------
(* The gamma views of a book of options.                                   *)

Contract(strike, expiration, type, open_interest) ==
  [strike |-> strike, expiration |-> expiration, contract_type |-> type,
   occ_symbol |-> <<strike, expiration, type>>, bid |-> 2, ask |-> 4, last |-> 3,
   volume |-> open_interest \div 2, open_interest |-> open_interest, iv |-> 20,
   greeks |-> [delta |-> IF type = CALL THEN 1 ELSE -1, gamma |-> 1, theta |-> -1, vega |-> 1,
               charm |-> SignOf(type), vanna |-> SignOf(type)]]

(* The open interest a contract may have; 0 says that it is not listed.    *)
Weights == {0, 1, 3}
Slots == {<<36, 0, PUT>>, <<44, 0, CALL>>, <<40, 1, CALL>>, <<36, 3, PUT>>, <<44, 3, CALL>>,
          <<40, 9, PUT>>, <<44, 95, CALL>>}
Books == {b \in [Slots -> Weights] : \A s \in Slots : s[2] > 3 => b[s] # 1}

Chain(book, spot) ==
  [as_of |-> 0, spot_price |-> spot, taken_at |-> MARKET_OPEN_ET,
   contracts |-> {Contract(s[1], s[2], s[3], book[s]) : s \in {t \in Slots : book[t] # 0}}]

(* Fifteen days whose true range is 2 points: the band is 3 points wide.   *)
QuietBars == {[date |-> d, open_price |-> 39, high |-> 40, low |-> 38, close |-> 39] : d \in -15..-1}

AskViews ==
  NothingYet /\ \E book \in Books, bars \in {{}, QuietBars} :
    LET chain == Chain(book, 38)
        corrections == [occ \in {<<44, 0, CALL>>} |-> 2]
    IN  /\ chain.contracts # {}
        /\ Ask([kind |-> "views", chain |-> chain,
                cycle |-> CycleViews("SPX", chain, bars, corrections, {}),
                long |-> LongView("SPX", chain, bars),
                structural |-> StructuralView("SPX", chain, bars)])

-----------------------------------------------------------------------------
(* The offset of a future, asked twice: the second answer has the caches   *)
(* of the first.  Between the two the clock moves on, readings and bars    *)
(* arrive and the anchor may be typed in.                                  *)

Opening == DaySeconds + MARKET_OPEN_ET
Reading(at, price, volume) == [as_of |-> Opening + at, price |-> price, volume |-> volume]
OpeningReadings == {Reading(-100, 36, 1), Reading(5, 38, 1), Reading(35, 44, 2), Reading(75, 40, 3)}

Bar(minute, basis) ==
  [minute |-> minute, close |-> 40 + basis, index_price |-> 40, session |-> "rth",
   contract |-> contract_expiry(DayOf(minute))]
Bars == {Bar(Opening - DaySeconds + 3600, 12), Bar(Opening, 30), Bar(Opening + 60, 60)}

Known(at, bars, anchor, readable) ==
  [now |-> Opening + at, readings |-> {r \in OpeningReadings : r.as_of <= Opening + at},
   anchors |-> [d \in IF anchor = None THEN {} ELSE {1} |-> anchor],
   bars |-> {b \in bars : b.minute + 60 <= Opening + at}, readable |-> readable]

AskOffset ==
  NothingYet /\ \E first_at \in {-40, 8, 40, 80, 130}, later \in {3, 10, 61, 700},
     bars \in SUBSET Bars, anchors \in {<<None, None>>, <<None, 60>>, <<60, 60>>},
     readable \in [1..2 -> BOOLEAN] :
    \E first \in {Known(first_at, bars, anchors[1], readable[1])},
       second \in {Known(first_at + later, bars, anchors[2], readable[2])} :
      \E caches \in {resolve_future_offset("ES", first, NoCaches).caches} :
        Ask([kind |-> "offset", world |-> second, bars |-> bars,
             answer |-> resolve_future_offset("ES", second, caches)])

-----------------------------------------------------------------------------
(* The anchors of a trader from a month before a roll to a month after it: *)
(* the future loses the same part of its basis every day, and the trader   *)
(* changes contract "late" business days after the roll date.  Of each     *)
(* anchor accepted the offset joins the history.                           *)

Rolls == {66, 157}
Earlier(day, n) == IF day % 7 >= n THEN day - n ELSE day - n - 2
Later(day, n) == IF (day % 7) + n < 5 THEN day + n ELSE day + n + 2
ChangeDay(roll, late) == IF late < 0 THEN Earlier(roll, -late) ELSE Later(roll, late)

TrueOffset(rate, day, change, roll) ==
  LET expiry == contract_expiry(IF day < change THEN roll - 1 ELSE roll)
  IN  rate * (expiry - day)

AskRoll ==
  NothingYet /\ \E roll \in Rolls, late \in -3..2, rate \in {400, 500, 600} :
    LET day == roll - 30
    IN  Ask([kind |-> "roll", roll |-> roll, late |-> late, rate |-> rate, day |-> day,
             history |-> <<[day |-> day, offset |-> TrueOffset(rate, day, roll, roll)]>>,
             refused |-> {}])

(* The next day of the trader (auto_save_anchor).                         *)
AnchorDay ==
  /\ IF asked = None THEN FALSE ELSE asked.kind = "roll" /\ asked.day < asked.roll + 30
  /\ LET day == Later(asked.day, 1)
         offset == TrueOffset(asked.rate, day, ChangeDay(asked.roll, asked.late), asked.roll)
     IN  asked' = IF check_anchor("ES", offset, asked.history, day, 0)
                  THEN [asked EXCEPT !.day = day,
                          !.history = FirstOf(BASIS_DAYS, <<[day |-> day, offset |-> offset]>> \o @)]
                  ELSE [asked EXCEPT !.day = day, !.refused = @ \cup {day}]
  /\ UNCHANGED guardVars

-----------------------------------------------------------------------------
(* The anchored VWAP of a stock whose volume counter only grows, when the  *)
(* stream goes on writing, between the readings of the scheduler, the      *)
(* number the day started with: the readings carried.                      *)

Times == 1..5
Carries == {c \in SUBSET Times : c # {} => 1 \in c}

Counter(steps, i) == FoldSet(LAMBDA j, sum : sum + steps[j], 0, 1..i)

AskVwap ==
  NothingYet /\ \E start \in {1, 5, 11}, carried \in Carries, clipped \in BOOLEAN,
     steps \in [Times -> {2, 6}], price \in {38, 40} :
    LET readings == {Reading(60 * i, IF i % 2 = 0 THEN price ELSE 42,
                             IF i \in carried THEN start ELSE Counter(steps, i)) : i \in Times}
    IN  Ask([kind |-> "vwap", start |-> IF 1 \in carried THEN start ELSE None, readings |-> readings,
             traded |-> Max({Counter(steps, i) : i \in Times \ carried} \cup {0}), clipped |-> clipped,
             answer |-> calculate_anchored_vwap_series(readings, Opening + 3600, clipped)])

-----------------------------------------------------------------------------
(* The expected move of a chain that expires today: calls and puts at five *)
(* strikes around a forward, of which some have no bid.                    *)

Strip == {36, 38, 40, 42, 44}

Quoted(strike, type, forward, bids) ==
  LET worth == Larger(0, IF type = CALL THEN forward - strike ELSE strike - forward)
  IN  [Contract(strike, 0, type, 1) EXCEPT !.bid = IF strike \in bids THEN worth + 1 ELSE 0,
                                           !.ask = worth + 3]

AskMove ==
  NothingYet /\ \E calls \in SUBSET Strip, puts \in SUBSET Strip, forward \in {37, 40}, late \in BOOLEAN :
    LET chain == [as_of |-> 0, spot_price |-> 40, taken_at |-> MARKET_OPEN_ET,
                  contracts |-> {Quoted(k, CALL, forward, calls) : k \in Strip}
                                  \cup {Quoted(k, PUT, forward, puts) : k \in Strip}]
    IN  Ask([kind |-> "move", calls |-> calls, puts |-> puts, forward |-> forward, late |-> late,
             answer |-> calculate_expected_move(
                          chain, IF late THEN MARKET_CLOSE_ET - 1 ELSE MARKET_OPEN_ET + 600, None)])

-----------------------------------------------------------------------------
(* The pages of an index and of its future, from one storage.              *)

PageBooks == {b \in Books : \A s \in Slots : (s[1] = 40 \/ s[2] > 3) => b[s] = 3}

Storage(book, spot, future) ==
  LET chain == Chain(book, spot)
      prices == {Reading(5, 38, 0), Reading(90, spot, 0)}
  IN  [now |-> future.now, future |-> [f \in {"ES"} |-> [future EXCEPT !.readings = prices]],
       prices |-> [s \in {"SPX", "SPY"} |->
                     IF s = "SPX" THEN prices
                     ELSE {Reading(5, 4, 2), Reading(60, 6, 5), Reading(90, 4, 6)}],
       gamma |-> [k \in {<<"SPX", "tactical">>} |-> TacticalSaved("SPX", chain, QuietBars)],
       gamma_rows |-> {}, chains |-> [k \in {<<"SPX", None>>} |-> chain],
       daily_bars |-> [s \in {"SPX"} |-> QuietBars], recent_flow |-> [s \in {"SPX"} |-> <<"a trade">>],
       heatmap |-> [s \in {"SPX"} |-> {c.strike : c \in chain.contracts}],
       candles |-> [s \in {"SPX"} |-> {}], pressure |-> [s \in {"SPX"} |-> 0],
       counted |-> [c \in {<<44, 0, CALL>>} |-> 7]]

Pages(st, symbol) ==
  [snapshot |-> build_market_snapshot(st, symbol),
   gamma |-> get_gamma_exposure(st, symbol, "tactical"),
   chain |-> get_option_chain_async(st, symbol, None, None),
   heatmap |-> get_gamma_heatmap(st, symbol),
   line |-> get_price_history(st, symbol),
   vwap |-> get_vwap_history(st, symbol).series]

AskPages ==
  NothingYet /\ \E book \in PageBooks, spot \in {36, 38, 40}, anchor \in {None, 60},
     bars \in {{}, {b \in Bars : b.minute < Opening}, {Bar(Opening, 30)}} :
    \E st \in {Storage(book, spot, Known(130, bars, anchor, TRUE))} :
      Ask([kind |-> "pages", pages |-> [symbol \in {"SPX", "ES"} |-> Pages(st, symbol)],
           offset |-> FutureOffset(st, "ES")])

-----------------------------------------------------------------------------
Init == NothingYet

Guarded == asked = None /\ GuardNext /\ UNCHANGED asked

Next ==
  \/ AskViews \/ AskOffset \/ AskVwap \/ AskMove \/ AskPages
  \/ AskRoll \/ AnchorDay
  \/ Guarded

Spec == Init /\ [][Next]_vars

Asked(kind) == IF asked = None THEN FALSE ELSE asked.kind = kind

-----------------------------------------------------------------------------
(* The type of the variable of this module.                                *)
Kinds == {"views", "offset", "roll", "vwap", "move", "pages"}
TypeOK == asked = None \/ asked.kind \in Kinds

(* What a set of contracts weighs, told without items or views.            *)
NetOf(contracts, spot) ==
  Total(contracts, LAMBDA c : c.greeks.gamma * c.open_interest * spot * spot * SignOf(c.contract_type))

ViewNamed(view) == CHOOSE v \in asked.cycle : v.view = view

(* The tabs 0DTE, 1DTE and 90D count every contract of the next 90 days    *)
(* once and no other ("so the three tabs never overlap", gamma.py:231-234),*)
(* and the tactical view is the sum of the three listed days when they are *)
(* all within a week, however few strikes and expirations are listed.      *)
ViewsSplitTheBook ==
  Asked("views") =>
    LET chain == asked.chain
        listed == Listed(chain)
        Net(view) == ViewNamed(view).net_gamma
        first_three == {listed[i] : i \in 1..Smaller(3, Len(listed))}
    IN  /\ Net("0dte") + Net("1dte") + asked.long.net_gamma
             = NetOf({c \in chain.contracts : \/ c.expiration <= chain.as_of + LONG_VIEW_DAYS
                                              \/ c.expiration \in {listed[1], listed[Smaller(2, Len(listed))]}},
                     chain.spot_price)
        /\ (\A e \in first_three : e <= chain.as_of + TACTICAL_LISTED_MAX_DAYS) =>
             Net("tactical") = Net("0dte") + Net("1dte") + Net("2dte")

(* The levels of one view belong together although each has its own        *)
(* calculator: a flip needs strikes of both signs and lies between them,   *)
(* the walls differ, the strike the closing panel pins the price to is one *)
(* of the walls (but in the structural view, whose walls leave out what    *)
(* expires today), and the constructor accepts the view.                   *)
LevelsBelongTogether ==
  Asked("views") =>
    \A v \in asked.cycle \cup {asked.long, asked.structural} :
      LET strikes == {c.strike : c \in asked.chain.contracts}
          magnet == calculate_closing_dynamics(v, asked.chain.spot_price, 50).magnet_strike
      IN  /\ ValidGammaAggregate(v)
          /\ v.positive_gamma + v.negative_gamma = v.net_gamma
          /\ v.gamma_flip # None => /\ v.positive_gamma > 0 /\ v.negative_gamma < 0
                                    /\ Min(strikes) <= v.gamma_flip /\ v.gamma_flip <= Max(strikes)
          /\ v.call_wall # None => v.call_wall # v.put_wall
          /\ v.view # "structural" /\ (\E i \in v.items : i.net_gamma # 0) =>
               magnet \in {v.call_wall, v.put_wall}

(* The offset a page moves the levels by is never further from the anchor  *)
(* of the session than LIVE_BASIS_MAX_GAP, a live basis is at most as old  *)
(* as its bars and its cache allow, and a basis of earlier days is used    *)
(* only while there is no anchor -- also for the second page, which finds  *)
(* in the caches what the first one left there (futures_proxy.py:42-160).  *)
OffsetInForce ==
  Asked("offset") =>
    LET a == asked.answer
        fresh == LIVE_BASIS_FRESH + LIVE_BASIS_CACHE_SECONDS
    IN  /\ a.anchor # None =>
             /\ a.offset # None
             /\ a.offset = a.anchor \/ Abs(a.offset - a.anchor) <= LIVE_BASIS_MAX_GAP["ES"]
        /\ a.source = "ninjatrader" =>
             \E b \in asked.bars : asked.world.now - (b.minute + 60) <= fresh
        /\ a.source = "ninjatrader_last" => a.anchor = None

(* The opening reference remembered for a session is the one a page that   *)
(* remembers nothing would take, although readings go on arriving in the   *)
(* minute it is the median of (futures_proxy.py:36-37).                    *)
RememberedOpenStands ==
  Asked("offset") =>
    asked.answer.anchor = AnchorOffset(asked.world, [d \in {} |-> 0]).offset

(* The views of one book agree with the book and with themselves.         *)
ViewsAgree == TypeOK /\ ViewsSplitTheBook /\ LevelsBelongTogether

(* Both for the offset a page answers with.                                *)
OffsetStands == OffsetInForce /\ RememberedOpenStands

(* A trader whose future follows the basis and who changes contract at the *)
(* roll date or up to two business days beside it has every anchor         *)
(* accepted, before, around and after the roll (futures_anchor.py:38-41).  *)
RollAccepted == Asked("roll") /\ asked.late >= -2 => asked.refused = {}

(* "within ROLL_WINDOW_DAYS of it either contract is accepted"             *)
(* (futures_anchor.py:39): the same, up to the three days of the window.   *)
EarlyRollAccepted == Asked("roll") => asked.refused = {}

(* With the carried volume above a real reading, the weight of the line    *)
(* is the volume really traded, each trade once; clipping only takes away  *)
(* from it; and the line never leaves the prices                           *)
(* (calculate_anchored_vwap.py:88-126).                                    *)
VwapCountsOnce ==
  Asked("vwap") =>
    LET line == asked.answer
        seen_stale == asked.start = None \/ \E r \in asked.readings : r.volume < asked.start
        weight == IF line = <<>> THEN 0 ELSE Last(line).den
    IN  /\ seen_stale => IF asked.clipped THEN weight <= asked.traded ELSE weight = asked.traded
        /\ \A i \in DOMAIN line : 38 * line[i].den <= line[i].num /\ line[i].num <= 42 * line[i].den

(* The same for any carried volume: "the carried number is the one the day *)
(* started with (yesterday's total or the pre-open count)"                 *)
(* (calculate_anchored_vwap.py:85-89).                                     *)
CarriedNeverCounts ==
  Asked("vwap") /\ ~asked.clipped /\ asked.traded > 0 => Last(asked.answer).den = asked.traded

(* The strikes of the variance are the out-of-the-money ones with a bid    *)
(* up to the first two neighbours without one, the put side below K0 and   *)
(* the call side above it, and K0 where both sides have a bid; a gap of    *)
(* one strike does not end a side (calculate_expected_move.py:88-139).    *)
WalkStops ==
  Asked("move") =>
    LET a == asked.answer
        Gap(bids, near, far) == \E i \in Strip \ bids, j \in Strip \ bids :
                                  j = i + 2 /\ near < i /\ j < far
    IN  a.k0 # None =>
          a.strikes = {k \in asked.puts : k < a.k0 /\ ~Gap(asked.puts, k, a.k0)}
                        \cup {k \in asked.calls : k > a.k0 /\ ~Gap(asked.calls, a.k0, k)}
                        \cup ({a.k0} \cap asked.puts \cap asked.calls)

(* Every page of a future is the page of its index moved by one offset:    *)
(* the price keeps its distance to every level, what is missing stays      *)
(* missing, the strikes of the levels are strikes of the chain and of the  *)
(* heatmap of the same future; without an offset there is no level at all  *)
(* (futures_proxy.py:163-250).                                             *)
LevelsOf(s) ==
  [flip |-> s.gamma.gamma_flip, call |-> s.gamma.call_wall, put |-> s.gamma.put_wall,
   peak |-> s.gamma.absolute_gamma_strike, pain |-> s.gamma.max_pain,
   above |-> s.expected_move.upper_bound, below |-> s.expected_move.lower_bound,
   open |-> s.atr_range.today_open,
   outer_upper |-> s.atr_range.outer_upper_band, outer_lower |-> s.atr_range.outer_lower_band,
   inner_upper |-> s.atr_range.inner_upper_band, inner_lower |-> s.atr_range.inner_lower_band,
   magnet |-> s.closing_dynamics.magnet_strike, closing |-> s.closing_dynamics.max_pain]

FutureIsIndexMoved ==
  Asked("pages") =>
    LET i == asked.pages["SPX"]
        f == asked.pages["ES"]
        is == LevelsOf(i.snapshot.value)
        fs == LevelsOf(f.snapshot.value)
        strikes == {c.strike : c \in f.chain.value.contracts}
    IN  IF asked.offset = None
        THEN /\ ~f.snapshot.found /\ ~f.chain.found /\ ~f.heatmap.found
             /\ f.gamma.value.items = {} /\ f.gamma.value.call_wall = None
        ELSE /\ f.snapshot.value.price - i.snapshot.value.price = asked.offset
             /\ \A l \in DOMAIN is :
                  IF is[l] = None THEN fs[l] = None
                  ELSE f.snapshot.value.price - fs[l] = i.snapshot.value.price - is[l]
             /\ LET vwap == i.snapshot.value.anchored_vwap.value
                    moved == f.snapshot.value.anchored_vwap.value
                IN  IF vwap = None THEN moved = None
                    ELSE f.snapshot.value.price * moved.den - moved.num
                           = i.snapshot.value.price * vwap.den - vwap.num
             /\ f.heatmap.value = strikes
             /\ {fs.call, fs.put, fs.peak, fs.pain} \subseteq strikes \cup {None}
             /\ f.gamma.value = f.snapshot.value.gamma

(* The side of the flip the price is on is judged alike by the snapshot    *)
(* and by the agreement of the alignment score, and alike for the index    *)
(* and for its future (entities.py:1083-1140, calculate_derived_metrics).  *)
OneDealerMode ==
  Asked("pages") /\ asked.offset # None =>
    \A s \in {asked.pages["SPX"].snapshot.value, asked.pages["ES"].snapshot.value} :
      /\ (agreement_component(s.gamma, s.price) = 100) <=> DealerModeConfirmed(s)
      /\ DealerMode(s) = DealerMode(asked.pages["SPX"].snapshot.value)

(* The pages of a future are those of its index, level by level and in the *)
(* judgement made of them.                                                 *)
FutureFollowsIndex == FutureIsIndexMoved /\ OneDealerMode

(* "one anchor per future per session drives the chart, the VWAP and these *)
(* levels" (futures_proxy.py:9-11).                                        *)
OneOffset ==
  Asked("pages") /\ asked.offset # None =>
    {r.price : r \in asked.pages["ES"].line} = {r.price + asked.offset : r \in asked.pages["SPX"].line}
=============================================================================
