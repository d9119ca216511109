----------------------------- MODULE HubWatchdog -----------------------------
(***************************************************************************)
(* ThetaStreamHub's life on one WebSocket (provider.py): _run reconnects   *)
(* with a backoff, _wait_for_terminal_connected waits for the Terminal's   *)
(* login, and _watch_for_data_silence, which outlives every connection,    *)
(* closes one that has gone quiet.                                         *)
(*                                                                         *)
(* Time is counted in the watchdog's check intervals (5 s).  A moment is   *)
(* kept as its age in intervals, up to a cap no comparison looks beyond;   *)
(* Never is an age of None.  The 1 s checks of the first minutes after the *)
(* open judge the same ages, earlier within the interval.                  *)
(***************************************************************************)
EXTENDS Integers, FiniteSetsExt

CONSTANTS
  Streams,       \* QUOTE, option TRADE, underlying TRADE
  Stale,         \* STATUS_STALE_AFTER_SECONDS
  Silence,       \* DATA_SILENCE_THRESHOLD_SECONDS
  LoginWait,     \* TERMINAL_CONNECTED_WAIT_SECONDS
  MaxDelay       \* RECONNECT_MAX_DELAY_SECONDS

BaseDelay == 1   \* RECONNECT_BASE_DELAY_SECONDS, rounded up
Stable == 2 * Stale
Never == 2 * (Silence + 1) + Stable
MaxAge == Max({Stable, Silence + 1})
Ages == 0..MaxAge
Older(age) == IF age = Never THEN Never ELSE Min({age + 1, MaxAge})

VARIABLES
  phase,       \* "sleeping" in the backoff, "login", or "live"
  wait,        \* intervals of the backoff left
  delay,       \* _run's delay
  openFor,     \* age of the connection and of _connection_opened_at
  closing,     \* request_reconnect has scheduled the close
  statusAge,   \* of _last_status_at
  dataAge,     \* of _last_quote_at and the two _last_..._trade_at
  since,       \* of _market_open_since
  market,      \* is_market_open
  terminal,    \* "down"; "mute": accepts and says nothing; "fresh": logs in on
               \* its first subscription; "logging", at first or after its own
               \* link dropped; "up"
  stalled      \* streams the Terminal has stopped sending on this connection

hub == <<phase, wait, delay, openFor, closing>>
ages == <<statusAge, dataAge, since>>
world == <<market, terminal, stalled>>
vars == <<hub, ages, world>>

TypeOK ==
  /\ phase \in {"sleeping", "login", "live"}
  /\ wait \in 0..MaxDelay /\ delay \in 1..MaxDelay
  /\ openFor \in Ages /\ closing \in BOOLEAN
  /\ statusAge \in Ages \cup {Never} /\ since \in Ages \cup {Never}
  /\ dataAge \in [Streams -> Ages \cup {Never}]
  /\ market \in BOOLEAN /\ stalled \subseteq Streams
  /\ terminal \in {"down", "mute", "fresh", "logging", "up"}

Init ==
  /\ phase = "sleeping" /\ wait = 0 /\ delay = BaseDelay
  /\ openFor = 0 /\ closing = FALSE
  /\ statusAge = Never /\ since = Never /\ dataAge = [s \in Streams |-> Never]
  /\ market = FALSE /\ terminal = "fresh" /\ stalled = {}

Active == phase # "sleeping"   \* _active_websocket is set

-----------------------------------------------------------------------------
\* The connection.

\* The failure that ends an attempt: back to the base delay only after a
\* stable connection, then asleep for the delay, which doubles.
BackOff(stable) ==
  LET d == IF stable THEN BaseDelay ELSE delay
  IN  /\ phase' = "sleeping" /\ wait' = d
      /\ delay' = Min({2 * d, MaxDelay})
      /\ closing' = FALSE /\ openFor' = 0

Connect ==
  /\ phase = "sleeping" /\ wait = 0
  /\ IF terminal = "down"
     THEN BackOff(FALSE)
     ELSE /\ phase' = "login" /\ openFor' = 0
          /\ UNCHANGED <<wait, delay, closing>>
  /\ UNCHANGED <<ages, world>>

\* The reader's exception: the close it was asked for, or a lost process.
ConnectionEnds ==
  /\ Active /\ (closing \/ terminal = "down")
  /\ BackOff(openFor >= Stable)
  /\ stalled' = {}
  /\ UNCHANGED <<ages, market, terminal>>

\* STATUS CONNECTED in the wait, or the end of the wait: the streams are
\* subscribed, which makes a fresh Terminal log in.
Login ==
  /\ phase = "login"
  /\ terminal = "up" \/ openFor >= LoginWait
  /\ phase' = "live"
  /\ terminal' = IF terminal = "fresh" THEN "logging" ELSE terminal
  /\ statusAge' = IF terminal \in {"down", "mute"} THEN statusAge ELSE 0
  /\ UNCHANGED <<wait, delay, openFor, closing, dataAge, since, market, stalled>>

\* _process_messages: a STATUS that is not CONNECTED asks for a reconnect.
StatusDown ==
  /\ phase = "live" /\ ~closing
  /\ terminal \in {"fresh", "logging"}
  /\ closing' = TRUE
  /\ UNCHANGED <<phase, wait, delay, openFor, ages, world>>

\* recv() times out: nothing at all was read for Stale intervals.
RecvTimesOut ==
  /\ phase = "live" /\ terminal = "mute"
  /\ Min({statusAge, openFor} \cup {dataAge[s] : s \in Streams}) >= Stale
  /\ BackOff(openFor >= Stable)
  /\ stalled' = {}
  /\ UNCHANGED <<ages, market, terminal>>

-----------------------------------------------------------------------------
\* The watchdog.

\* How long something has been missing (the mutant leaves out the moments the
\* fix of 2026-10-04 added): since it was last seen, and never from
\* before the connection opened or, for data, the market did.
SilenceFromLast(age, opened, open) == age
SilenceOf(age, opened, open) == Min({age, opened, open})

\* An interval begun in the middle is not a whole one: at a threshold of k
\* intervals, an age of k may be just over it ("sharp") or not.
Over(silence, threshold, sharp) ==
  IF sharp THEN silence >= threshold ELSE silence > threshold

\* The streams a check finds silent; one seen never is not judged.
SilentTogether(data, opened, open, sharp) ==
  {s \in Streams : \A r \in Streams :
     data[r] # Never /\ Over(SilenceOf(data[r], opened, open), Silence, sharp)}
SilentStreams(data, opened, open, sharp) ==
  {s \in Streams :
     data[s] # Never /\ Over(SilenceOf(data[s], opened, open), Silence, sharp)}

\* One interval and the check that ends it, with the frames that came in it.  A
\* connection opened during the interval may not have had one yet.  The close of
\* a local socket takes no time.
Tick ==
  \E sharp, heard \in BOOLEAN :
    LET hears  == Active /\ (openFor = 0 => heard)
        status == IF hears /\ (\/ phase = "live" /\ terminal = "up"
                               \/ phase = "login" /\ terminal \notin {"down", "mute"})
                  THEN 0 ELSE Older(statusAge)
        flows  == IF hears /\ phase = "live" /\ terminal = "up" /\ market
                  THEN Streams \ stalled ELSE {}
        data   == [s \in Streams |-> IF s \in flows THEN 0 ELSE Older(dataAge[s])]
        opened == Older(openFor)
        dead   == /\ status # Never /\ Active
                  /\ Over(SilenceOf(status, opened, Never), Stale, sharp)
        open   == CASE ~market -> Never [] since = Never -> 0 [] OTHER -> Older(since)
        silent == IF Active /\ market
                  THEN SilentStreams(data, opened, open, sharp) ELSE {}
    IN  /\ ~closing
        /\ phase = "sleeping" => wait > 0
        /\ phase = "login" => openFor < LoginWait /\ terminal # "up"
        /\ wait' = IF phase = "sleeping" THEN wait - 1 ELSE wait
        /\ openFor' = IF Active THEN opened ELSE 0
        /\ closing' = (dead \/ silent # {})
        /\ statusAge' = IF dead THEN 0 ELSE status
        /\ since' = open
        /\ IF silent = {} THEN dataAge' = data
           ELSE \E s \in silent : dataAge' = [data EXCEPT ![s] = 0]
  /\ UNCHANGED <<phase, delay, world>>

-----------------------------------------------------------------------------
\* The Terminal and the market.

Becomes(from, to) ==
  /\ terminal \in from /\ terminal' = to
  /\ UNCHANGED <<hub, ages, market, stalled>>

LogsIn == Becomes({"logging"}, "up")
Crashes == Becomes({"mute", "fresh", "logging", "up"}, "down")
Starts == ~Active /\ Becomes({"down"}, "fresh")
Hangs == Becomes({"fresh", "logging", "up"}, "mute")
Drops == Becomes({"up"}, "logging")

Stalls ==
  /\ phase = "live"
  /\ \E s \in Streams \ stalled : stalled' = stalled \cup {s}
  /\ UNCHANGED <<hub, ages, market, terminal>>

MarketMoves ==
  /\ market' = ~market
  /\ UNCHANGED <<hub, ages, terminal, stalled>>

Next ==
  \/ Connect \/ ConnectionEnds \/ Login \/ StatusDown \/ RecvTimesOut \/ Tick
  \/ LogsIn \/ Crashes \/ Starts \/ Hangs \/ Drops
  \/ Stalls \/ MarketMoves

\* The hub's own steps happen and time passes; a Terminal that has been asked
\* logs in.  Nothing else that befalls the Terminal or the market has to.
Spec ==
  /\ Init /\ [][Next]_vars
  /\ WF_vars(Connect) /\ WF_vars(ConnectionEnds) /\ WF_vars(Login)
  /\ WF_vars(StatusDown) /\ WF_vars(RecvTimesOut) /\ WF_vars(Tick)
  /\ WF_vars(LogsIn)

-----------------------------------------------------------------------------
\* Once the Terminal stays healthy the hub ends up on one connection that it
\* never closes again: the watchdog and the backoff do not fall in step, as in
\* the outage of 2026-10-03 that the comments of the watchdog describe.
StaysHealthy ==
  /\ <>[](terminal \in {"fresh", "logging", "up"} /\ stalled = {})
  /\ <>[][terminal = "up" => terminal' = "up"]_vars
HubSettles ==
  StaysHealthy => <>[](phase = "live" /\ ~closing /\ terminal = "up")

\* A stream that has been seen before and stalls in market hours does not stay
\* stalled: whatever the other streams do, the connection is replaced.
StallEnds ==
  \A s \in Streams :
    (phase = "live" /\ s \in stalled /\ market /\ dataAge[s] # Never)
      ~> (s \notin stalled \/ ~market)
=============================================================================
