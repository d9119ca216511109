---------------------------- MODULE RequestSlots ----------------------------
(***************************************************************************)
(* PostgresThetaRequestSlots (request_slots.py) and the request path that  *)
(* is its only user, ThetaDataProvider._send_with_rate_limit_retry.  The   *)
(* processes of the backend share one table, theta_request_slots, with a   *)
(* row per concurrent ThetaData request the account is allowed.  A caller  *)
(* claims the lowest row that is free, or whose claim is stale, sends its  *)
(* request, and then clears the row by its number, whoever holds it.       *)
(*                                                                         *)
(* Time is counted in ticks.  A row keeps the age of its claim instead of  *)
(* acquired_at; ages past StaleAfter are all alike, so time has no bound.  *)
(***************************************************************************)
EXTENDS Naturals, FiniteSets

CONSTANTS
  Callers,         \* threads of every process that calls ThetaData
  Processes,       \* operating-system processes
  ProcessOf,       \* [Callers -> Processes]
  Limit,           \* rows of theta_request_slots
  StaleAfter,      \* STALE_AFTER_SECONDS
  AcquireTimeout,  \* ACQUIRE_TIMEOUT_SECONDS
  MaxHold,         \* longest time from a claim to the end of its release
  MaxRetries,      \* MAX_429_RETRIES
  NULL             \* SQL's NULL, and "no slot"

ASSUME SlotsAssumption ==
  /\ Limit \in Nat \ {0}
  /\ StaleAfter \in Nat
  /\ AcquireTimeout \in Nat
  /\ MaxHold \in Nat
  /\ MaxRetries \in Nat
  /\ NULL \notin Nat
  /\ ProcessOf \in [Callers -> Processes]

\* STALE_AFTER_SECONDS is kept "comfortably above every known caller's real
\* timeout": no claim outlives it while its holder is alive.
ASSUME HoldAssumption == MaxHold <= StaleAfter

VARIABLES
  age,      \* age[s]: age of the claim on row s; NULL when acquired_at is NULL
  pc,       \* pc[c]: where caller c is in _send_with_rate_limit_retry
  held,     \* held[c]: the row hold() returned to c
  elapsed,  \* elapsed[c]: time since c's claim
  waited,   \* waited[c]: time since c's acquire() began
  attempt,  \* attempt[c]: number of 429 answers this call has retried
  limited   \* limited[c]: the answer being released was a 429

vars == <<age, pc, held, elapsed, waited, attempt, limited>>

Slots == 1..Limit

Stale == StaleAfter + 1   \* every age the staleness test accepts

\* Mutants: a stale limit below the longest request; no stale reclaim at all.
FreeTooSoon(s) == age[s] = NULL \/ age[s] > StaleAfter - 1
FreeNeverStale(s) == age[s] = NULL

Free(s) == age[s] = NULL \/ age[s] = Stale

FreeSlots == {s \in Slots : Free(s)}

\* The callers between a claim and the end of its release.
Holders == {c \in Callers : pc[c] \in {"requesting", "releasing"}}

\* The callers whose request ThetaData is working on.
InFlight == {c \in Callers : pc[c] = "requesting"}

TypeOK ==
  /\ age \in [Slots -> (0..Stale) \cup {NULL}]
  /\ pc \in [Callers -> {"idle", "acquiring", "requesting", "releasing", "backoff"}]
  /\ held \in [Callers -> Slots \cup {NULL}]
  /\ elapsed \in [Callers -> 0..MaxHold]
  /\ waited \in [Callers -> 0..AcquireTimeout]
  /\ attempt \in [Callers -> 0..MaxRetries]
  /\ limited \in [Callers -> BOOLEAN]

\* The migration seeds every row free.
Init ==
  /\ age = [s \in Slots |-> NULL]
  /\ pc = [c \in Callers |-> "idle"]
  /\ held = [c \in Callers |-> NULL]
  /\ elapsed = [c \in Callers |-> 0]
  /\ waited = [c \in Callers |-> 0]
  /\ attempt = [c \in Callers |-> 0]
  /\ limited = [c \in Callers |-> FALSE]

-----------------------------------------------------------------------------
\* The calls of the callers in C are over: their locals go with them.
CallsEnd(C) ==
  /\ pc' = [c \in Callers |-> IF c \in C THEN "idle" ELSE pc[c]]
  /\ held' = [c \in Callers |-> IF c \in C THEN NULL ELSE held[c]]
  /\ elapsed' = [c \in Callers |-> IF c \in C THEN 0 ELSE elapsed[c]]
  /\ waited' = [c \in Callers |-> IF c \in C THEN 0 ELSE waited[c]]
  /\ attempt' = [c \in Callers |-> IF c \in C THEN 0 ELSE attempt[c]]
  /\ limited' = [c \in Callers |-> IF c \in C THEN FALSE ELSE limited[c]]

\* A call enters its first round of the retry loop and starts to acquire.
Start(c) ==
  /\ pc[c] = "idle"
  /\ pc' = [pc EXCEPT ![c] = "acquiring"]
  /\ UNCHANGED <<age, held, elapsed, waited, attempt, limited>>

\* The UPDATE of _try_acquire stamps the lowest free row.  A row locked by
\* another transaction is skipped: the two then serialize one way or the other.
ClaimRow(s) ==
  /\ s \in FreeSlots
  /\ \A u \in FreeSlots : s <= u
  /\ age' = [age EXCEPT ![s] = 0]

Acquire(c, s) ==
  /\ pc[c] = "acquiring"
  /\ ClaimRow(s)
  /\ pc' = [pc EXCEPT ![c] = "requesting"]
  /\ held' = [held EXCEPT ![c] = s]
  /\ elapsed' = [elapsed EXCEPT ![c] = 0]
  /\ waited' = [waited EXCEPT ![c] = 0]
  /\ UNCHANGED <<attempt, limited>>

\* The claim commits but its answer is lost: the caller sees an exception.
AcquireLost(c, s) ==
  /\ pc[c] = "acquiring"
  /\ ClaimRow(s)
  /\ CallsEnd({c})

\* Mutant: the deadline is compared with > and the wait is capped at it.
GivesUpTooLate(c) ==
  pc[c] = "acquiring" /\ FreeSlots = {} /\ waited[c] > AcquireTimeout
    /\ CallsEnd({c}) /\ UNCHANGED age

\* A try that finds no row after the deadline raises ThetaSlotsExhaustedError.
AcquireGivesUp(c) ==
  /\ pc[c] = "acquiring"
  /\ FreeSlots = {}
  /\ waited[c] = AcquireTimeout
  /\ CallsEnd({c})
  /\ UNCHANGED age

\* The GET ends: with an answer or a transport error (is429 FALSE), or a 429.
EndRequest(c, is429) ==
  /\ pc[c] = "requesting"
  /\ pc' = [pc EXCEPT ![c] = "releasing"]
  /\ limited' = [limited EXCEPT ![c] = is429]
  /\ UNCHANGED <<age, held, elapsed, waited, attempt>>

\* release(slot) clears the row by its number, whatever its holder column says.
ClearRow(c) == age' = [age EXCEPT ![held[c]] = NULL]

\* Mutant: one retry too many.
OneRetryTooMany(c) == limited[c] /\ attempt[c] <= MaxRetries

RetriesLeft(c) == limited[c] /\ attempt[c] < MaxRetries

\* hold() is left and the call returns its response or raises.
ReleaseAndReturn(c) ==
  /\ pc[c] = "releasing"
  /\ ~RetriesLeft(c)
  /\ ClearRow(c)
  /\ CallsEnd({c})

\* hold() is left and the call sleeps before it retries a 429, without a slot.
ReleaseAndBackOff(c) ==
  /\ pc[c] = "releasing"
  /\ RetriesLeft(c)
  /\ ClearRow(c)
  /\ pc' = [pc EXCEPT ![c] = "backoff"]
  /\ held' = [held EXCEPT ![c] = NULL]
  /\ elapsed' = [elapsed EXCEPT ![c] = 0]
  /\ limited' = [limited EXCEPT ![c] = FALSE]
  /\ UNCHANGED <<waited, attempt>>

\* Mutants: a failed release is tried once more by the next step, with the row
\* already cleared; a failed release clears row 1.
ReleasedTwice(c) ==
  pc[c] = "releasing" /\ ClearRow(c)
    /\ UNCHANGED <<pc, held, elapsed, waited, attempt, limited>>
ReleasesFirstRow(c) ==
  pc[c] = "releasing" /\ age' = [age EXCEPT ![1] = NULL] /\ CallsEnd({c})

\* The release's UPDATE fails: its exception ends the call, the row stays.
ReleaseFails(c) ==
  /\ pc[c] = "releasing"
  /\ CallsEnd({c})
  /\ UNCHANGED age

\* The sleep after a 429 (Retry-After or the doubled delay) ends.
Retry(c) ==
  /\ pc[c] = "backoff"
  /\ pc' = [pc EXCEPT ![c] = "acquiring"]
  /\ attempt' = [attempt EXCEPT ![c] = @ + 1]
  /\ UNCHANGED <<age, held, elapsed, waited, limited>>

\* A process dies (and is started again): no finally block of its runs.
Crash(p) ==
  LET dead == {c \in Callers : ProcessOf[c] = p /\ pc[c] # "idle"} IN
  /\ dead # {}
  /\ CallsEnd(dead)
  /\ UNCHANGED age

\* Time passes.  No claim outlives MaxHold while its holder lives.
Tick ==
  /\ \A c \in Holders : elapsed[c] < MaxHold
  /\ age' = [s \in Slots |->
               IF age[s] \in 0..StaleAfter THEN age[s] + 1 ELSE age[s]]
  /\ elapsed' = [c \in Callers |->
                   IF c \in Holders THEN elapsed[c] + 1 ELSE elapsed[c]]
  /\ waited' = [c \in Callers |->
                  IF pc[c] = "acquiring" /\ waited[c] < AcquireTimeout
                  THEN waited[c] + 1 ELSE waited[c]]
  /\ UNCHANGED <<pc, held, attempt, limited>>

\* One turn of acquire()'s loop; a turn that finds no row before the deadline
\* sleeps and changes nothing.
Poll(c) == (\E s \in Slots : Acquire(c, s)) \/ AcquireGivesUp(c)

CallerStep(c) ==
  \/ Start(c)
  \/ Poll(c)
  \/ \E s \in Slots : AcquireLost(c, s)
  \/ \E is429 \in BOOLEAN : EndRequest(c, is429)
  \/ ReleaseAndReturn(c)
  \/ ReleaseAndBackOff(c)
  \/ ReleaseFails(c)
  \/ Retry(c)

Next ==
  \/ \E c \in Callers : CallerStep(c)
  \/ \E p \in Processes : Crash(p)
  \/ Tick

Spec == Init /\ [][Next]_vars

\* Time flows, and a thread that can go on with its call does: it polls every
\* RETRY_INTERVAL_SECONDS, and httpx bounds each request.
Fairness ==
  /\ WF_vars(Tick)
  /\ \A c \in Callers :
       /\ WF_vars(Poll(c))
       /\ WF_vars(\E is429 \in BOOLEAN : EndRequest(c, is429))
       /\ WF_vars(ReleaseAndReturn(c))
       /\ WF_vars(ReleaseAndBackOff(c))

FairSpec == Spec /\ Fairness

-----------------------------------------------------------------------------
\* The account's limit: never more than Limit requests in flight, whatever
\* the processes, crashes and stale claims (request_slots.py's purpose).
WithinLimit == Cardinality(InFlight) <= Limit

\* Two live callers never hold the same row, not even while one of them is
\* still to release it: what makes the unconditional release by number safe.
DistinctRows ==
  \A c, d \in Holders : c # d => held[c] # held[d]

\* A live claim keeps its row: the row is not free for another acquirer and
\* its age is the time since its holder claimed it.
ClaimStands == \A c \in Holders : age[held[c]] = elapsed[c]

\* Clearing a row never takes it from a caller other than the one releasing.
NeverFreesAnothersRow ==
  [][\A s \in Slots, c \in Callers :
       age[s] # NULL /\ age'[s] = NULL /\ c \in Holders /\ held[c] = s
         => c \notin Holders']_vars

\* A row nobody holds any more (crash, failed release, lost answer).
Orphan(s) == ~Free(s) /\ \A c \in Holders : held[c] # s

\* A row leaked by a crash comes back by itself.
OrphansRecovered == \A s \in Slots : Orphan(s) ~> ~Orphan(s)

\* acquire() always ends: with a slot, an exception or the death of its process.
AcquireEnds == \A c \in Callers : pc[c] = "acquiring" ~> pc[c] # "acquiring"

\* ThetaSlotsExhaustedError is raised only when requests really occupy the
\* pool ("real, sustained contention", request_slots.py).
ExhaustedMeansContention ==
  [][\A c \in Callers : AcquireGivesUp(c) => Holders # {}]_vars

\* The pool gives the guarantee of a semaphore of Limit permits.
Semaphore == INSTANCE RequestSemaphore WITH inFlight <- InFlight
ImplementsSemaphore == Semaphore!Spec

\* The table is sound: its types, a row of its own for every holder, claims that
\* stand and, with them, the limit of the account (request_slots.py:74-90).
SlotsSafe == TypeOK /\ DistinctRows /\ ClaimStands /\ WithinLimit
=============================================================================
