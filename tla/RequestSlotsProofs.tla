------------------------- MODULE RequestSlotsProofs -------------------------
(***************************************************************************)
(* Proofs about RequestSlots for every number of callers, processes and    *)
(* rows.  The invariant that carries them: a live caller's row is stamped, *)
(* its age is the time since the caller's claim, and no two live callers   *)
(* have the same row.                                                      *)
(***************************************************************************)
EXTENDS RequestSlots, FiniteSetTheorems, FunctionTheorems, TLAPS

\* A caller has a row exactly while it is between a claim and its release.
HeldByHolders == \A c \in Callers : c \in Holders <=> held[c] # NULL

\* A call that sleeps after a 429 has a retry left.
RetryCounted == \A c \in Callers : pc[c] = "backoff" => attempt[c] < MaxRetries

Locals ==
  /\ pc \in [Callers -> {"idle", "acquiring", "requesting", "releasing", "backoff"}]
  /\ held \in [Callers -> Slots \cup {NULL}]
  /\ elapsed \in [Callers -> 0..MaxHold]
  /\ waited \in [Callers -> 0..AcquireTimeout]
  /\ attempt \in [Callers -> 0..MaxRetries]
  /\ limited \in [Callers -> BOOLEAN]
  /\ RetryCounted

IInv == TypeOK /\ RetryCounted /\ HeldByHolders /\ ClaimStands /\ DistinctRows

LEMMA CallsEndTypes ==
  ASSUME Locals, NEW C \in SUBSET Callers, CallsEnd(C) PROVE Locals'
<1> USE SlotsAssumption DEF Locals, CallsEnd
<1>1. pc' \in [Callers -> {"idle", "acquiring", "requesting", "releasing", "backoff"}]
  OBVIOUS
<1>2. held' \in [Callers -> Slots \cup {NULL}]
  OBVIOUS
<1>3. elapsed' \in [Callers -> 0..MaxHold] /\ waited' \in [Callers -> 0..AcquireTimeout]
  OBVIOUS
<1>4. attempt' \in [Callers -> 0..MaxRetries]
  OBVIOUS
<1>5. limited' \in [Callers -> BOOLEAN]
  BY Zenon
<1>6. RetryCounted'
  BY DEF RetryCounted
<1> QED
  BY <1>1, <1>2, <1>3, <1>4, <1>5, <1>6

\* Types are preserved by every step of the pool and its callers.
LEMMA TypePreserved ==
  TypeOK /\ RetryCounted /\ [Next]_vars => TypeOK' /\ RetryCounted'
<1> SUFFICES ASSUME TypeOK, RetryCounted, [Next]_vars
             PROVE  TypeOK' /\ RetryCounted'
  OBVIOUS
<1> DEFINE Ages == age \in [Slots -> (0..Stale) \cup {NULL}]
<1>a. Ages /\ Locals
  BY DEF TypeOK, Locals
<1>b. SUFFICES Ages' /\ Locals'
  BY DEF TypeOK, Locals
<1>c. ASSUME NEW s \in Slots, ClaimRow(s) PROVE Ages'
  BY <1>a, <1>c, SlotsAssumption DEF ClaimRow, Stale
<1>d. ASSUME NEW c \in Callers, ClearRow(c) PROVE Ages'
  BY <1>a, <1>d DEF ClearRow
<1>1. ASSUME NEW c \in Callers, Start(c) PROVE Ages' /\ Locals'
  BY <1>a, <1>1 DEF Start, Locals, RetryCounted
<1>2. ASSUME NEW c \in Callers, NEW s \in Slots, Acquire(c, s)
      PROVE  Ages' /\ Locals'
  <2>1. Ages'
    BY <1>2, <1>c DEF Acquire
  <2>2. Locals'
    BY <1>a, <1>2, SlotsAssumption DEF Acquire, Locals, RetryCounted
  <2> QED
    BY <2>1, <2>2
<1>3. ASSUME NEW c \in Callers, NEW s \in Slots, AcquireLost(c, s)
      PROVE  Ages' /\ Locals'
  BY <1>a, <1>3, <1>c, CallsEndTypes DEF AcquireLost
<1>4. ASSUME NEW c \in Callers, AcquireGivesUp(c) \/ ReleaseFails(c)
      PROVE  Ages' /\ Locals'
  BY <1>a, <1>4, CallsEndTypes DEF AcquireGivesUp, ReleaseFails
<1>5. ASSUME NEW c \in Callers, NEW is429 \in BOOLEAN, EndRequest(c, is429)
      PROVE  Ages' /\ Locals'
  BY <1>a, <1>5 DEF EndRequest, Locals, RetryCounted
<1>6. ASSUME NEW c \in Callers, ReleaseAndReturn(c) PROVE Ages' /\ Locals'
  BY <1>a, <1>6, <1>d, CallsEndTypes DEF ReleaseAndReturn
<1>7. ASSUME NEW c \in Callers, ReleaseAndBackOff(c) PROVE Ages' /\ Locals'
  <2>1. Ages'
    BY <1>7, <1>d DEF ReleaseAndBackOff
  <2>2. RetryCounted'
    BY <1>a, <1>7 DEF ReleaseAndBackOff, RetriesLeft, Locals, RetryCounted
  <2>3. /\ pc' \in [Callers -> {"idle", "acquiring", "requesting", "releasing", "backoff"}]
        /\ held' \in [Callers -> Slots \cup {NULL}]
        /\ limited' \in [Callers -> BOOLEAN]
        /\ waited' = waited /\ attempt' = attempt
    BY <1>a, <1>7 DEF ReleaseAndBackOff, Locals
  <2>4. elapsed' \in [Callers -> 0..MaxHold]
    BY <1>a, <1>7, SlotsAssumption DEF ReleaseAndBackOff, Locals
  <2> QED
    BY <1>a, <2>1, <2>2, <2>3, <2>4 DEF Locals
<1>8. ASSUME NEW c \in Callers, Retry(c) PROVE Ages' /\ Locals'
  <2>1. attempt[c] + 1 \in 0..MaxRetries
    BY <1>a, <1>8, SlotsAssumption DEF Retry, Locals, RetryCounted
  <2> QED
    BY <1>a, <1>8, <2>1 DEF Retry, Locals, RetryCounted
<1>9. ASSUME NEW p \in Processes, Crash(p) PROVE Ages' /\ Locals'
  BY <1>a, <1>9, CallsEndTypes DEF Crash
<1>10. CASE Tick
  <2>1. Ages'
    BY <1>a, <1>10, SlotsAssumption DEF Tick, Stale
  <2>2. elapsed' \in [Callers -> 0..MaxHold] /\ waited' \in [Callers -> 0..AcquireTimeout]
    BY <1>a, <1>10, SlotsAssumption DEF Tick, Locals
  <2> QED
    BY <1>a, <1>10, <2>1, <2>2 DEF Tick, Locals, RetryCounted
<1>11. CASE UNCHANGED vars
  BY <1>a, <1>11 DEF vars, Locals, RetryCounted
<1> QED
  BY <1>1, <1>2, <1>3, <1>4, <1>5, <1>6, <1>7, <1>8, <1>9, <1>10, <1>11
     DEF Next, CallerStep, Poll

-----------------------------------------------------------------------------
\* What the rows and the callers know of each other.
Rows == HeldByHolders /\ ClaimStands /\ DistinctRows

\* A live caller's row is a row, and no acquirer may take it.
LEMMA HeldRowsAreNotFree ==
  ASSUME TypeOK, Rows, NEW c \in Holders
  PROVE  c \in Callers /\ held[c] \in Slots /\ ~Free(held[c])
<1>1. c \in Callers /\ held[c] \in Slots
  BY DEF Holders, TypeOK, Rows, HeldByHolders
<1>2. age[held[c]] \in 0..MaxHold
  BY <1>1 DEF Rows, ClaimStands, TypeOK
<1> QED
  BY <1>1, <1>2, SlotsAssumption, HoldAssumption DEF Free, Stale

\* Calls that end leave the others' rows as they are, unless the rows change.
LEMMA CallsEndRows ==
  ASSUME TypeOK, Rows, NEW C \in SUBSET Callers, CallsEnd(C),
         \A c \in Holders \ C : age'[held[c]] = age[held[c]]
  PROVE  Rows'
<1>1. Holders' = Holders \ C
  BY DEF Holders, CallsEnd, TypeOK
<1>2. \A c \in Holders' : held'[c] = held[c] /\ elapsed'[c] = elapsed[c]
  BY <1>1 DEF CallsEnd, Holders
<1>3. HeldByHolders'
  BY <1>1 DEF CallsEnd, Rows, HeldByHolders, Holders
<1>4. ClaimStands'
  BY <1>1, <1>2 DEF Rows, ClaimStands
<1>5. DistinctRows'
  BY <1>1, <1>2 DEF Rows, DistinctRows
<1> QED
  BY <1>3, <1>4, <1>5 DEF Rows

\* A claim never takes a live caller's row.
LEMMA ClaimSparesHolders ==
  ASSUME TypeOK, Rows, NEW s \in Slots, ClaimRow(s), NEW c \in Holders
  PROVE  held[c] # s /\ age'[held[c]] = age[held[c]]
BY HeldRowsAreNotFree DEF ClaimRow, FreeSlots, TypeOK

\* A release clears only the row of the caller that releases.
LEMMA ReleaseSparesHolders ==
  ASSUME TypeOK, Rows, NEW c \in Holders, ClearRow(c), NEW d \in Holders, d # c
  PROVE  age'[held[d]] = age[held[d]]
BY HeldRowsAreNotFree DEF ClearRow, Rows, DistinctRows, TypeOK

LEMMA RowsPreserved == TypeOK /\ Rows /\ [Next]_vars => Rows'
<1> SUFFICES ASSUME TypeOK, Rows, [Next]_vars PROVE Rows'
  OBVIOUS
<1>a. ASSUME Holders' = Holders, UNCHANGED <<age, held, elapsed>> PROVE Rows'
  BY <1>a DEF Rows, HeldByHolders, ClaimStands, DistinctRows
<1>1. ASSUME NEW c \in Callers, Start(c) PROVE Rows'
  BY <1>1, <1>a DEF Start, Holders, TypeOK
<1>2. ASSUME NEW c \in Callers, NEW s \in Slots, Acquire(c, s) PROVE Rows'
  <2>1. c \notin Holders /\ Holders' = Holders \cup {c}
    BY <1>2 DEF Acquire, Holders, TypeOK
  <2>2. held'[c] = s /\ \A d \in Holders : held'[d] = held[d]
    BY <1>2, <2>1 DEF Acquire, TypeOK, Holders
  <2>3. \A d \in Holders : held[d] # s /\ age'[held[d]] = age[held[d]]
    BY <1>2, ClaimSparesHolders DEF Acquire
  <2>4. age'[s] = 0 /\ elapsed'[c] = 0
        /\ \A d \in Holders : elapsed'[d] = elapsed[d]
    BY <1>2, <2>1 DEF Acquire, ClaimRow, TypeOK, Holders
  <2>5. HeldByHolders'
    BY <1>2, <2>1, SlotsAssumption DEF Acquire, Rows, HeldByHolders, TypeOK, Slots
  <2>6. ClaimStands'
    BY <2>1, <2>2, <2>3, <2>4 DEF Rows, ClaimStands
  <2>7. DistinctRows'
    BY <2>1, <2>2, <2>3 DEF Rows, DistinctRows
  <2> QED
    BY <2>5, <2>6, <2>7 DEF Rows
<1>3. ASSUME NEW c \in Callers, NEW s \in Slots, AcquireLost(c, s) PROVE Rows'
  BY <1>3, ClaimSparesHolders, CallsEndRows DEF AcquireLost
<1>4. ASSUME NEW c \in Callers, AcquireGivesUp(c) \/ ReleaseFails(c) PROVE Rows'
  BY <1>4, CallsEndRows DEF AcquireGivesUp, ReleaseFails
<1>5. ASSUME NEW c \in Callers, NEW is429 \in BOOLEAN, EndRequest(c, is429)
      PROVE  Rows'
  BY <1>5, <1>a DEF EndRequest, Holders, TypeOK
<1>6. ASSUME NEW c \in Callers, ReleaseAndReturn(c) PROVE Rows'
  <2>1. c \in Holders
    BY <1>6 DEF ReleaseAndReturn, Holders
  <2> QED
    BY <1>6, <2>1, ReleaseSparesHolders, CallsEndRows DEF ReleaseAndReturn
<1>7. ASSUME NEW c \in Callers, ReleaseAndBackOff(c) PROVE Rows'
  <2>1. c \in Holders /\ Holders' = Holders \ {c}
    BY <1>7 DEF ReleaseAndBackOff, Holders, TypeOK
  <2>2. \A d \in Holders' : held'[d] = held[d] /\ elapsed'[d] = elapsed[d]
    BY <1>7, <2>1 DEF ReleaseAndBackOff, Holders, TypeOK
  <2>3. \A d \in Holders' : age'[held[d]] = age[held[d]]
    BY <1>7, <2>1, ReleaseSparesHolders DEF ReleaseAndBackOff
  <2>4. HeldByHolders'
    BY <1>7, <2>1 DEF ReleaseAndBackOff, Rows, HeldByHolders, TypeOK
  <2> QED
    BY <2>1, <2>2, <2>3, <2>4 DEF Rows, ClaimStands, DistinctRows
<1>8. ASSUME NEW c \in Callers, Retry(c) PROVE Rows'
  BY <1>8, <1>a DEF Retry, Holders, TypeOK
<1>9. ASSUME NEW p \in Processes, Crash(p) PROVE Rows'
  BY <1>9, CallsEndRows DEF Crash
<1>10. CASE Tick
  <2>1. Holders' = Holders /\ held' = held
    BY <1>10 DEF Tick, Holders
  <2>2. ASSUME NEW c \in Holders
        PROVE  age'[held[c]] = age[held[c]] + 1 /\ elapsed'[c] = elapsed[c] + 1
    <3>1. c \in Callers /\ held[c] \in Slots /\ age[held[c]] = elapsed[c]
      BY HeldRowsAreNotFree DEF Rows, ClaimStands
    <3>2. elapsed[c] \in 0..StaleAfter
      BY <3>1, SlotsAssumption, HoldAssumption DEF TypeOK
    <3> QED
      BY <1>10, <3>1, <3>2 DEF Tick
  <2> QED
    BY <2>1, <2>2 DEF Rows, HeldByHolders, ClaimStands, DistinctRows
<1>11. CASE UNCHANGED vars
  BY <1>11, <1>a DEF vars, Holders
<1> QED
  BY <1>1, <1>2, <1>3, <1>4, <1>5, <1>6, <1>7, <1>8, <1>9, <1>10, <1>11
     DEF Next, CallerStep, Poll

-----------------------------------------------------------------------------
\* The inductive invariant holds throughout: a claim is exclusive and stays
\* stamped for as long as its holder is alive (PostgresThetaRequestSlots).
THEOREM Invariance == Spec => []IInv
<1>1. Init => IInv
  BY SlotsAssumption DEF Init, IInv, TypeOK, RetryCounted, HeldByHolders,
     ClaimStands, DistinctRows, Holders, Slots, Stale
<1>2. IInv /\ [Next]_vars => IInv'
  BY TypePreserved, RowsPreserved DEF IInv, Rows
<1> QED
  BY <1>1, <1>2, PTL DEF Spec

\* Every variable keeps its type, whatever the steps of the callers.
THEOREM TypeCorrect == Spec => []TypeOK
BY Invariance, PTL DEF IInv

\* No two live callers ever share a row: FOR UPDATE SKIP LOCKED and the stale
\* reclaim together give every claim an exclusive row.
THEOREM RowsDistinct == Spec => []DistinctRows
BY Invariance, PTL DEF IInv

\* A live claim's row is never reclaimed as stale.
THEOREM ClaimsStand == Spec => []ClaimStands
BY Invariance, PTL DEF IInv

\* The requests in flight hold distinct rows, so there are at most Limit.
LEMMA DistinctRowsBound ==
  IInv => IsFiniteSet(InFlight) /\ Cardinality(InFlight) <= Limit
<1> SUFFICES ASSUME IInv PROVE IsFiniteSet(InFlight) /\ Cardinality(InFlight) <= Limit
  OBVIOUS
<1> DEFINE row == [c \in InFlight |-> held[c]]
<1>1. row \in Injection(InFlight, Slots)
  <2>1. \A c \in InFlight : c \in Holders /\ held[c] \in Slots
    BY HeldRowsAreNotFree DEF IInv, Rows, InFlight, Holders
  <2> QED
    BY <2>1 DEF IInv, DistinctRows, Injection, IsInjective
<1>2. IsFiniteSet(Slots) /\ Cardinality(Slots) = Limit
  BY FS_Interval, SlotsAssumption DEF Slots
<1> QED
  BY <1>1, <1>2, FS_Injection

\* Never more than THETADATA_MAX_CONCURRENT_REQUESTS requests in flight over
\* all the processes, for any number of callers and any crashes.
THEOREM LimitKept == Spec => []WithinLimit
<1>1. IInv => WithinLimit
  BY DistinctRowsBound DEF WithinLimit
<1> QED
  BY <1>1, Invariance, PTL

\* All that makes the table sound, for every number of callers, processes and rows.
THEOREM SlotsAreSafe == Spec => []SlotsSafe
<1>1. IInv => TypeOK /\ DistinctRows /\ ClaimStands
  BY DEF IInv
<1> QED
  BY <1>1, Invariance, LimitKept, PTL DEF SlotsSafe

\* A step that clears a live holder's row is that holder's own release.
THEOREM ReleasesSpareOthers == Spec => NeverFreesAnothersRow
<1> DEFINE Spares ==
      \A s \in Slots, c \in Callers :
        age[s] # NULL /\ age'[s] = NULL /\ c \in Holders /\ held[c] = s
          => c \notin Holders'
<1>1. ASSUME IInv, Next PROVE Spares
  <2> USE <1>1, SlotsAssumption
  <2> SUFFICES ASSUME NEW s \in Slots, NEW c \in Callers, age[s] # NULL,
                      age'[s] = NULL, c \in Holders, held[c] = s
               PROVE  c \notin Holders'
    OBVIOUS
  <2>1. PICK d \in Callers : (ReleaseAndReturn(d) \/ ReleaseAndBackOff(d)) /\ held[d] = s
    <3>1. ASSUME NEW u \in Slots, ClaimRow(u) PROVE FALSE
      BY <3>1 DEF ClaimRow, IInv, TypeOK
    <3>2. CASE Tick
      BY <3>2 DEF Tick
    <3>3. ASSUME age' = age PROVE FALSE
      BY <3>3
    <3>4. PICK d \in Callers : ReleaseAndReturn(d) \/ ReleaseAndBackOff(d)
      BY <3>1, <3>2, <3>3 DEF Next, CallerStep, Poll, Start, Acquire, AcquireLost,
         AcquireGivesUp, EndRequest, ReleaseFails, Retry, Crash
    <3>5. ClearRow(d)
      BY <3>4 DEF ReleaseAndReturn, ReleaseAndBackOff
    <3>6. age' = [age EXCEPT ![held[d]] = NULL]
      BY <3>5 DEF ClearRow
    <3> QED
      BY <3>4, <3>6 DEF IInv, TypeOK
  <2>2. d \in Holders
    BY <2>1 DEF Holders, ReleaseAndReturn, ReleaseAndBackOff
  <2>3. d = c
    BY <2>1, <2>2 DEF IInv, DistinctRows
  <2> QED
    BY <2>1, <2>3 DEF ReleaseAndReturn, ReleaseAndBackOff, CallsEnd, Holders, IInv, TypeOK
<1>2. IInv /\ [Next]_vars => [Spares]_vars
  BY <1>1
<1> QED
  BY <1>2, Invariance, PTL DEF Spec, NeverFreesAnothersRow

-----------------------------------------------------------------------------
\* A claim is the only step that adds a request in flight, and it adds one.
LEMMA RequestsStep ==
  ASSUME TypeOK, [Next]_vars
  PROVE  \/ InFlight' \subseteq InFlight
         \/ \E c \in Callers : c \notin InFlight /\ InFlight' = InFlight \cup {c}
<1> USE DEF InFlight, TypeOK
<1>1. ASSUME NEW C \in SUBSET Callers, CallsEnd(C) PROVE InFlight' \subseteq InFlight
  BY <1>1 DEF CallsEnd
<1>2. ASSUME NEW c \in Callers, NEW s \in Slots, Acquire(c, s)
      PROVE  c \notin InFlight /\ InFlight' = InFlight \cup {c}
  BY <1>2 DEF Acquire
<1>3. ASSUME NEW c \in Callers,
             \/ Start(c) \/ AcquireGivesUp(c) \/ ReleaseAndReturn(c)
             \/ ReleaseAndBackOff(c) \/ ReleaseFails(c) \/ Retry(c)
             \/ \E s \in Slots : AcquireLost(c, s)
             \/ \E is429 \in BOOLEAN : EndRequest(c, is429)
      PROVE  InFlight' \subseteq InFlight
  <2>1. CASE CallsEnd({c})
    BY <2>1, <1>1
  <2>2. CASE Start(c) \/ Retry(c) \/ ReleaseAndBackOff(c)
             \/ \E is429 \in BOOLEAN : EndRequest(c, is429)
    BY <2>2 DEF Start, Retry, ReleaseAndBackOff, EndRequest
  <2> QED
    BY <1>3, <2>1, <2>2 DEF AcquireGivesUp, ReleaseAndReturn, ReleaseFails, AcquireLost
<1>4. ASSUME NEW p \in Processes, Crash(p) PROVE InFlight' \subseteq InFlight
  BY <1>4, <1>1 DEF Crash
<1>5. CASE Tick \/ UNCHANGED vars
  BY <1>5 DEF Tick, vars
<1> QED
  BY <1>2, <1>3, <1>4, <1>5 DEF Next, CallerStep, Poll

\* The pool of rows gives every caller what a threading.Semaphore(Limit) gives.
THEOREM SlotsAreASemaphore == Spec => ImplementsSemaphore
<1>1. Init => Semaphore!Init
  BY DEF Init, Semaphore!Init, InFlight
<1>2. (IInv => IsFiniteSet(InFlight) /\ Cardinality(InFlight) <= Limit)'
  BY DistinctRowsBound, PTL
<1>3. IInv /\ IInv' /\ [Next]_vars => [Semaphore!Next]_InFlight
  <2> SUFFICES ASSUME IInv, IInv', [Next]_vars PROVE [Semaphore!Next]_InFlight
    OBVIOUS
  <2>1. IsFiniteSet(InFlight) /\ Cardinality(InFlight') <= Limit
    BY <1>2, DistinctRowsBound
  <2>2. CASE \E c \in Callers : c \notin InFlight /\ InFlight' = InFlight \cup {c}
    <3>1. PICK c \in Callers : c \notin InFlight /\ InFlight' = InFlight \cup {c}
      BY <2>2
    <3>2. Cardinality(InFlight \cup {c}) = Cardinality(InFlight) + 1
      BY <2>1, <3>1, FS_AddElement
    <3>3. Cardinality(InFlight) \in Nat
      BY <2>1, FS_CardinalityType
    <3>4. Cardinality(InFlight \cup {c}) <= Limit
      BY <2>1, <3>1
    <3>5. Cardinality(InFlight) < Limit
      BY <3>2, <3>3, <3>4, SlotsAssumption
    <3> QED
      BY <3>1, <3>5 DEF Semaphore!Next, Semaphore!Enter, Semaphore!Cardinality, Cardinality
  <2>3. CASE InFlight' \subseteq InFlight
    <3> DEFINE C == InFlight \ InFlight'
    <3>1. InFlight' = InFlight \ C /\ C \in SUBSET InFlight
      BY <2>3
    <3>2. CASE C # {}
      BY <3>1, <3>2 DEF Semaphore!Next, Semaphore!Leave
    <3>3. CASE C = {}
      BY <3>1, <3>3
    <3> QED
      BY <3>2, <3>3
  <2> QED
    BY <2>2, <2>3, RequestsStep DEF IInv
<1> QED
  BY <1>1, <1>3, Invariance, PTL DEF Spec, ImplementsSemaphore, Semaphore!Spec
=============================================================================
