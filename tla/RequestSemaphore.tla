-------------------------- MODULE RequestSemaphore --------------------------
(***************************************************************************)
(* What every ThetaData caller is promised by a request-slot pool: at most *)
(* Limit requests are in flight at a time.  It is also the whole of        *)
(* InProcessThetaRequestSlots, a threading.Semaphore(limit).               *)
(***************************************************************************)
EXTENDS Naturals, FiniteSets

CONSTANTS Callers,  \* the threads that call ThetaData
          Limit     \* THETADATA_MAX_CONCURRENT_REQUESTS

VARIABLE inFlight   \* the callers whose request has not ended

Init == inFlight = {}

\* hold() is entered: the semaphore's counter was positive.
Enter(c) ==
  /\ c \notin inFlight
  /\ Cardinality(inFlight) < Limit
  /\ inFlight' = inFlight \cup {c}

\* hold() is left by one caller, or by all those of a process that dies.
Leave(C) ==
  /\ C # {}
  /\ inFlight' = inFlight \ C

Next == (\E c \in Callers : Enter(c)) \/ (\E C \in SUBSET inFlight : Leave(C))

Spec == Init /\ [][Next]_inFlight
=============================================================================
