---------------------- MODULE StreamSubscriptionsProofs ----------------------
(***************************************************************************)
(* Proofs about StreamSubscriptions for any number of contracts, threads,  *)
(* retry rounds, connections and requests.  Four facts carry them, one for *)
(* each way a subscription changes hands: what the lists of rejected       *)
(* requests hold before the verifier starts, which request ids are in use, *)
(* which connection an answer belongs to, and what the verifier has        *)
(* counted.                                                                *)
(***************************************************************************)
EXTENDS StreamSubscriptions, TLAPS

\* Request ids are below the next one, in the open requests and in the answers.
IdsUsed ==
  /\ \A r \in requests : r.id < nextId
  /\ \A a \in answers : a.id < nextId

\* An answer belongs to this connection or to an earlier one, and the requests of
\* an earlier one are not open any more.
AnswersOfConnection ==
  \A a \in answers :
    /\ a.conn <= conn
    /\ a.conn < conn => \A r \in requests : r.id # a.id

\* The verifier runs only while frames are read, has something to re-send only
\* in its resend step, and is started with every rejection on the first list.
VerifierReads ==
  /\ verifier # "off" => phase = "reading"
  /\ verifier # "resend" => retry = {}
  /\ phase \in {"waiting", "burst"} => rejected \subseteq failed

\* A connection is checked at most once, and forced away at most once.
OneCheckEach ==
  /\ phase # "down" => conn > 0
  /\ checks <= conn
  /\ phase \in {"waiting", "burst"} \/ verifier # "off" => checks < conn
  /\ forced <= checks

IInv ==
  /\ NothingForgotten /\ ForcedReconnectsBounded
  /\ IdsUsed /\ AnswersOfConnection /\ VerifierReads /\ OneCheckEach

-----------------------------------------------------------------------------
\* A request goes out under an id of its own, which no answer carries yet.
LEMMA SubscribeKeepsIds ==
  ASSUME TypeOK, IdsUsed, AnswersOfConnection, NEW c \in Contracts, Subscribe(c),
         UNCHANGED <<answers, conn>>
  PROVE  /\ nextId' \in 1..(MaxIds + 1) /\ requests' \subseteq Requests
         /\ \A r, q \in requests' : r.id = q.id => r = q
         /\ IdsUsed' /\ AnswersOfConnection'
         /\ rejected' = rejected \ {c}
BY SubscriptionsAssumption DEF Subscribe, TypeOK, IdsUsed, AnswersOfConnection, Requests, Ids, Conns

-----------------------------------------------------------------------------
LEMMA Step == IInv /\ [Next]_vars => IInv'
<1> SUFFICES ASSUME IInv, [Next]_vars PROVE IInv'
  OBVIOUS
<1> USE SubscriptionsAssumption
    DEF IInv, NothingForgotten, TypeOK, EveryContractSent, RejectedRemembered,
        ForcedReconnectsBounded, IdsUsed, AnswersOfConnection, VerifierReads, OneCheckEach
<1>1. ASSUME NEW t \in Threads, NEW c \in Contracts, FindMissing(t, c) PROVE IInv'
  BY <1>1 DEF FindMissing, sendVars, verifierVars
<1>2. ASSUME NEW t \in Threads, Register(t) PROVE IInv'
  BY <1>2 DEF Register, sendVars, verifierVars
<1>3. ASSUME NEW t \in Threads, NEW c \in Contracts, SubscribeNew(t, c) PROVE IInv'
  BY <1>3 DEF SubscribeNew, Schedule, sendVars, verifierVars
<1>4. ASSUME NEW t \in Threads, NEW c \in Contracts, LiveSend(t, c) PROVE IInv'
  <2>1. CASE phase = "down"
    BY <1>4, <2>1 DEF LiveSend, threadVars, sendVars, verifierVars
  <2>2. CASE phase # "down"
    <3>1. /\ Subscribe(c) /\ sent' = sent \cup {c} /\ scheduled' = scheduled \ {<<t, c>>}
          /\ UNCHANGED <<threadVars, conn, phase, todo, answers, failed, verifierVars>>
      BY <1>4, <2>2 DEF LiveSend
    <3>2. /\ nextId' \in 1..(MaxIds + 1) /\ requests' \subseteq Requests
          /\ \A r, q \in requests' : r.id = q.id => r = q
          /\ IdsUsed' /\ AnswersOfConnection'
          /\ rejected' = rejected \ {c}
      BY <3>1, SubscribeKeepsIds
    <3> QED
      BY <3>1, <3>2 DEF threadVars, verifierVars
  <2> QED
    BY <2>1, <2>2
<1>5. ASSUME NEW c \in Contracts, BurstSend(c) PROVE IInv'
  <2>1. /\ nextId' \in 1..(MaxIds + 1) /\ requests' \subseteq Requests
        /\ \A r, q \in requests' : r.id = q.id => r = q
        /\ IdsUsed' /\ AnswersOfConnection'
        /\ rejected' = rejected \ {c}
    BY <1>5, SubscribeKeepsIds DEF BurstSend
  <2> QED
    BY <1>5, <2>1 DEF BurstSend, threadVars, verifierVars
<1>6. ASSUME NEW C \in SUBSET registered, DropExpired(C) PROVE IInv'
  BY <1>6 DEF DropExpired, sendVars, verifierVars
<1>7. CASE Connect
  BY <1>7 DEF Connect, Conns, threadVars, verifierVars
<1>8. CASE WaitEnds
  BY <1>8 DEF WaitEnds, threadVars, sendVars, verifierVars
<1>9. CASE BurstEnds
  <2>1. TypeOK'
    BY <1>9 DEF BurstEnds, threadVars, sendVars
  <2>2. EveryContractSent' /\ RejectedRemembered'
    BY <1>9 DEF BurstEnds, threadVars, sendVars
  <2> QED
    BY <1>9, <2>1, <2>2 DEF BurstEnds, threadVars, sendVars
<1>10. CASE ConnectionEnds
  BY <1>10 DEF ConnectionEnds, threadVars
<1>11. ASSUME NEW r \in requests, ReadAnswer(r) PROVE IInv'
  <2>1. [id |-> r.id, conn |-> conn] \in [id : Ids, conn : Conns]
    BY <1>11 DEF ReadAnswer, Requests, Conns
  <2>2. TypeOK'
    BY <1>11, <2>1 DEF ReadAnswer, threadVars, sendVars, verifierVars
  <2>3. IdsUsed' /\ AnswersOfConnection'
    BY <1>11, <2>1 DEF ReadAnswer, Conns, threadVars, sendVars, verifierVars
  <2> QED
    BY <1>11, <2>2, <2>3 DEF ReadAnswer, threadVars, sendVars, verifierVars
<1>12. ASSUME NEW a \in answers, NEW isError \in BOOLEAN, NoteResponse(a, isError) PROVE IInv'
  <2>1. /\ requests' \subseteq requests /\ answers' \subseteq answers
        /\ \E again \in SUBSET Contracts :
             failed' = failed \cup again /\ rejected' \subseteq rejected \cup again
    <3> DEFINE contracts == {r.contract : r \in {r \in requests : r.id = a.id}}
    <3>1. contracts \subseteq Contracts
      BY DEF Requests
    <3>2. /\ requests' \subseteq requests /\ answers' \subseteq answers
          /\ failed' = failed \cup (IF isError THEN contracts ELSE {})
          /\ rejected' = (rejected \ contracts) \cup (IF isError THEN contracts ELSE {})
      BY <1>12 DEF NoteResponse
    <3> HIDE DEF contracts
    <3> QED
      BY <3>1, <3>2
  <2>2. UNCHANGED <<threadVars, scheduled, conn, phase, todo, sent, nextId, verifierVars>>
    BY <1>12 DEF NoteResponse
  <2>3. TypeOK'
    BY <2>1, <2>2 DEF threadVars, verifierVars
  <2>4. IdsUsed' /\ AnswersOfConnection'
    BY <2>1, <2>2
  <2>5. RejectedRemembered' /\ VerifierReads'
    BY <2>1, <2>2 DEF verifierVars
  <2> QED
    BY <2>2, <2>3, <2>4, <2>5 DEF threadVars, verifierVars
<1>13. CASE Verify
  <2>1. /\ UNCHANGED <<threadVars, scheduled, conn, phase, todo, sent, sendVars, answers>>
        /\ verifier = "check" /\ failed' = {}
    BY <1>13 DEF Verify
  <2>2. CASE AnotherRound
    <3>1. /\ verifier' = "resend" /\ round' = round + 1 /\ retry' = failed
          /\ UNCHANGED <<checks, forced>> /\ round < Rounds
      BY <1>13, <2>2 DEF Verify, AnotherRound
    <3>2. TypeOK'
      BY <2>1, <3>1 DEF threadVars, sendVars
    <3> QED
      BY <2>1, <3>1, <3>2 DEF threadVars, sendVars
  <2>3. CASE ~AnotherRound
    <3>1. /\ checks' \in {0, checks + 1} /\ forced' \in {0, forced, forced + 1}
          /\ forced' <= checks' /\ forced' < MaxChecks
      BY <1>13, <2>3 DEF Verify, AllConfirmed, StillRejected
    <3>2. /\ checks' <= conn /\ checks' \in 0..MaxConns /\ forced' \in 0..MaxConns
          /\ forced' <= checks' /\ forced' < MaxChecks
      BY <2>1, <3>1
    <3>3. verifier' = "off" /\ retry' = {} /\ round' = 0
      BY <1>13, <2>3 DEF Verify
    <3>4. TypeOK'
      BY <2>1, <3>2, <3>3 DEF threadVars, sendVars
    <3> QED
      BY <2>1, <3>2, <3>3, <3>4 DEF threadVars, sendVars
  <2> QED
    BY <2>2, <2>3
<1>14. ASSUME NEW c \in Contracts, Resend(c) PROVE IInv'
  <2>1. Subscribe(c) /\ UNCHANGED <<answers, conn>>
    BY <1>14 DEF Resend
  <2>2. TypeOK' /\ IdsUsed' /\ AnswersOfConnection'
    BY <1>14, <2>1, SubscribeKeepsIds DEF Resend, threadVars
  <2>3. rejected' = rejected \ {c}
    BY <2>1 DEF Subscribe
  <2> QED
    BY <1>14, <2>2, <2>3 DEF Resend, threadVars
<1>15. CASE ResendEnds
  BY <1>15 DEF ResendEnds, threadVars, sendVars
<1>16. CASE UNCHANGED vars
  BY <1>16 DEF vars, threadVars, sendVars, verifierVars
<1> QED
  BY <1>1, <1>2, <1>3, <1>4, <1>5, <1>6, <1>7, <1>8, <1>9, <1>10, <1>11, <1>12,
     <1>13, <1>14, <1>15, <1>16 DEF Next

\* The inductive invariant holds throughout.
THEOREM SubscriptionsInvariance == Spec => []IInv
<1>1. Init => IInv
  BY SubscriptionsAssumption
     DEF Init, IInv, NothingForgotten, TypeOK, EveryContractSent, RejectedRemembered,
         ForcedReconnectsBounded, IdsUsed, AnswersOfConnection, VerifierReads, OneCheckEach
<1> QED
  BY <1>1, Step, PTL DEF Spec

\* No contract is forgotten: not one registered while a connection is being
\* prepared, by any thread at any moment of the burst, and while the verifier
\* runs not one the Terminal rejected.
THEOREM ContractsNotForgotten == Spec => []NothingForgotten
BY SubscriptionsInvariance, PTL DEF IInv

\* The verifier never forces the connection away
\* MAX_CONSECUTIVE_FAILED_SUBSCRIPTION_CHECKS times in a row.
THEOREM ForcedReconnects == Spec => []ForcedReconnectsBounded
BY SubscriptionsInvariance, PTL DEF IInv

\* An answer that outlived its connection changes nothing on a later one.
THEOREM OldAnswers == Spec => OldAnswersNeverCount
<1> DEFINE Ignored == \A a \in answers, isError \in BOOLEAN :
                        NoteResponse(a, isError) /\ a.conn < conn => failed' = failed
<1>1. ASSUME IInv PROVE Ignored
  BY <1>1 DEF IInv, AnswersOfConnection, NoteResponse
<1> QED
  BY <1>1, SubscriptionsInvariance, PTL DEF Spec, OldAnswersNeverCount
=============================================================================
