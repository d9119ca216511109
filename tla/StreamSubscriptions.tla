------------------------- MODULE StreamSubscriptions -------------------------
(***************************************************************************)
(* What ThetaStreamHub (provider.py) has subscribed on its connection to   *)
(* Theta Terminal.  Scheduler threads register contracts and have the      *)
(* event loop subscribe them live; every new connection first waits for    *)
(* the Terminal, then subscribes a copy of what is registered, and a       *)
(* verifier task re-sends the requests the Terminal rejected.              *)
(*                                                                         *)
(* A contract stands for its TRADE and QUOTE streams, and for a streamed   *)
(* underlying, which is one that is never registered late.                 *)
(***************************************************************************)
EXTENDS Naturals, FiniteSets

CONSTANTS
  Contracts,
  Threads,    \* scheduler threads in get_option_chain
  Rounds,     \* retry rounds: SUBSCRIPTION_RETRY_DELAYS_SECONDS has one delay each
  MaxChecks,  \* MAX_CONSECUTIVE_FAILED_SUBSCRIPTION_CHECKS
  MaxConns,   \* bound: connections opened
  MaxIds,     \* bound: subscription requests sent
  None        \* no contract

ASSUME SubscriptionsAssumption ==
  /\ Rounds \in Nat /\ MaxChecks \in Nat \ {0}
  /\ MaxConns \in Nat /\ MaxIds \in Nat
  /\ None \notin Contracts

VARIABLES
  registered,  \* _contracts
  expired,     \* the contracts dropped because they had expired
  missing,     \* missing[t]: the contract t has just found missing
  fresh,       \* fresh[t]: contracts t registered and has not yet handed over
  scheduled,   \* live subscriptions waiting for the event loop, by thread
  conn,        \* number of the current connection, or of the last one
  phase,       \* "down", "waiting", "burst" or "reading"
  todo,        \* what is left of the burst's snapshot
  sent,        \* contracts sent since the snapshot was taken (history)
  nextId,      \* _next_request_id
  requests,    \* _subscription_requests
  answers,     \* REQ_RESPONSE frames read and not yet handled
  failed,      \* _failed_subscriptions
  verifier,    \* the verifier task: "off", "check" or "resend"
  round,       \* its round
  retry,       \* its failed: what this round still has to send
  checks,      \* _failed_subscription_checks
  forced,      \* reconnects the verifier forced since it last succeeded (history)
  rejected     \* contracts whose last handled answer is an ERROR (history)

threadVars == <<registered, expired, missing, fresh>>
sendVars == <<nextId, requests, rejected>>
verifierVars == <<verifier, round, retry, checks, forced>>
vars == <<threadVars, scheduled, conn, phase, todo, sent, sendVars, answers,
          failed, verifierVars>>

Ids == 1..MaxIds
Conns == 1..MaxConns
Requests == [id : Ids, contract : Contracts]

TypeOK ==
  /\ registered \subseteq Contracts /\ expired \subseteq Contracts
  /\ missing \in [Threads -> Contracts \cup {None}]
  /\ fresh \in [Threads -> SUBSET Contracts]
  /\ scheduled \subseteq Threads \X Contracts
  /\ conn \in 0..MaxConns
  /\ phase \in {"down", "waiting", "burst", "reading"}
  /\ todo \subseteq Contracts /\ sent \subseteq Contracts
  /\ nextId \in 1..(MaxIds + 1)
  /\ requests \subseteq Requests
  /\ answers \subseteq [id : Ids, conn : Conns]
  /\ failed \subseteq Contracts /\ retry \subseteq Contracts
  /\ rejected \subseteq Contracts
  /\ verifier \in {"off", "check", "resend"} /\ round \in 0..Rounds
  /\ checks \in 0..MaxConns /\ forced \in 0..MaxConns
  /\ \A r, q \in requests : r.id = q.id => r = q

Init ==
  /\ registered = {} /\ expired = {} /\ missing = [t \in Threads |-> None]
  /\ fresh = [t \in Threads |-> {}] /\ scheduled = {}
  /\ conn = 0 /\ phase = "down" /\ todo = {} /\ sent = {}
  /\ nextId = 1 /\ requests = {} /\ answers = {} /\ rejected = {}
  /\ failed = {} /\ verifier = "off" /\ round = 0 /\ retry = {}
  /\ checks = 0 /\ forced = 0

-----------------------------------------------------------------------------
\* The scheduler's threads: _register_streaming_contracts.

\* has_contract and register_contract are two critical sections.
FindMissing(t, c) ==
  /\ missing[t] = None
  /\ c \notin registered \cup expired
  /\ missing' = [missing EXCEPT ![t] = c]
  /\ UNCHANGED <<registered, expired, fresh, scheduled, conn, phase, todo, sent,
                 sendVars, answers, failed, verifierVars>>

Register(t) ==
  /\ missing[t] # None
  /\ registered' = registered \cup {missing[t]}
  /\ fresh' = [fresh EXCEPT ![t] = @ \cup {missing[t]}]
  /\ missing' = [missing EXCEPT ![t] = None]
  /\ UNCHANGED <<expired, scheduled, conn, phase, todo, sent, sendVars, answers,
                 failed, verifierVars>>

\* Mutant: nothing is scheduled before the connection is read.
ScheduleWhenReading(t, c) ==
  scheduled' = IF phase = "reading" THEN scheduled \cup {<<t, c>>} ELSE scheduled

\* subscribe_new_option_contract: nothing to do without an active socket.
Schedule(t, c) ==
  scheduled' = IF phase # "down" THEN scheduled \cup {<<t, c>>} ELSE scheduled

SubscribeNew(t, c) ==
  /\ missing[t] = None /\ c \in fresh[t]
  /\ fresh' = [fresh EXCEPT ![t] = @ \ {c}]
  /\ Schedule(t, c)
  /\ UNCHANGED <<registered, expired, missing, conn, phase, todo, sent, sendVars,
                 answers, failed, verifierVars>>

\* drop_expired_contracts: a day has ended and some contracts with it; what is
\* subscribed live is left alone.
DropExpired(C) ==
  /\ C # {} /\ C \subseteq registered
  /\ registered' = registered \ C
  /\ expired' = expired \cup C
  /\ UNCHANGED <<missing, fresh, scheduled, conn, phase, todo, sent, sendVars,
                 answers, failed, verifierVars>>

-----------------------------------------------------------------------------
\* Mutant: the id is not advanced.
SubscribeSameId(c) ==
  /\ nextId <= MaxIds
  /\ requests' = requests \cup {[id |-> nextId, contract |-> c]}
  /\ rejected' = rejected \ {c}
  /\ UNCHANGED nextId

\* _subscribe_option: the request is noted under a fresh id, then sent.
Subscribe(c) ==
  /\ nextId <= MaxIds
  /\ requests' = requests \cup {[id |-> nextId, contract |-> c]}
  /\ nextId' = nextId + 1
  /\ rejected' = rejected \ {c}

\* _send_new_contract_subscriptions, on the socket that is active by now.
LiveSend(t, c) ==
  /\ <<t, c>> \in scheduled
  /\ scheduled' = scheduled \ {<<t, c>>}
  /\ IF phase = "down"
     THEN UNCHANGED <<sendVars, sent>>
     ELSE Subscribe(c) /\ sent' = sent \cup {c}
  /\ UNCHANGED <<threadVars, conn, phase, todo, answers, failed, verifierVars>>

-----------------------------------------------------------------------------
\* The connection: _connect_and_consume, _consume.

\* Mutant: the request ids start over.
ConnectRestartsIds ==
  /\ phase = "down" /\ conn < MaxConns
  /\ conn' = conn + 1 /\ phase' = "waiting"
  /\ requests' = {} /\ failed' = {} /\ rejected' = {}
  /\ nextId' = 1
  /\ UNCHANGED <<threadVars, scheduled, todo, sent, answers, verifierVars>>

Connect ==
  /\ phase = "down" /\ conn < MaxConns
  /\ conn' = conn + 1 /\ phase' = "waiting"
  /\ requests' = {} /\ failed' = {} /\ rejected' = {}
  /\ UNCHANGED <<threadVars, scheduled, todo, sent, nextId, answers, verifierVars>>

\* _wait_for_terminal_connected has thrown away the answers to what was sent live
\* meanwhile; the contracts are copied under _contracts_lock.
WaitEnds ==
  /\ phase = "waiting"
  /\ phase' = "burst"
  /\ todo' = registered /\ sent' = {}
  /\ UNCHANGED <<threadVars, scheduled, conn, sendVars, answers, failed, verifierVars>>

BurstSend(c) ==
  /\ phase = "burst" /\ c \in todo
  /\ todo' = todo \ {c} /\ sent' = sent \cup {c}
  /\ Subscribe(c)
  /\ UNCHANGED <<threadVars, scheduled, conn, phase, answers, failed, verifierVars>>

\* The verifier task is created; frames are read from now on.
BurstEnds ==
  /\ phase = "burst" /\ todo = {}
  /\ phase' = "reading"
  /\ verifier' = "check" /\ round' = 0
  /\ UNCHANGED <<threadVars, scheduled, conn, todo, sent, sendVars, answers, failed,
                 retry, checks, forced>>

ConnectionEnds ==
  /\ phase # "down"
  /\ phase' = "down"
  /\ todo' = {}
  /\ verifier' = "off" /\ round' = 0 /\ retry' = {}
  /\ UNCHANGED <<threadVars, scheduled, conn, sent, nextId, requests, rejected,
                 answers, failed, checks, forced>>

-----------------------------------------------------------------------------
\* Answers.

\* The reader puts an answer on the queue, which outlives the connection.  An
\* answer the full queue evicts is one that never comes.
ReadAnswer(r) ==
  /\ phase = "reading"
  /\ r \in requests /\ \A a \in answers : a.conn = conn => a.id # r.id
  /\ answers' = answers \cup {[id |-> r.id, conn |-> conn]}
  /\ UNCHANGED <<threadVars, scheduled, conn, phase, todo, sent, sendVars, failed,
                 verifierVars>>

\* _note_subscription_response: an ERROR is worth another try, no other answer is.
NoteResponse(a, isError) ==
  LET answered == {r \in requests : r.id = a.id}
      contracts == {r.contract : r \in answered}
      again == IF isError THEN contracts ELSE {}
  IN /\ a \in answers
     /\ answers' = answers \ {a}
     /\ requests' = requests \ answered
     /\ failed' = failed \cup again
     /\ rejected' = (rejected \ contracts) \cup again
     /\ UNCHANGED <<threadVars, scheduled, conn, phase, todo, sent, nextId,
                    verifierVars>>

-----------------------------------------------------------------------------
\* _verify_subscriptions.

AllConfirmed == checks' = 0 /\ forced' = 0

\* Mutant: one forced reconnect too many.
StillRejectedOffByOne ==
  /\ checks' = checks + 1
  /\ forced' = IF checks' > MaxChecks THEN forced ELSE forced + 1

\* No round is left: a reconnect, unless too many checks in a row ended this way.
StillRejected ==
  /\ checks' = checks + 1
  /\ forced' = IF checks' >= MaxChecks THEN forced ELSE forced + 1

\* Mutant: the last round is left out.
AnotherRoundTooFew == failed # {} /\ round + 1 < Rounds

AnotherRound == failed # {} /\ round < Rounds

\* The rejected requests are taken: nothing more to do, another round, or the end.
Verify ==
  /\ verifier = "check"
  /\ failed' = {}
  /\ IF AnotherRound
     THEN /\ verifier' = "resend" /\ round' = round + 1 /\ retry' = failed
          /\ UNCHANGED <<checks, forced>>
     ELSE /\ verifier' = "off" /\ round' = 0 /\ retry' = {}
          /\ IF failed = {} THEN AllConfirmed ELSE StillRejected
  /\ UNCHANGED <<threadVars, scheduled, conn, phase, todo, sent, sendVars, answers>>

Resend(c) ==
  /\ verifier = "resend" /\ c \in retry
  /\ retry' = retry \ {c}
  /\ Subscribe(c)
  /\ UNCHANGED <<threadVars, scheduled, conn, phase, todo, sent, answers, failed,
                 verifier, round, checks, forced>>

\* Mutant: the list of rejected requests is emptied after the round.
ResendEndsAndClears ==
  /\ verifier = "resend" /\ retry = {}
  /\ verifier' = "check" /\ failed' = {}
  /\ UNCHANGED <<threadVars, scheduled, conn, phase, todo, sent, sendVars, answers,
                 round, retry, checks, forced>>

ResendEnds ==
  /\ verifier = "resend" /\ retry = {}
  /\ verifier' = "check"
  /\ UNCHANGED <<threadVars, scheduled, conn, phase, todo, sent, sendVars, answers,
                 failed, round, retry, checks, forced>>

Next ==
  \/ \E t \in Threads, c \in Contracts :
       FindMissing(t, c) \/ SubscribeNew(t, c) \/ LiveSend(t, c)
  \/ \E t \in Threads : Register(t)
  \/ \E c \in Contracts : BurstSend(c) \/ Resend(c)
  \/ \E C \in SUBSET registered : DropExpired(C)
  \/ Connect \/ WaitEnds \/ BurstEnds \/ ConnectionEnds
  \/ \E r \in requests : ReadAnswer(r)
  \/ \E a \in answers, isError \in BOOLEAN : NoteResponse(a, isError)
  \/ Verify \/ ResendEnds

Spec == Init /\ [][Next]_vars

\* The verifier's task goes on, and its sends return.
Fairness ==
  WF_vars(Verify) /\ WF_vars(\E c \in Contracts : Resend(c)) /\ WF_vars(ResendEnds)

FairSpec == Spec /\ Fairness

-----------------------------------------------------------------------------
\* Once the snapshot is taken, every registered contract was sent to the
\* Terminal after it was ready, or is on its way: in the burst, or in the hands of
\* the thread or the callback that subscribes it live (subscribe_new_option_contract
\* relies on the next burst when there is no connection).
EveryContractSent ==
  phase \in {"burst", "reading"} =>
    \A c \in registered :
      \/ c \in sent \cup todo
      \/ \E t \in Threads : c \in fresh[t] \/ <<t, c>> \in scheduled

\* While the verifier runs, no rejection is forgotten: the contract is re-sent
\* or still on one of its two lists (_take_failed_subscriptions).
RejectedRemembered == verifier # "off" => rejected \subseteq failed \cup retry

\* "not more than MAX_CONSECUTIVE_FAILED_SUBSCRIPTION_CHECKS times in a row"
\* (_verify_subscriptions): the last check in a row does not reconnect.
ForcedReconnectsBounded == forced < MaxChecks

\* An answer read from an earlier connection is no news about this one: the
\* open requests are forgotten on connecting, and an id is never used twice.
OldAnswersNeverCount ==
  [][\A a \in answers, isError \in BOOLEAN :
       NoteResponse(a, isError) /\ a.conn < conn => failed' = failed]_vars

\* A rejected contract is sent again as long as the verifier has a round left
\* and the connection lives.
RejectedResent ==
  \A c \in Contracts, k \in Conns :
    (verifier # "off" /\ round < Rounds /\ conn = k /\ c \in rejected)
      ~> (c \notin rejected \/ phase = "down" \/ conn > k \/ nextId > MaxIds)

\* No contract is forgotten: neither one registered while the burst is prepared
\* nor one the Terminal rejected.
NothingForgotten == TypeOK /\ EveryContractSent /\ RejectedRemembered
=============================================================================
