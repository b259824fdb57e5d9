--------------------------- MODULE ProcessPayment ---------------------------
(***************************************************************************)
(* The back end's fee and payment requests (GetParkingFeeService,          *)
(* ProcessPaymentService), the NotifyRetryWorker that repeats the paid     *)
(* notice to the PMS, and what they share: the fee quotes and retry        *)
(* records in Redis, the parking_sessions and transactions tables.         *)
(*                                                                         *)
(* Several requests run at once (FastAPI runs the handlers in a thread     *)
(* pool, several instances may run), each with its own database session,   *)
(* so every access to shared state is a step of its own.  The PG and the   *)
(* PMS are external: a call may fail, and may take effect although the     *)
(* caller saw it fail.  An idempotency key is the pair it is the hash of:  *)
(* a parking session (which fixes the car) and an amount.                  *)
(***************************************************************************)
EXTENDS Naturals, FiniteSets

CONSTANTS
  Sessions,   \* parking sessions of the back end, all entered
  Amounts,    \* the fees the PMS may come to ask for
  Requests,   \* HTTP request handlers
  Notifiers,  \* NotifyRetryWorker threads, one per instance
  Scenarios   \* the sets of faults a behaviour may be exposed to

\* A process that dies; a database or Redis that fails; a retry record that
\* outlives its time; a PG or a PMS that fails, or seems to.
FaultKinds == {"crash", "db", "redis", "ttl", "pg", "pms"}

ASSUME PaymentAssumption ==
  /\ Amounts \subseteq Nat
  /\ Scenarios \subseteq SUBSET FaultKinds

VARIABLES
  faults,   \* what may go wrong in this behaviour, fixed from the start
  fee,      \* fee[s]: what the PMS would ask for s now
  quotes,   \* parking_fee_quote:{session_id}, as pairs session, amount
  session,  \* parking_sessions.status
  tx,       \* transactions.status by idempotency key, "none" without a row
  outbox,   \* keys whose payment.completed notification was enqueued
  pg,       \* what became of the charge at the PG
  asks,     \* history: how many times the PG was asked to charge the key
  pmsPaid,  \* keys the PMS has recorded as paid
  retries,  \* pms_payment_retry:{tx_id}, by the key of the transaction
  receipts, \* history: keys some caller was told "success" for
  refusals, \* history: keys some caller was told "failed" for
  pc,       \* where a request is
  job,      \* the key a request is about
  mode,     \* the branch a payment took: charging, free of charge, or repeated
  npc,      \* where a notifier is
  njob      \* the key a notifier is sending

reqVars == <<pc, job, mode>>
notVars == <<npc, njob>>
payVars == <<fee, quotes, session, tx, outbox, pg, asks, pmsPaid, retries,
             receipts, refusals, reqVars, notVars>>
vars == <<faults, payVars>>

Keys         == Sessions \X Amounts
NoKey        == <<>>
SessionOf(k) == k[1]
Amount(k)    == k[2]
Free         == {k \in Keys : Amount(k) = 0}

RequestPcs == {"idle", "fee_call", "fee_save", "lookup", "create", "charge", "waiting",
               "decline", "mark", "complete", "notify", "record", "clear", "except"}

TypeOK ==
  /\ faults \in Scenarios
  /\ fee \in [Sessions -> Amounts]
  /\ quotes \subseteq Keys
  /\ session \in [Sessions -> {"active", "completed"}]
  /\ tx \in [Keys -> {"none", "pending", "success", "failed"}]
  /\ outbox \subseteq Keys
  /\ pg \in [Keys -> {"none", "asked", "charged", "declined"}]
  /\ asks \in [Keys -> Nat]
  /\ pmsPaid \subseteq Keys
  /\ retries \subseteq Keys
  /\ receipts \subseteq Keys
  /\ refusals \subseteq Keys
  /\ pc \in [Requests -> RequestPcs]
  /\ job \in [Requests -> Keys \cup {NoKey}]
  /\ mode \in [Requests -> {"none", "paid", "free", "again"}]
  /\ \A r \in Requests : pc[r] # "idle" => job[r] \in Keys
  /\ npc \in [Notifiers -> {"idle", "send", "delete"}]
  /\ njob \in [Notifiers -> Keys \cup {NoKey}]
  /\ \A w \in Notifiers : npc[w] # "idle" => njob[w] \in Keys

Init ==
  /\ faults \in Scenarios
  /\ fee \in [Sessions -> Amounts]
  /\ quotes = {}
  /\ session = [s \in Sessions |-> "active"]
  /\ tx = [k \in Keys |-> "none"]
  /\ outbox = {}
  /\ pg = [k \in Keys |-> "none"]
  /\ asks = [k \in Keys |-> 0]
  /\ pmsPaid = {}
  /\ retries = {}
  /\ receipts = {}
  /\ refusals = {}
  /\ pc = [r \in Requests |-> "idle"]
  /\ job = [r \in Requests |-> NoKey]
  /\ mode = [r \in Requests |-> "none"]
  /\ npc = [w \in Notifiers |-> "idle"]
  /\ njob = [w \in Notifiers |-> NoKey]

\* The request is at `from` and goes on to `to`.
Goto(r, from, to) ==
  /\ pc[r] = from
  /\ pc' = [pc EXCEPT ![r] = to]
  /\ UNCHANGED <<job, mode>>

\* The request is over.
Leave(r) ==
  /\ pc' = [pc EXCEPT ![r] = "idle"]
  /\ job' = [job EXCEPT ![r] = NoKey]
  /\ mode' = [mode EXCEPT ![r] = "none"]

-----------------------------------------------------------------------------
(* The environment: parked time, the quote's TTL, the PG.                  *)

FeeGrows(s) ==
  /\ \E a \in Amounts : a > fee[s] /\ fee' = [fee EXCEPT ![s] = a]
  /\ UNCHANGED <<quotes, session, tx, outbox, pg, asks, pmsPaid, retries,
                 receipts, refusals, reqVars, notVars>>

QuoteExpires(k) ==
  /\ k \in quotes
  /\ quotes' = quotes \ {k}
  /\ UNCHANGED <<fee, session, tx, outbox, pg, asks, pmsPaid, retries,
                 receipts, refusals, reqVars, notVars>>

\* The PG settles a charge it was asked for, in its own time.
PgSettles(k) ==
  /\ pg[k] = "asked"
  /\ \E verdict \in {"charged", "declined"} : pg' = [pg EXCEPT ![k] = verdict]
  /\ UNCHANGED <<fee, quotes, session, tx, outbox, asks, pmsPaid, retries,
                 receipts, refusals, reqVars, notVars>>

-----------------------------------------------------------------------------
(* GET /parking/fee.  A cached quote is returned without any effect, so    *)
(* only the path that fetches a new one is modelled.                       *)

FeeBegin(r, s) ==
  /\ pc[r] = "idle"
  /\ \A k \in quotes : SessionOf(k) # s
  /\ session[s] = "active"
  /\ pc' = [pc EXCEPT ![r] = "fee_call"]
  /\ job' = [job EXCEPT ![r] = <<s, fee[s]>>]
  /\ UNCHANGED <<fee, quotes, session, tx, outbox, pg, asks, pmsPaid, retries,
                 receipts, refusals, mode, notVars>>

\* The PMS answers with its current fee, or an error once it holds the
\* session paid (its fee query wants an active session).
FeeCall(r) ==
  LET s == SessionOf(job[r]) IN
  /\ pc[r] = "fee_call"
  /\ \/ /\ \A k \in pmsPaid : SessionOf(k) # s
        /\ pc' = [pc EXCEPT ![r] = "fee_save"]
        /\ job' = [job EXCEPT ![r] = <<s, fee[s]>>]
        /\ UNCHANGED mode
     \/ /\ (\E k \in pmsPaid : SessionOf(k) = s) \/ "pms" \in faults
        /\ Leave(r)
  /\ UNCHANGED <<fee, quotes, session, tx, outbox, pg, asks, pmsPaid, retries,
                 receipts, refusals, notVars>>

FeeSave(r) ==
  /\ pc[r] = "fee_save"
  /\ quotes' = {k \in quotes : SessionOf(k) # SessionOf(job[r])} \cup {job[r]}
  /\ Leave(r)
  /\ UNCHANGED <<fee, session, tx, outbox, pg, asks, pmsPaid, retries,
                 receipts, refusals, notVars>>

-----------------------------------------------------------------------------
(* POST /payment.                                                          *)

\* The quote must be there and match.  The session row is then read, but its
\* status is not looked at.
PayBegin(r, k) ==
  /\ pc[r] = "idle"
  /\ k \in quotes
  /\ pc' = [pc EXCEPT ![r] = "lookup"]
  /\ job' = [job EXCEPT ![r] = k]
  /\ UNCHANGED <<fee, quotes, session, tx, outbox, pg, asks, pmsPaid, retries,
                 receipts, refusals, mode, notVars>>

\* An existing transaction decides the reply; a successful one is reported to
\* the PMS once more first.
LookupFound(r) ==
  LET k == job[r] IN
  /\ pc[r] = "lookup"
  /\ tx[k] # "none"
  /\ \/ /\ tx[k] = "success"
        /\ pc' = [pc EXCEPT ![r] = "notify"]
        /\ mode' = [mode EXCEPT ![r] = "again"]
        /\ UNCHANGED <<job, refusals>>
     \/ /\ tx[k] # "success"
        /\ refusals' = IF tx[k] = "failed" THEN refusals \cup {k} ELSE refusals
        /\ Leave(r)
  /\ UNCHANGED <<fee, quotes, session, tx, outbox, pg, asks, pmsPaid, retries,
                 receipts, notVars>>

\* No transaction yet.  Without an active billing key a paid request ends here.
LookupMissed(r) ==
  LET k == job[r] IN
  /\ pc[r] = "lookup"
  /\ tx[k] = "none"
  /\ \/ /\ pc' = [pc EXCEPT ![r] = "create"]
        /\ mode' = [mode EXCEPT ![r] = IF k \in Free THEN "free" ELSE "paid"]
        /\ UNCHANGED job
     \/ k \notin Free /\ Leave(r)
  /\ UNCHANGED <<fee, quotes, session, tx, outbox, pg, asks, pmsPaid, retries,
                 receipts, refusals, notVars>>

\* Mutant: the column without its constraint.
UnusedOrNot(k) == tx[k] \in {"none", "pending", "success", "failed"}

\* transactions.idempotency_key is UNIQUE.
Unused(k) == tx[k] = "none"

\* A second insert of the key raises, outside any handler.
CreatePending(r) ==
  LET k == job[r] IN
  /\ pc[r] = "create"
  /\ \/ /\ Unused(k)
        /\ tx' = [tx EXCEPT ![k] = "pending"]
        /\ pc' = [pc EXCEPT ![r] = IF mode[r] = "free" THEN "mark" ELSE "charge"]
        /\ UNCHANGED <<job, mode>>
     \/ /\ ~Unused(k) \/ "db" \in faults
        /\ Leave(r)
        /\ UNCHANGED tx
  /\ UNCHANGED <<fee, quotes, session, outbox, pg, asks, pmsPaid, retries,
                 receipts, refusals, notVars>>

AskPg(r) ==
  LET k == job[r] IN
  /\ Goto(r, "charge", "waiting")
  /\ asks' = [asks EXCEPT ![k] = @ + 1]
  /\ pg' = [pg EXCEPT ![k] = IF @ = "none" THEN "asked" ELSE @]
  /\ UNCHANGED <<fee, quotes, session, tx, outbox, pmsPaid, retries,
                 receipts, refusals, notVars>>

\* Mutant: pg_result.get("success", True).
ApprovedByDefault(k) == pg[k] \in {"charged", "declined"}

Approved(k) == pg[k] = "charged"

\* The PG's verdict arrives, or the call times out or answers unusably.
PgReplies(r) ==
  LET k == job[r] IN
  /\ pc[r] = "waiting"
  /\ \/ Approved(k) /\ Goto(r, "waiting", "mark")
     \/ pg[k] = "declined" /\ Goto(r, "waiting", "decline")
     \/ "pg" \in faults /\ Goto(r, "waiting", "except")
  /\ UNCHANGED <<fee, quotes, session, tx, outbox, pg, asks, pmsPaid, retries,
                 receipts, refusals, notVars>>

SetFailed(k) == tx' = [tx EXCEPT ![k] = "failed"]

\* update_transaction_status(failed), and the reply that says so; both for a
\* declined charge and for any exception after the pending row was created.
MarkFailed(r) ==
  LET k == job[r] IN
  /\ pc[r] \in {"decline", "except"}
  /\ SetFailed(k)
  /\ refusals' = refusals \cup {k}
  /\ Leave(r)
  /\ UNCHANGED <<fee, quotes, session, outbox, pg, asks, pmsPaid, retries,
                 receipts, notVars>>

\* Mutant: a success committed without its notification.
EnqueuesNothing(k) == k \in Keys /\ UNCHANGED outbox

\* The outbox row added in the commit of the success.
Enqueue(k) == outbox' = outbox \cup {k}

\* mark_success_and_enqueue_payment_notification: one commit.
MarkSuccess(r) ==
  LET k == job[r] IN
  /\ Goto(r, "mark", "complete")
  /\ tx' = [tx EXCEPT ![k] = "success"]
  /\ Enqueue(k)
  /\ UNCHANGED <<fee, quotes, session, pg, asks, pmsPaid, retries,
                 receipts, refusals, notVars>>

\* Mutant: the word of the PMS for a paid session.
MarkPaid(s) == session' = [session EXCEPT ![s] = "paid"]

Complete(s) == session' = [session EXCEPT ![s] = "completed"]

CompleteSession(r) ==
  /\ Goto(r, "complete", "notify")
  /\ Complete(SessionOf(job[r]))
  /\ UNCHANGED <<fee, quotes, tx, outbox, pg, asks, pmsPaid, retries,
                 receipts, refusals, notVars>>

\* Mutant: a failed notice left to the catch-all.
NoticeRaises(r) == Goto(r, "notify", "except")

\* A failed notice is caught where it is sent, and never reaches the catch-all.
NoticeFailed(r) == Goto(r, "notify", "record")

\* POST /payment/complete to the PMS, which may record the payment even when
\* the call is seen to fail.
NotifyPms(r) ==
  LET k == job[r] IN
  /\ \/ Goto(r, "notify", "clear") /\ pmsPaid' = pmsPaid \cup {k}
     \/ /\ "pms" \in faults
        /\ NoticeFailed(r)
        /\ pmsPaid' \in {pmsPaid, pmsPaid \cup {k}}
  /\ UNCHANGED <<fee, quotes, session, tx, outbox, pg, asks, retries,
                 receipts, refusals, notVars>>

\* Mutant: a failed notice that is only logged.
RememberNot(k) == k \in Keys /\ UNCHANGED retries

Remember(k) == retries' = retries \cup {k}
Forget(k)   == retries' = retries \ {k}

\* The retry record is written after a failed notice, cleared after a
\* successful one, and the caller is told of the success.
RecordOrClear(r) ==
  LET k == job[r] IN
  /\ \/ pc[r] = "record" /\ Remember(k)
     \/ pc[r] = "clear" /\ Forget(k)
  /\ receipts' = receipts \cup {k}
  /\ Leave(r)
  /\ UNCHANGED <<fee, quotes, session, tx, outbox, pg, asks, pmsPaid,
                 refusals, notVars>>

\* A database or Redis access raises.  While charging, the catch-all turns
\* that into "except", even after the success was committed; elsewhere the
\* request ends in a 500.
Raise(r) ==
  /\ \/ "db" \in faults /\ pc[r] \in {"decline", "mark", "complete", "except"}
     \/ "redis" \in faults /\ pc[r] \in {"record", "clear"}
  /\ IF mode[r] = "paid" /\ pc[r] # "except"
     THEN pc' = [pc EXCEPT ![r] = "except"] /\ UNCHANGED <<job, mode>>
     ELSE Leave(r)
  /\ UNCHANGED <<fee, quotes, session, tx, outbox, pg, asks, pmsPaid, retries,
                 receipts, refusals, notVars>>

\* The process dies between two steps of the request.
Crash(r) ==
  /\ "crash" \in faults
  /\ pc[r] # "idle"
  /\ Leave(r)
  /\ UNCHANGED <<fee, quotes, session, tx, outbox, pg, asks, pmsPaid, retries,
                 receipts, refusals, notVars>>

-----------------------------------------------------------------------------
(* NotifyRetryWorker: read a record, repeat the notice, delete the record. *)

RetryBegin(w, k) ==
  /\ npc[w] = "idle"
  /\ k \in retries
  /\ npc' = [npc EXCEPT ![w] = "send"]
  /\ njob' = [njob EXCEPT ![w] = k]
  /\ UNCHANGED <<fee, quotes, session, tx, outbox, pg, asks, pmsPaid, retries,
                 receipts, refusals, reqVars>>

RetryAccepted(w) ==
  /\ npc[w] = "send"
  /\ npc' = [npc EXCEPT ![w] = "delete"]
  /\ pmsPaid' = pmsPaid \cup {njob[w]}
  /\ UNCHANGED <<fee, quotes, session, tx, outbox, pg, asks, retries,
                 receipts, refusals, reqVars, njob>>

\* Mutant: the record deleted whatever became of the notice.
RetryRefusedForgets(w) ==
  /\ "pms" \in faults
  /\ npc[w] = "send"
  /\ npc' = [npc EXCEPT ![w] = "idle"]
  /\ njob' = [njob EXCEPT ![w] = NoKey]
  /\ Forget(njob[w])
  /\ UNCHANGED <<fee, quotes, session, tx, outbox, pg, asks, pmsPaid,
                 receipts, refusals, reqVars>>

\* The record is kept for the next scan.
RetryRefused(w) ==
  /\ "pms" \in faults
  /\ npc[w] = "send"
  /\ npc' = [npc EXCEPT ![w] = "idle"]
  /\ njob' = [njob EXCEPT ![w] = NoKey]
  /\ pmsPaid' \in {pmsPaid, pmsPaid \cup {njob[w]}}
  /\ UNCHANGED <<fee, quotes, session, tx, outbox, pg, asks, retries,
                 receipts, refusals, reqVars>>

\* The delete is by key, whatever the record says by now.
RetryDelete(w) ==
  /\ npc[w] = "delete"
  /\ Forget(njob[w])
  /\ npc' = [npc EXCEPT ![w] = "idle"]
  /\ njob' = [njob EXCEPT ![w] = NoKey]
  /\ UNCHANGED <<fee, quotes, session, tx, outbox, pg, asks, pmsPaid,
                 receipts, refusals, reqVars>>

\* The record outlives seven days.
RetryExpires(k) ==
  /\ "ttl" \in faults
  /\ k \in retries
  /\ Forget(k)
  /\ UNCHANGED <<fee, quotes, session, tx, outbox, pg, asks, pmsPaid,
                 receipts, refusals, reqVars, notVars>>

-----------------------------------------------------------------------------
\* What a request does once it has begun, failures aside.
Proceed(r) ==
  \/ FeeCall(r) \/ FeeSave(r)
  \/ LookupFound(r) \/ LookupMissed(r) \/ CreatePending(r)
  \/ AskPg(r) \/ PgReplies(r)
  \/ MarkFailed(r) \/ MarkSuccess(r) \/ CompleteSession(r)
  \/ NotifyPms(r) \/ RecordOrClear(r)

Repeat(w) == RetryAccepted(w) \/ RetryRefused(w) \/ RetryDelete(w)

Next ==
  /\ \/ \E s \in Sessions : FeeGrows(s)
     \/ \E k \in Keys : QuoteExpires(k) \/ PgSettles(k) \/ RetryExpires(k)
     \/ \E r \in Requests :
          \/ \E s \in Sessions : FeeBegin(r, s)
          \/ \E k \in Keys : PayBegin(r, k)
          \/ Proceed(r) \/ Raise(r) \/ Crash(r)
     \/ \E w \in Notifiers :
          \/ \E k \in Keys : RetryBegin(w, k)
          \/ Repeat(w)
  /\ UNCHANGED faults

Spec == Init /\ [][Next]_vars

(* Fairness: a handler that runs goes on, the PG settles what it was asked *)
(* for, the worker scans every retry record again and again and finishes   *)
(* what it began, and a PMS asked over and over for a key accepts it once. *)
FairSpec ==
  /\ Spec
  /\ \A r \in Requests : WF_payVars(Proceed(r))
  /\ \A k \in Keys : WF_payVars(PgSettles(k))
  /\ \A w \in Notifiers :
       /\ WF_payVars(Repeat(w))
       /\ \A k \in Keys :
            /\ SF_payVars(RetryBegin(w, k))
            /\ SF_payVars(njob[w] = k /\ RetryAccepted(w))

-----------------------------------------------------------------------------
(* Safety whatever fails.                                                  *)

Charged == {k \in Keys : pg[k] = "charged"}
Paid    == {k \in Keys : tx[k] = "success"}
Closed  == {s \in Sessions : session[s] = "completed"}

\* However many requests carry the same quote and whatever fails between their
\* steps, the PG is asked at most once to charge an idempotency key.
AskedOnce == \A k \in Keys : asks[k] <= 1

\* What the payment leaves behind agrees: a caller is told of a success, the PMS
\* is told of a payment or a retry of the notice is kept only for a key whose
\* notification went to the outbox in the commit of its success, and nothing
\* goes there before the money was taken or unless none was due.
NothingUnpaid ==
  /\ Paid \cup receipts \cup pmsPaid \cup retries \subseteq outbox
  /\ outbox \subseteq Charged \cup Free

Ledger == INSTANCE PaymentLedger WITH
            taken <- Charged, confirmed <- outbox, closed <- Closed

\* Requests, repeats, crashes and failures implement the abstract ledger: money
\* is taken once per key, confirmed after it was taken, a parking session is
\* completed only by a confirmed key, and none of these is ever taken back.
KeepsLedger == Ledger!Spec

-----------------------------------------------------------------------------
(* Safety under the failures the handler means to survive.                 *)

\* While processes and storage last, a payment the PMS has not recorded is in
\* the retry store or in the hands of a request that will put it there.  The
\* worker's delete never loses one.
PmsToldOrRemembered ==
  faults \subseteq {"pg", "pms"} =>
    \A k \in outbox \ (pmsPaid \cup retries) :
      \E r \in Requests : job[r] = k /\ pc[r] \in {"complete", "notify", "record"}

\* While the PG answers and storage works, "failed" is the truth: no caller is
\* told so of a key whose money was taken, nor of one told "success" before.
RefusedMeansUnpaid ==
  faults \subseteq {"crash", "ttl", "pms"} =>
    \A k \in refusals : tx[k] = "failed" /\ k \notin Charged \cup receipts

\* A committed success stays one while storage works: neither a notice to the
\* PMS that fails, nor a crash, nor another request makes it a failure.
SuccessStands ==
  [][faults \cap {"db", "redis"} = {} => Paid \subseteq Paid']_vars

-----------------------------------------------------------------------------
(* Claims of the documentation that the code does not keep.                *)

\* docs/use-cases/05-fee-payment-exit.md: when the PMS fails, the success of the
\* payment is preserved.
SuccessIsFinal == [][Paid \subseteq Paid']_vars

\* docs/use-cases/05-fee-payment-exit.md: a payment needs an active session.  Only
\* those no transaction exists for are meant, a repeat comes after the first.
PaysOnlyActive ==
  [][\A r \in Requests :
       pc[r] = "idle" /\ pc'[r] = "lookup" /\ tx[job'[r]] = "none"
         => session[SessionOf(job'[r])] = "active"]_vars

-----------------------------------------------------------------------------
(* Liveness.                                                               *)

\* With a PMS that fails and comes back, every payment is told to it, if nothing
\* dies and no record is lost.
PmsEventuallyTold ==
  faults \subseteq {"pg", "pms"} => \A k \in Keys : (k \in outbox) ~> (k \in pmsPaid)
=============================================================================
