------------------------ MODULE ProcessPaymentProofs ------------------------
(***************************************************************************)
(* Proofs about ProcessPayment for any sets of sessions, amounts, requests *)
(* and notifiers, and any set of faults: the types, that a key is charged  *)
(* at most once, that nothing is confirmed unpaid, that the payment        *)
(* implements PaymentLedger, and, under the faults the handlers mean to    *)
(* survive, that no notice is lost, no refusal is false and no success is  *)
(* taken back.                                                             *)
(***************************************************************************)
EXTENDS ProcessPayment, TLAPS

\* A request about to ask the PG holds a key with a row, which nobody asked for
\* yet and under which something is due.
ChargeIsFirst ==
  \A r \in Requests : pc[r] = "charge" =>
    tx[job[r]] # "none" /\ asks[job[r]] = 0 /\ job[r] \notin Free

\* No two requests are about to ask for the same key.
OneCharger ==
  \A r, q \in Requests :
    pc[r] = "charge" /\ pc[q] = "charge" /\ job[r] = job[q] => r = q

\* The PG is asked only after the pending row is there, and never for nothing.
AskedHasRow == \A k \in Keys : tx[k] = "none" => asks[k] = 0
FreeIsNeverAsked == \A k \in Free : pg[k] = "none"

\* The branch is the one the amount calls for.
BranchByAmount ==
  \A r \in Requests : pc[r] = "create" => (mode[r] = "free" <=> job[r] \in Free)

\* What a request or a notifier has in hand is covered by what was recorded.
MarkIsCovered ==
  \A r \in Requests : pc[r] = "mark" => job[r] \in Charged \cup Free

NoticeIsCovered ==
  /\ \A r \in Requests :
       pc[r] \in {"complete", "notify", "record", "clear"} => job[r] \in outbox
  /\ \A w \in Notifiers : npc[w] # "idle" => njob[w] \in outbox

IInv ==
  /\ TypeOK
  /\ AskedOnce
  /\ ChargeIsFirst
  /\ OneCharger
  /\ AskedHasRow
  /\ FreeIsNeverAsked
  /\ BranchByAmount
  /\ MarkIsCovered
  /\ NoticeIsCovered
  /\ NothingUnpaid

-----------------------------------------------------------------------------
\* Keys are pairs of a session and an amount.
LEMMA KeyParts == \A k \in Keys : SessionOf(k) \in Sessions /\ Amount(k) \in Amounts
BY DEF Keys, SessionOf, Amount

\* The initial states satisfy the invariant.
LEMMA InitIInv == Init => IInv
<1> SUFFICES ASSUME Init PROVE IInv
  OBVIOUS
<1>1. TypeOK
  BY DEF Init, TypeOK, RequestPcs
<1>2. AskedOnce /\ ChargeIsFirst /\ OneCharger /\ AskedHasRow /\ FreeIsNeverAsked
  BY DEF Init, AskedOnce, ChargeIsFirst, OneCharger, AskedHasRow, FreeIsNeverAsked, Free
<1>3. BranchByAmount /\ MarkIsCovered /\ NoticeIsCovered
  BY DEF Init, BranchByAmount, MarkIsCovered, NoticeIsCovered
<1>4. NothingUnpaid
  BY DEF Init, NothingUnpaid, Paid
<1> QED
  BY <1>1, <1>2, <1>3, <1>4 DEF IInv

-----------------------------------------------------------------------------
\* Every step keeps the types.
LEMMA TypeStep ==
  ASSUME TypeOK, [Next]_vars
  PROVE  TypeOK'
<1>0. faults' = faults
  BY DEF Next, vars
<1> USE <1>0, KeyParts DEF TypeOK, RequestPcs, reqVars, notVars, Goto, Leave
<1>1. ASSUME NEW s \in Sessions, FeeGrows(s) PROVE TypeOK'
  BY <1>1 DEF FeeGrows
<1>2. ASSUME NEW k \in Keys, QuoteExpires(k) \/ PgSettles(k) \/ RetryExpires(k)
      PROVE  TypeOK'
  BY <1>2 DEF QuoteExpires, PgSettles, RetryExpires, Forget
<1>3. ASSUME NEW r \in Requests, NEW s \in Sessions, FeeBegin(r, s) PROVE TypeOK'
  BY <1>3 DEF FeeBegin, Keys
<1>4. ASSUME NEW r \in Requests, NEW k \in Keys, PayBegin(r, k) PROVE TypeOK'
  BY <1>4 DEF PayBegin
<1>5. ASSUME NEW r \in Requests, FeeCall(r) PROVE TypeOK'
  <2>1. SessionOf(job[r]) \in Sessions
    BY <1>5 DEF FeeCall
  <2>2. <<SessionOf(job[r]), fee[SessionOf(job[r])]>> \in Keys
    BY <2>1 DEF Keys
  <2> QED
    BY <1>5, <2>2 DEF FeeCall
<1>6. ASSUME NEW r \in Requests, FeeSave(r) PROVE TypeOK'
  BY <1>6 DEF FeeSave
<1>7. ASSUME NEW r \in Requests, LookupFound(r) PROVE TypeOK'
  BY <1>7 DEF LookupFound
<1>8. ASSUME NEW r \in Requests, LookupMissed(r) PROVE TypeOK'
  BY <1>8 DEF LookupMissed
<1>9. ASSUME NEW r \in Requests, CreatePending(r) PROVE TypeOK'
  BY <1>9 DEF CreatePending
<1>10. ASSUME NEW r \in Requests, AskPg(r) PROVE TypeOK'
  BY <1>10 DEF AskPg
<1>11. ASSUME NEW r \in Requests, PgReplies(r) PROVE TypeOK'
  BY <1>11 DEF PgReplies
<1>12. ASSUME NEW r \in Requests, MarkFailed(r) PROVE TypeOK'
  BY <1>12 DEF MarkFailed, SetFailed
<1>13. ASSUME NEW r \in Requests, MarkSuccess(r) PROVE TypeOK'
  BY <1>13 DEF MarkSuccess, Enqueue
<1>14. ASSUME NEW r \in Requests, CompleteSession(r) PROVE TypeOK'
  BY <1>14 DEF CompleteSession, Complete
<1>15. ASSUME NEW r \in Requests, NotifyPms(r) PROVE TypeOK'
  BY <1>15 DEF NotifyPms, NoticeFailed
<1>16. ASSUME NEW r \in Requests, RecordOrClear(r) PROVE TypeOK'
  BY <1>16 DEF RecordOrClear, Remember, Forget
<1>17. ASSUME NEW r \in Requests, Raise(r) \/ Crash(r) PROVE TypeOK'
  BY <1>17 DEF Raise, Crash
<1>18. ASSUME NEW w \in Notifiers, NEW k \in Keys, RetryBegin(w, k) PROVE TypeOK'
  BY <1>18 DEF RetryBegin
<1>19. ASSUME NEW w \in Notifiers, Repeat(w) PROVE TypeOK'
  BY <1>19 DEF Repeat, RetryAccepted, RetryRefused, RetryDelete, Forget
<1>20. CASE UNCHANGED vars
  BY <1>20 DEF vars, payVars
<1> QED
  BY <1>1, <1>2, <1>3, <1>4, <1>5, <1>6, <1>7, <1>8, <1>9, <1>10, <1>11, <1>12,
     <1>13, <1>14, <1>15, <1>16, <1>17, <1>18, <1>19, <1>20 DEF Next, Proceed

-----------------------------------------------------------------------------
\* The steps of the environment and of the fee query keep the invariant.
LEMMA QuietStep ==
  ASSUME IInv, TypeOK',
         \/ \E s \in Sessions : FeeGrows(s)
         \/ \E k \in Keys : QuoteExpires(k) \/ RetryExpires(k)
         \/ \E r \in Requests :
              \/ \E s \in Sessions : FeeBegin(r, s)
              \/ \E k \in Keys : PayBegin(r, k)
              \/ FeeCall(r) \/ FeeSave(r) \/ Crash(r) \/ Raise(r)
         \/ UNCHANGED vars
  PROVE  IInv'
<1> USE DEF IInv, TypeOK, reqVars, notVars, Leave
<1>1. /\ UNCHANGED <<session, tx, outbox, pg, asks, pmsPaid, receipts, npc, njob>>
      /\ retries' \subseteq retries
  BY DEF FeeGrows, QuoteExpires, RetryExpires, Forget, FeeBegin, PayBegin, FeeCall,
         FeeSave, Crash, Raise, vars, payVars
<1>2. \A r \in Requests :
        \/ UNCHANGED <<pc[r], job[r], mode[r]>>
        \/ pc'[r] \in {"idle", "fee_call", "fee_save", "lookup", "except"}
  BY DEF FeeGrows, QuoteExpires, RetryExpires, FeeBegin, PayBegin, FeeCall,
         FeeSave, Crash, Raise, vars, payVars
<1>3. AskedOnce' /\ AskedHasRow' /\ FreeIsNeverAsked' /\ NothingUnpaid'
  BY <1>1 DEF AskedOnce, AskedHasRow, FreeIsNeverAsked, NothingUnpaid, Paid, Charged, Free
<1>4. ChargeIsFirst' /\ OneCharger'
  BY <1>1, <1>2 DEF ChargeIsFirst, OneCharger
<1>5. BranchByAmount' /\ MarkIsCovered' /\ NoticeIsCovered'
  BY <1>1, <1>2 DEF BranchByAmount, MarkIsCovered, NoticeIsCovered, Charged
<1> QED
  BY <1>3, <1>4, <1>5

\* The steps up to the verdict of the PG keep the invariant.
LEMMA ChargeStep ==
  ASSUME IInv, TypeOK', NEW r \in Requests,
         \/ LookupFound(r) \/ LookupMissed(r) \/ CreatePending(r)
         \/ AskPg(r) \/ PgReplies(r)
  PROVE  IInv'
<1> USE DEF IInv, TypeOK, reqVars, notVars, Leave, Goto
<1>1. CASE LookupFound(r) \/ LookupMissed(r)
  <2>1. UNCHANGED <<session, tx, outbox, pg, asks, pmsPaid, receipts, retries, npc, njob>>
    BY <1>1 DEF LookupFound, LookupMissed
  <2>2. AskedOnce' /\ AskedHasRow' /\ FreeIsNeverAsked' /\ NothingUnpaid'
    BY <2>1 DEF AskedOnce, AskedHasRow, FreeIsNeverAsked, NothingUnpaid, Paid, Charged, Free
  <2>3. ChargeIsFirst' /\ OneCharger' /\ MarkIsCovered'
    BY <1>1, <2>1 DEF LookupFound, LookupMissed, ChargeIsFirst, OneCharger, MarkIsCovered, Charged
  <2>4. BranchByAmount'
    BY <1>1 DEF LookupFound, LookupMissed, BranchByAmount
  <2>5. NoticeIsCovered'
    BY <1>1, <2>1 DEF LookupFound, LookupMissed, NoticeIsCovered, NothingUnpaid, Paid
  <2> QED
    BY <2>2, <2>3, <2>4, <2>5
<1>2. CASE CreatePending(r)
  <2>1. UNCHANGED <<session, outbox, pg, asks, pmsPaid, receipts, retries, npc, njob>>
    BY <1>2 DEF CreatePending
  <2>2. AskedOnce' /\ AskedHasRow' /\ FreeIsNeverAsked' /\ NothingUnpaid'
    BY <1>2, <2>1 DEF CreatePending, AskedOnce, AskedHasRow, FreeIsNeverAsked,
                      NothingUnpaid, Paid, Charged, Free
  <2>3. ChargeIsFirst' /\ OneCharger'
    BY <1>2, <2>1 DEF CreatePending, Unused, ChargeIsFirst, OneCharger, AskedHasRow,
                      BranchByAmount
  <2>4. BranchByAmount' /\ MarkIsCovered' /\ NoticeIsCovered'
    BY <1>2, <2>1 DEF CreatePending, BranchByAmount, MarkIsCovered, NoticeIsCovered, Charged
  <2> QED
    BY <2>2, <2>3, <2>4
<1>3. CASE AskPg(r)
  <2>1. UNCHANGED <<session, tx, outbox, pmsPaid, receipts, retries, npc, njob>>
    BY <1>3 DEF AskPg
  <2>2. Charged' = Charged
    BY <1>3 DEF AskPg, Charged
  <2>3. AskedOnce' /\ AskedHasRow' /\ FreeIsNeverAsked'
    BY <1>3 DEF AskPg, AskedOnce, AskedHasRow, FreeIsNeverAsked, ChargeIsFirst, Free
  <2>4. ChargeIsFirst' /\ OneCharger'
    BY <1>3 DEF AskPg, ChargeIsFirst, OneCharger
  <2>5. BranchByAmount' /\ MarkIsCovered' /\ NoticeIsCovered' /\ NothingUnpaid'
    BY <1>3, <2>1, <2>2 DEF AskPg, BranchByAmount, MarkIsCovered, NoticeIsCovered,
                            NothingUnpaid, Paid
  <2> QED
    BY <2>3, <2>4, <2>5
<1>4. CASE PgReplies(r)
  <2>1. UNCHANGED <<session, tx, outbox, pg, asks, pmsPaid, receipts, retries, npc, njob>>
    BY <1>4 DEF PgReplies
  <2>2. AskedOnce' /\ AskedHasRow' /\ FreeIsNeverAsked' /\ NothingUnpaid'
    BY <2>1 DEF AskedOnce, AskedHasRow, FreeIsNeverAsked, NothingUnpaid, Paid, Charged, Free
  <2>3. ChargeIsFirst' /\ OneCharger' /\ BranchByAmount' /\ NoticeIsCovered'
    BY <1>4, <2>1 DEF PgReplies, ChargeIsFirst, OneCharger, BranchByAmount, NoticeIsCovered
  <2>4. MarkIsCovered'
    BY <1>4, <2>1 DEF PgReplies, Approved, MarkIsCovered, Charged
  <2> QED
    BY <2>2, <2>3, <2>4
<1> QED
  BY <1>1, <1>2, <1>3, <1>4

\* The steps that record the outcome, and the PG's own, keep the invariant.
LEMMA OutcomeStep ==
  ASSUME IInv, TypeOK',
         \/ \E k \in Keys : PgSettles(k)
         \/ \E r \in Requests :
              \/ MarkFailed(r) \/ MarkSuccess(r) \/ CompleteSession(r)
              \/ NotifyPms(r) \/ RecordOrClear(r)
  PROVE  IInv'
<1> USE DEF IInv, TypeOK, reqVars, notVars, Leave, Goto
<1>1. /\ UNCHANGED <<asks, npc, njob>>
      /\ outbox \subseteq outbox'
      /\ Charged \subseteq Charged'
  BY DEF PgSettles, MarkFailed, MarkSuccess, Enqueue, CompleteSession, NotifyPms,
         RecordOrClear, Charged, SetFailed
<1>2. \A k \in Keys : tx[k] # "none" => tx'[k] # "none"
  BY DEF PgSettles, MarkFailed, MarkSuccess, CompleteSession, NotifyPms,
         RecordOrClear, SetFailed
<1>3. \A r \in Requests :
        \/ UNCHANGED <<pc[r], job[r], mode[r]>>
        \/ pc'[r] \in {"idle", "complete", "notify", "record", "clear"}
  BY DEF PgSettles, MarkFailed, MarkSuccess, CompleteSession, NotifyPms,
         NoticeFailed, RecordOrClear
<1>4. AskedOnce' /\ AskedHasRow' /\ ChargeIsFirst' /\ OneCharger'
  BY <1>1, <1>2, <1>3, SMTT(30) DEF AskedOnce, AskedHasRow, ChargeIsFirst, OneCharger
<1>5. FreeIsNeverAsked'
  BY DEF PgSettles, MarkFailed, MarkSuccess, CompleteSession, NotifyPms,
         RecordOrClear, FreeIsNeverAsked, Free
<1>6. BranchByAmount' /\ MarkIsCovered'
  BY <1>1, <1>3 DEF BranchByAmount, MarkIsCovered
<1>7. NoticeIsCovered'
  BY <1>1 DEF PgSettles, MarkFailed, MarkSuccess, Enqueue, CompleteSession, NotifyPms,
         NoticeFailed, RecordOrClear, NoticeIsCovered
<1>8. NothingUnpaid'
  <2>1. Paid' \cup receipts' \cup pmsPaid' \cup retries' \subseteq outbox'
    BY DEF PgSettles, MarkFailed, MarkSuccess, Enqueue, CompleteSession, NotifyPms,
           NoticeFailed, RecordOrClear, Remember, Forget, SetFailed,
           NoticeIsCovered, NothingUnpaid, Paid
  <2>2. outbox' \subseteq Charged' \cup Free
    BY <1>1 DEF PgSettles, MarkFailed, MarkSuccess, Enqueue, CompleteSession, NotifyPms,
           RecordOrClear, MarkIsCovered, NothingUnpaid
  <2> QED
    BY <2>1, <2>2 DEF NothingUnpaid
<1> QED
  BY <1>4, <1>5, <1>6, <1>7, <1>8

\* The steps of the worker keep the invariant.
LEMMA WorkerStep ==
  ASSUME IInv, TypeOK', NEW w \in Notifiers,
         (\E k \in Keys : RetryBegin(w, k)) \/ Repeat(w)
  PROVE  IInv'
<1> USE DEF IInv, TypeOK, reqVars, notVars
<1>1. UNCHANGED <<session, tx, outbox, pg, asks, receipts, pc, job, mode>>
  BY DEF RetryBegin, Repeat, RetryAccepted, RetryRefused, RetryDelete
<1>2. /\ AskedOnce' /\ AskedHasRow' /\ ChargeIsFirst' /\ OneCharger'
      /\ FreeIsNeverAsked' /\ BranchByAmount' /\ MarkIsCovered'
  BY <1>1 DEF AskedOnce, AskedHasRow, ChargeIsFirst, OneCharger, FreeIsNeverAsked,
              BranchByAmount, MarkIsCovered, Charged
<1>3. NoticeIsCovered'
  BY <1>1 DEF RetryBegin, Repeat, RetryAccepted, RetryRefused, RetryDelete,
              NoticeIsCovered, NothingUnpaid
<1>4. NothingUnpaid'
  BY <1>1 DEF RetryBegin, Repeat, RetryAccepted, RetryRefused, RetryDelete, Forget,
              NoticeIsCovered, NothingUnpaid, Paid, Charged
<1> QED
  BY <1>2, <1>3, <1>4

\* IInv is inductive, hence always true: the strengthened invariant of the
\* whole payment protocol.
THEOREM PaymentInvariant == Spec => []IInv
<1>1. IInv /\ [Next]_vars => IInv'
  <2> SUFFICES ASSUME IInv, [Next]_vars PROVE IInv'
    OBVIOUS
  <2>1. TypeOK'
    BY TypeStep DEF IInv
  <2> QED
    BY <2>1, QuietStep, ChargeStep, OutcomeStep, WorkerStep DEF Next, Proceed
<1> QED
  BY <1>1, InitIInv, PTL DEF Spec

-----------------------------------------------------------------------------
\* Every variable has its type.
THEOREM TypeCorrect == Spec => []TypeOK
BY PaymentInvariant, PTL DEF IInv

\* However many requests, crashes and failures: the PG is asked at most once to
\* charge an idempotency key.
THEOREM SingleCharge == Spec => []AskedOnce
BY PaymentInvariant, PTL DEF IInv

\* Receipts, PMS notices and retry records exist only for confirmed keys, and
\* keys are confirmed only once the money was taken.
THEOREM NoFalseConfirmation == Spec => []NothingUnpaid
BY PaymentInvariant, PTL DEF IInv

-----------------------------------------------------------------------------
\* The ledger's view of a state: what was charged, confirmed and completed.
LedgerVars == <<Charged, outbox, Closed>>

\* Every step of the payment is a step of the ledger or invisible to it.
LEMMA LedgerStep ==
  ASSUME IInv, TypeOK', [Next]_vars
  PROVE  [Ledger!Next]_LedgerVars
<1> USE DEF IInv, TypeOK, reqVars, notVars, LedgerVars
<1>1. ASSUME NEW k \in Keys, PgSettles(k) PROVE [Ledger!Next]_LedgerVars
  <2>1. k \notin Charged \cup Free
    BY <1>1 DEF PgSettles, Charged, Free, FreeIsNeverAsked
  <2>2. UNCHANGED <<outbox, Closed>>
    BY <1>1 DEF PgSettles, Closed
  <2>3. Charged' = Charged \/ Charged' = Charged \cup {k}
    BY <1>1 DEF PgSettles, Charged
  <2> QED
    BY <2>1, <2>2, <2>3 DEF Ledger!Next, Ledger!Take
<1>2. ASSUME NEW r \in Requests, MarkSuccess(r) PROVE [Ledger!Next]_LedgerVars
  <2>1. job[r] \in Keys /\ job[r] \in Charged \cup Free
    BY <1>2 DEF MarkSuccess, Goto, MarkIsCovered
  <2>2. UNCHANGED <<Charged, Closed>> /\ outbox' = outbox \cup {job[r]}
    BY <1>2 DEF MarkSuccess, Enqueue, Charged, Closed
  <2> QED
    BY <2>1, <2>2 DEF Ledger!Next, Ledger!Confirm
<1>3. ASSUME NEW r \in Requests, CompleteSession(r) PROVE [Ledger!Next]_LedgerVars
  <2>1. job[r] \in outbox /\ job[r] \in Keys
    BY <1>3 DEF CompleteSession, Goto, NoticeIsCovered
  <2>2. SessionOf(job[r]) \in Sessions
    BY <2>1, KeyParts
  <2>3. UNCHANGED <<Charged, outbox>>
    BY <1>3 DEF CompleteSession, Charged
  <2>4. Closed' = Closed \cup {SessionOf(job[r])}
    BY <1>3, <2>2 DEF CompleteSession, Complete, Closed
  <2> QED
    BY <2>1, <2>2, <2>3, <2>4 DEF Ledger!Next, Ledger!Close
<1>4. ASSUME NEW r \in Requests, AskPg(r) PROVE UNCHANGED LedgerVars
  BY <1>4 DEF AskPg, Charged, Closed
<1>5. ASSUME NEW r \in Requests,
             \/ \E s \in Sessions : FeeBegin(r, s)
             \/ \E k \in Keys : PayBegin(r, k)
             \/ FeeCall(r) \/ FeeSave(r) \/ LookupFound(r) \/ LookupMissed(r)
             \/ CreatePending(r) \/ PgReplies(r) \/ MarkFailed(r) \/ NotifyPms(r)
             \/ RecordOrClear(r) \/ Raise(r) \/ Crash(r)
      PROVE  UNCHANGED LedgerVars
  <2>1. UNCHANGED <<pg, outbox, session>>
    BY <1>5 DEF FeeBegin, PayBegin, FeeCall, FeeSave, LookupFound, LookupMissed,
                CreatePending, PgReplies, MarkFailed, NotifyPms, RecordOrClear,
                Raise, Crash
  <2> QED
    BY <2>1 DEF Charged, Closed
<1>6. ASSUME \/ \E s \in Sessions : FeeGrows(s)
             \/ \E k \in Keys : QuoteExpires(k) \/ RetryExpires(k)
             \/ \E w \in Notifiers : (\E k \in Keys : RetryBegin(w, k)) \/ Repeat(w)
             \/ UNCHANGED vars
      PROVE  UNCHANGED LedgerVars
  <2>1. UNCHANGED <<pg, outbox, session>>
    BY <1>6 DEF FeeGrows, QuoteExpires, RetryExpires, RetryBegin, Repeat,
                RetryAccepted, RetryRefused, RetryDelete, vars, payVars
  <2> QED
    BY <2>1 DEF Charged, Closed
<1> QED
  BY <1>1, <1>2, <1>3, <1>4, <1>5, <1>6 DEF Next, Proceed

\* The payment implements the ledger: money is taken once per key and before
\* the key is confirmed, a session is completed only by a confirmed key, and
\* none of it is taken back.
THEOREM PaymentKeepsLedger == Spec => KeepsLedger
<1>1. Init => Ledger!Init
  BY DEF Init, Ledger!Init, Charged, Closed
<1>2. IInv /\ [Next]_vars => [Ledger!Next]_LedgerVars
  BY LedgerStep, TypeStep DEF IInv
<1> QED
  BY <1>1, <1>2, PaymentInvariant, PTL DEF Spec, KeepsLedger, Ledger!Spec, LedgerVars

-----------------------------------------------------------------------------
(* What the notices to the PMS and the verdicts of the PG leave behind.    *)

\* A retry record is given up only for a payment the PMS has recorded.
ForgetsOnlyTold ==
  /\ \A r \in Requests : pc[r] = "clear" => job[r] \in pmsPaid
  /\ \A w \in Notifiers : npc[w] = "delete" => njob[w] \in pmsPaid

\* A request that created the row of its key, and is not done with it.
Creator(r) == mode[r] \in {"paid", "free"} /\ pc[r] # "create"

\* The branch of a request tells how far it is.
BranchByPlace ==
  \A r \in Requests :
    /\ pc[r] \in {"idle", "fee_call", "fee_save", "lookup"} => mode[r] = "none"
    /\ pc[r] \in {"create", "charge", "waiting", "decline", "mark", "complete", "except"}
         => mode[r] \in {"paid", "free"}

\* A key has one creator at a time, and a row as long as it has one.
OneCreator ==
  /\ \A r \in Requests : Creator(r) => tx[job[r]] # "none"
  /\ \A r, q \in Requests : Creator(r) /\ Creator(q) /\ job[r] = job[q] => r = q

\* While storage works, a request on its way to a verdict has a pending row.
Undecided == {"charge", "waiting", "decline", "mark", "except"}

PendingInHand ==
  faults \cap {"db", "redis"} = {} =>
    \A r \in Requests : pc[r] \in Undecided => tx[job[r]] = "pending"

\* While the PG answers and storage works, a failure is the PG's verdict.
FailedIsDeclined ==
  faults \subseteq {"crash", "ttl", "pms"} =>
    /\ \A r \in Requests : pc[r] # "except"
    /\ \A r \in Requests : pc[r] = "decline" => pg[job[r]] = "declined"
    /\ \A k \in Keys : tx[k] = "failed" => pg[k] = "declined"
    /\ \A k \in refusals : tx[k] = "failed"

OutcomeInv ==
  /\ ForgetsOnlyTold
  /\ PmsToldOrRemembered
  /\ BranchByPlace
  /\ OneCreator
  /\ PendingInHand
  /\ FailedIsDeclined

LEMMA InitOutcome == Init => OutcomeInv
BY DEF Init, OutcomeInv, ForgetsOnlyTold, PmsToldOrRemembered, BranchByPlace, OneCreator,
       Creator, PendingInHand, Undecided, FailedIsDeclined

\* Requests other than the one that takes a step stay where they are.
LEMMA OthersStay ==
  ASSUME TypeOK, NEW r \in Requests,
         \/ \E s \in Sessions : FeeBegin(r, s)
         \/ \E k \in Keys : PayBegin(r, k)
         \/ Proceed(r) \/ Raise(r) \/ Crash(r)
  PROVE  /\ \A q \in Requests \ {r} : UNCHANGED <<pc[q], job[q], mode[q]>>
         /\ UNCHANGED <<npc, njob>>
BY DEF TypeOK, reqVars, notVars, Goto, Leave, FeeBegin, PayBegin, Proceed, Raise, Crash, FeeCall, FeeSave,
       LookupFound, LookupMissed, CreatePending, AskPg, PgReplies, MarkFailed, MarkSuccess,
       CompleteSession, NotifyPms, NoticeFailed, RecordOrClear

\* Every step of a request keeps its place and its branch in agreement.
LEMMA BranchStep ==
  ASSUME IInv, TypeOK', BranchByPlace, [Next]_vars
  PROVE  BranchByPlace'
<1> USE DEF IInv, TypeOK, BranchByPlace, reqVars, notVars, Goto, Leave
<1>1. ASSUME NEW r \in Requests,
             \/ \E s \in Sessions : FeeBegin(r, s)
             \/ \E k \in Keys : PayBegin(r, k)
             \/ FeeCall(r) \/ FeeSave(r) \/ LookupFound(r) \/ LookupMissed(r)
      PROVE  BranchByPlace'
  BY <1>1 DEF FeeBegin, PayBegin, FeeCall, FeeSave, LookupFound, LookupMissed
<1>2. ASSUME NEW r \in Requests,
             \/ CreatePending(r) \/ AskPg(r) \/ PgReplies(r) \/ MarkFailed(r)
             \/ MarkSuccess(r) \/ CompleteSession(r)
      PROVE  BranchByPlace'
  BY <1>2 DEF CreatePending, AskPg, PgReplies, MarkFailed, MarkSuccess, CompleteSession
<1>3. ASSUME NEW r \in Requests,
             NotifyPms(r) \/ RecordOrClear(r) \/ Raise(r) \/ Crash(r)
      PROVE  BranchByPlace'
  BY <1>3 DEF NotifyPms, NoticeFailed, RecordOrClear, Raise, Crash
<1>4. ASSUME UNCHANGED reqVars PROVE BranchByPlace'
  BY <1>4
<1>5. \/ UNCHANGED reqVars
      \/ \E r \in Requests :
           \/ \E s \in Sessions : FeeBegin(r, s)
           \/ \E k \in Keys : PayBegin(r, k)
           \/ Proceed(r) \/ Raise(r) \/ Crash(r)
  BY DEF Next, vars, payVars, FeeGrows, QuoteExpires, PgSettles, RetryExpires, RetryBegin,
         Repeat, RetryAccepted, RetryRefused, RetryDelete
<1> QED
  BY <1>1, <1>2, <1>3, <1>4, <1>5 DEF Proceed

\* The steps that write the transactions table.
LEMMA RowsStep ==
  ASSUME [Next]_vars
  PROVE  \/ UNCHANGED tx
         \/ \E r \in Requests : MarkFailed(r) \/ CreatePending(r) \/ MarkSuccess(r)
<1>1. ASSUME NEW r \in Requests, Proceed(r)
      PROVE  UNCHANGED tx \/ MarkFailed(r) \/ CreatePending(r) \/ MarkSuccess(r)
  BY <1>1 DEF Proceed, FeeCall, FeeSave, LookupFound, LookupMissed, AskPg, PgReplies,
              CompleteSession, NotifyPms, RecordOrClear
<1>2. ASSUME NEW r \in Requests,
             \/ \E s \in Sessions : FeeBegin(r, s)
             \/ \E k \in Keys : PayBegin(r, k)
             \/ Raise(r) \/ Crash(r)
      PROVE  UNCHANGED tx
  BY <1>2 DEF FeeBegin, PayBegin, Raise, Crash
<1>3. ASSUME NEW w \in Notifiers, (\E k \in Keys : RetryBegin(w, k)) \/ Repeat(w)
      PROVE  UNCHANGED tx
  BY <1>3 DEF RetryBegin, Repeat, RetryAccepted, RetryRefused, RetryDelete
<1>4. ASSUME \/ UNCHANGED vars
             \/ \E s \in Sessions : FeeGrows(s)
             \/ \E k \in Keys : QuoteExpires(k) \/ PgSettles(k) \/ RetryExpires(k)
      PROVE  UNCHANGED tx
  BY <1>4 DEF vars, payVars, FeeGrows, QuoteExpires, PgSettles, RetryExpires
<1> QED
  BY <1>1, <1>2, <1>3, <1>4 DEF Next

\* A row is created by one request, which no other is before it is done.
LEMMA CreatorStep ==
  ASSUME IInv, TypeOK', BranchByPlace, OneCreator, [Next]_vars
  PROVE  OneCreator'
<1> USE DEF IInv, TypeOK, reqVars, notVars, Goto, Leave
<1>1. \A k \in Keys : tx[k] # "none" => tx'[k] # "none"
  BY RowsStep DEF CreatePending, Unused, MarkFailed, SetFailed, MarkSuccess
<1>2. ASSUME NEW r \in Requests, CreatePending(r) PROVE OneCreator'
  <2>1. job'[r] = job[r] \/ ~Creator(r)'
    BY <1>2 DEF CreatePending, Creator
  <2>2. CASE Unused(job[r]) /\ tx' = [tx EXCEPT ![job[r]] = "pending"]
    <3>1. job[r] \in Keys /\ tx'[job[r]] = "pending" /\ UNCHANGED <<job, mode>>
      BY <1>2, <2>2 DEF CreatePending, Unused
    <3>2. \A q \in Requests \ {r} : Creator(q)' => Creator(q) /\ job[q] # job[r]
      BY <1>2, <2>2, <3>1 DEF CreatePending, Creator, OneCreator, BranchByPlace, Unused
    <3> QED
      BY <1>1, <3>1, <3>2, OthersStay, <1>2 DEF OneCreator, Creator, BranchByPlace, Proceed
  <2>3. CASE Leave(r)
    BY <1>1, <1>2, <2>3 DEF CreatePending, OneCreator, Creator, BranchByPlace
  <2> QED
    BY <1>2, <2>2, <2>3 DEF CreatePending
<1>3. ASSUME \A q \in Requests : Creator(q)' => Creator(q) /\ job'[q] = job[q]
      PROVE  OneCreator'
  BY <1>1, <1>3 DEF OneCreator, Creator, BranchByPlace
<1>4. ASSUME NEW r \in Requests,
             \/ \E s \in Sessions : FeeBegin(r, s)
             \/ \E k \in Keys : PayBegin(r, k)
             \/ FeeCall(r) \/ FeeSave(r) \/ LookupFound(r) \/ LookupMissed(r)
             \/ Raise(r) \/ Crash(r)
      PROVE  OneCreator'
  <2>1. \A q \in Requests : Creator(q)' => Creator(q) /\ job'[q] = job[q]
    BY <1>4 DEF FeeBegin, PayBegin, FeeCall, FeeSave, LookupFound, LookupMissed, Raise, Crash,
                Creator, BranchByPlace
  <2> QED
    BY <2>1, <1>3
<1>5. ASSUME NEW r \in Requests,
             \/ AskPg(r) \/ PgReplies(r) \/ MarkFailed(r) \/ MarkSuccess(r)
             \/ CompleteSession(r) \/ NotifyPms(r) \/ RecordOrClear(r)
      PROVE  OneCreator'
  <2>1. \A q \in Requests : Creator(q)' => Creator(q) /\ job'[q] = job[q]
    BY <1>5 DEF AskPg, PgReplies, MarkFailed, MarkSuccess, CompleteSession, NotifyPms, NoticeFailed,
                RecordOrClear, Creator, BranchByPlace
  <2> QED
    BY <2>1, <1>3
<1>6. \/ UNCHANGED reqVars
      \/ \E r \in Requests :
           \/ \E s \in Sessions : FeeBegin(r, s)
           \/ \E k \in Keys : PayBegin(r, k)
           \/ Proceed(r) \/ Raise(r) \/ Crash(r)
  BY DEF Next, vars, payVars, FeeGrows, QuoteExpires, PgSettles, RetryExpires, RetryBegin,
         Repeat, RetryAccepted, RetryRefused, RetryDelete
<1>7. CASE UNCHANGED reqVars
  BY <1>3, <1>7 DEF Creator
<1> QED
  BY <1>2, <1>4, <1>5, <1>6, <1>7 DEF Proceed

\* A request whose key has a pending row settles it itself.
LEMMA PendingStep ==
  ASSUME IInv, TypeOK', BranchByPlace, OneCreator, PendingInHand, [Next]_vars
  PROVE  PendingInHand'
<1> SUFFICES ASSUME faults \cap {"db", "redis"} = {},
                    NEW q \in Requests, pc'[q] \in Undecided
             PROVE  tx'[job'[q]] = "pending"
  BY DEF PendingInHand, Next, vars
<1> USE DEF IInv, TypeOK, reqVars, notVars, Goto, Leave, PendingInHand, Undecided
<1>1. CASE UNCHANGED <<pc[q], job[q], tx>>
  BY <1>1
<1>2. ASSUME NEW r \in Requests, MarkFailed(r) \/ MarkSuccess(r)
      PROVE  tx'[job'[q]] = "pending"
  <2>1. q # r /\ UNCHANGED <<pc[q], job[q]>>
    BY <1>2, OthersStay DEF MarkFailed, MarkSuccess, Proceed
  <2>2. Creator(q) /\ Creator(r)
    BY <1>2, <2>1 DEF MarkFailed, MarkSuccess, Creator, BranchByPlace
  <2>3. job[q] # job[r]
    BY <2>1, <2>2 DEF OneCreator
  <2> QED
    BY <1>2, <2>1, <2>3 DEF MarkFailed, SetFailed, MarkSuccess
<1>3. ASSUME NEW r \in Requests, CreatePending(r)
      PROVE  tx'[job'[q]] = "pending"
  BY <1>3 DEF CreatePending, Unused
<1>4. ASSUME NEW r \in Requests,
             \/ \E s \in Sessions : FeeBegin(r, s)
             \/ \E k \in Keys : PayBegin(r, k)
             \/ FeeCall(r) \/ FeeSave(r) \/ LookupFound(r) \/ LookupMissed(r)
             \/ AskPg(r) \/ PgReplies(r) \/ Crash(r)
      PROVE  tx'[job'[q]] = "pending"
  BY <1>4 DEF FeeBegin, PayBegin, FeeCall, FeeSave, LookupFound, LookupMissed, AskPg, PgReplies, Crash
<1>5. ASSUME NEW r \in Requests,
             CompleteSession(r) \/ NotifyPms(r) \/ RecordOrClear(r) \/ Raise(r)
      PROVE  tx'[job'[q]] = "pending"
  BY <1>5 DEF CompleteSession, NotifyPms, NoticeFailed, RecordOrClear, Raise
<1>6. \/ UNCHANGED <<reqVars, tx>>
      \/ \E r \in Requests :
           \/ \E s \in Sessions : FeeBegin(r, s)
           \/ \E k \in Keys : PayBegin(r, k)
           \/ Proceed(r) \/ Raise(r) \/ Crash(r)
  BY DEF Next, vars, payVars, FeeGrows, QuoteExpires, PgSettles, RetryExpires, RetryBegin,
         Repeat, RetryAccepted, RetryRefused, RetryDelete
<1> QED
  BY <1>1, <1>2, <1>3, <1>4, <1>5, <1>6 DEF Proceed

\* What may become of the notices in a step: none is taken back from the PMS, a
\* payment enters the outbox with its success, and a retry record goes only by
\* the hand of one who reports a notice that arrived, or with its lifetime.
LEMMA NoticesStep ==
  ASSUME TypeOK, [Next]_vars
  PROVE  /\ pmsPaid \subseteq pmsPaid'
         /\ \A k \in outbox' \ outbox : \E r \in Requests : MarkSuccess(r) /\ k = job[r]
         /\ \A k \in retries \ retries' :
              \/ "ttl" \in faults
              \/ \E r \in Requests : pc[r] = "clear" /\ RecordOrClear(r) /\ job[r] = k
              \/ \E w \in Notifiers : RetryDelete(w) /\ njob[w] = k
<1>1. CASE UNCHANGED <<outbox, pmsPaid, retries>>
  BY <1>1
<1>2. ASSUME NEW r \in Requests, MarkSuccess(r) \/ NotifyPms(r) \/ RecordOrClear(r)
      PROVE  /\ pmsPaid \subseteq pmsPaid'
             /\ outbox' # outbox => MarkSuccess(r) /\ outbox' = outbox \cup {job[r]}
             /\ \A k \in retries \ retries' : pc[r] = "clear" /\ RecordOrClear(r) /\ job[r] = k
  BY <1>2 DEF MarkSuccess, Enqueue, NotifyPms, RecordOrClear, Remember, Forget
<1>3. ASSUME NEW w \in Notifiers, Repeat(w)
      PROVE  /\ pmsPaid \subseteq pmsPaid' /\ UNCHANGED outbox
             /\ \A k \in retries \ retries' : RetryDelete(w) /\ njob[w] = k
  BY <1>3 DEF Repeat, RetryAccepted, RetryRefused, RetryDelete, Forget
<1>4. ASSUME NEW k \in Keys, RetryExpires(k)
      PROVE  UNCHANGED <<pmsPaid, outbox>> /\ "ttl" \in faults
  BY <1>4 DEF RetryExpires
<1>5. ASSUME NEW r \in Requests, Proceed(r)
      PROVE  \/ UNCHANGED <<outbox, pmsPaid, retries>>
             \/ MarkSuccess(r) \/ NotifyPms(r) \/ RecordOrClear(r)
  BY <1>5 DEF Proceed, FeeCall, FeeSave, LookupFound, LookupMissed, CreatePending, AskPg,
              PgReplies, MarkFailed, CompleteSession
<1>6. ASSUME NEW r \in Requests,
             \/ \E s \in Sessions : FeeBegin(r, s)
             \/ \E k \in Keys : PayBegin(r, k)
             \/ Raise(r) \/ Crash(r)
      PROVE  UNCHANGED <<outbox, pmsPaid, retries>>
  BY <1>6 DEF FeeBegin, PayBegin, Raise, Crash
<1>7. ASSUME NEW w \in Notifiers, NEW k \in Keys, RetryBegin(w, k)
      PROVE  UNCHANGED <<outbox, pmsPaid, retries>>
  BY <1>7 DEF RetryBegin
<1>8. ASSUME \/ UNCHANGED vars
             \/ \E s \in Sessions : FeeGrows(s)
             \/ \E k \in Keys : QuoteExpires(k) \/ PgSettles(k)
      PROVE  UNCHANGED <<outbox, pmsPaid, retries>>
  BY <1>8 DEF vars, payVars, FeeGrows, QuoteExpires, PgSettles
<1> QED
  BY <1>1, <1>2, <1>3, <1>4, <1>5, <1>6, <1>7, <1>8 DEF Next

\* A retry record is forgotten only after the PMS recorded the payment.
LEMMA ForgetStep ==
  ASSUME IInv, TypeOK', ForgetsOnlyTold, [Next]_vars
  PROVE  ForgetsOnlyTold'
<1> USE DEF IInv, TypeOK, reqVars, notVars, Goto, Leave, ForgetsOnlyTold
<1>1. pmsPaid \subseteq pmsPaid'
  BY NoticesStep
<1>2. ASSUME NEW r \in Requests,
             \/ \E s \in Sessions : FeeBegin(r, s)
             \/ \E k \in Keys : PayBegin(r, k)
             \/ Proceed(r) \/ Raise(r) \/ Crash(r)
      PROVE  ForgetsOnlyTold'
  <2>1. pc'[r] = "clear" => job'[r] \in pmsPaid'
    BY <1>2 DEF FeeBegin, PayBegin, FeeCall, FeeSave, LookupFound, LookupMissed, CreatePending,
                AskPg, PgReplies, MarkFailed, MarkSuccess, CompleteSession, NotifyPms, NoticeFailed,
                RecordOrClear, Raise, Crash, Proceed
  <2> QED
    BY <1>1, <1>2, <2>1, OthersStay
<1>3. ASSUME NEW w \in Notifiers, (\E k \in Keys : RetryBegin(w, k)) \/ Repeat(w)
      PROVE  ForgetsOnlyTold'
  BY <1>1, <1>3 DEF RetryBegin, Repeat, RetryAccepted, RetryRefused, RetryDelete
<1>4. CASE UNCHANGED <<reqVars, notVars>>
  BY <1>1, <1>4
<1>5. \/ UNCHANGED <<reqVars, notVars>>
      \/ \E r \in Requests :
           \/ \E s \in Sessions : FeeBegin(r, s)
           \/ \E k \in Keys : PayBegin(r, k)
           \/ Proceed(r) \/ Raise(r) \/ Crash(r)
      \/ \E w \in Notifiers : (\E k \in Keys : RetryBegin(w, k)) \/ Repeat(w)
  BY DEF Next, vars, payVars, FeeGrows, QuoteExpires, PgSettles, RetryExpires
<1> QED
  BY <1>2, <1>3, <1>4, <1>5

\* A payment the PMS has not recorded stays in hand or in the retry store.
LEMMA RememberStep ==
  ASSUME IInv, TypeOK', ForgetsOnlyTold, PmsToldOrRemembered, [Next]_vars
  PROVE  PmsToldOrRemembered'
<1> SUFFICES ASSUME faults \subseteq {"pg", "pms"},
                    NEW k \in outbox' \ (pmsPaid' \cup retries')
             PROVE  \E r \in Requests :
                      job'[r] = k /\ pc'[r] \in {"complete", "notify", "record"}
  BY DEF PmsToldOrRemembered, Next, vars
<1> DEFINE Holds(r) == job[r] = k /\ pc[r] \in {"complete", "notify", "record"}
<1> USE DEF IInv, TypeOK, reqVars, notVars, Goto, Leave
<1>1. CASE k \in outbox /\ k \notin pmsPaid /\ k \notin retries
  <2>1. PICK r \in Requests : Holds(r)
    BY <1>1 DEF PmsToldOrRemembered
  <2>2. ASSUME NEW q \in Requests,
               \/ \E s \in Sessions : FeeBegin(q, s)
               \/ \E j \in Keys : PayBegin(q, j)
               \/ Proceed(q) \/ Raise(q) \/ Crash(q)
        PROVE  Holds(r)'
    <3>1. CASE q # r
      BY <2>1, <2>2, <3>1, OthersStay
    <3>2. CASE q = r
      <4>1. CompleteSession(r) \/ NotifyPms(r) \/ RecordOrClear(r)
        BY <2>1, <2>2, <3>2 DEF FeeBegin, PayBegin, Proceed, Raise, Crash, FeeCall, FeeSave,
             LookupFound, LookupMissed, CreatePending, AskPg, PgReplies, MarkFailed, MarkSuccess
      <4> QED
        BY <2>1, <4>1 DEF CompleteSession, NotifyPms, NoticeFailed, RecordOrClear, Remember
    <3> QED
      BY <3>1, <3>2
  <2>3. CASE UNCHANGED reqVars
    BY <2>1, <2>3
  <2>4. \/ UNCHANGED reqVars
        \/ \E q \in Requests :
             \/ \E s \in Sessions : FeeBegin(q, s)
             \/ \E j \in Keys : PayBegin(q, j)
             \/ Proceed(q) \/ Raise(q) \/ Crash(q)
    BY DEF Next, vars, payVars, FeeGrows, QuoteExpires, PgSettles, RetryExpires, RetryBegin,
           Repeat, RetryAccepted, RetryRefused, RetryDelete
  <2> QED
    BY <2>1, <2>2, <2>3, <2>4
<1>2. CASE k \notin outbox
  <2>1. PICK r \in Requests : MarkSuccess(r) /\ k = job[r]
    BY <1>2, NoticesStep
  <2> QED
    BY <2>1 DEF MarkSuccess
<1>3. CASE k \in pmsPaid \cup retries
  <2>1. k \in retries /\ k \notin pmsPaid
    BY <1>3, NoticesStep
  <2>2. \/ \E r \in Requests : pc[r] = "clear" /\ RecordOrClear(r) /\ job[r] = k
        \/ \E w \in Notifiers : RetryDelete(w) /\ njob[w] = k
    BY <2>1, NoticesStep
  <2> QED
    BY <2>1, <2>2 DEF ForgetsOnlyTold, RetryDelete
<1> QED
  BY <1>1, <1>2, <1>3

\* While the PG answers and storage works, only a decline leads to a failure,
\* and a declined charge is never recorded as a success.
LEMMA DeclineStep ==
  ASSUME IInv, TypeOK', FailedIsDeclined, [Next]_vars
  PROVE  FailedIsDeclined'
<1> SUFFICES ASSUME faults \subseteq {"crash", "ttl", "pms"}
             PROVE  /\ \A r \in Requests : pc'[r] # "except"
                    /\ \A r \in Requests : pc'[r] = "decline" => pg'[job'[r]] = "declined"
                    /\ \A k \in Keys : tx'[k] = "failed" => pg'[k] = "declined"
                    /\ \A k \in refusals' : tx'[k] = "failed"
  BY DEF FailedIsDeclined, Next, vars
<1> USE DEF IInv, TypeOK, reqVars, notVars, Goto, Leave, FailedIsDeclined
<1>1. CASE UNCHANGED <<pc, job, pg, tx, refusals>>
  BY <1>1
<1>2. ASSUME NEW r \in Requests,
             \/ \E s \in Sessions : FeeBegin(r, s)
             \/ \E k \in Keys : PayBegin(r, k)
             \/ FeeCall(r) \/ FeeSave(r) \/ LookupFound(r) \/ LookupMissed(r)
      PROVE  FailedIsDeclined'
  BY <1>2 DEF FeeBegin, PayBegin, FeeCall, FeeSave, LookupFound, LookupMissed
<1>3. ASSUME NEW r \in Requests,
             \/ CompleteSession(r) \/ NotifyPms(r) \/ RecordOrClear(r) \/ Raise(r) \/ Crash(r)
      PROVE  FailedIsDeclined'
  BY <1>3 DEF CompleteSession, NotifyPms, NoticeFailed, RecordOrClear, Raise, Crash
<1>4. ASSUME NEW r \in Requests, CreatePending(r) PROVE FailedIsDeclined'
  BY <1>4 DEF CreatePending, Unused
<1>5. ASSUME NEW r \in Requests, AskPg(r) PROVE FailedIsDeclined'
  BY <1>5 DEF AskPg
<1>6. ASSUME NEW r \in Requests, PgReplies(r) PROVE FailedIsDeclined'
  BY <1>6 DEF PgReplies
<1>7. ASSUME NEW r \in Requests, MarkFailed(r) PROVE FailedIsDeclined'
  BY <1>7 DEF MarkFailed, SetFailed
<1>8. ASSUME NEW r \in Requests, MarkSuccess(r) PROVE FailedIsDeclined'
  <2>1. pg[job[r]] # "declined"
    BY <1>8 DEF MarkSuccess, MarkIsCovered, FreeIsNeverAsked, Charged
  <2> QED
    BY <1>8, <2>1 DEF MarkSuccess
<1>9. ASSUME NEW k \in Keys, PgSettles(k) PROVE FailedIsDeclined'
  BY <1>9 DEF PgSettles
<1>10. \/ UNCHANGED <<pc, job, pg, tx, refusals>>
       \/ \E k \in Keys : PgSettles(k)
       \/ \E r \in Requests :
            \/ \E s \in Sessions : FeeBegin(r, s)
            \/ \E k \in Keys : PayBegin(r, k)
            \/ Proceed(r) \/ Raise(r) \/ Crash(r)
  BY DEF Next, vars, payVars, FeeGrows, QuoteExpires, RetryExpires, RetryBegin,
         Repeat, RetryAccepted, RetryRefused, RetryDelete
<1> QED
  BY <1>1, <1>2, <1>3, <1>4, <1>5, <1>6, <1>7, <1>8, <1>9, <1>10 DEF Proceed, Next, vars

LEMMA OutcomeNext == IInv /\ OutcomeInv /\ [Next]_vars => OutcomeInv'
BY TypeStep, ForgetStep, RememberStep, BranchStep, CreatorStep, PendingStep, DeclineStep
   DEF IInv, OutcomeInv

\* What the notices and verdicts leave behind, whatever the requests and the
\* worker do to each other.
THEOREM OutcomeInvariant == Spec => []OutcomeInv
BY InitOutcome, OutcomeNext, PaymentInvariant, PTL DEF Spec

\* While processes and storage last, no payment the PMS has not recorded is
\* dropped: the worker's delete by key never loses one (NotifyRetryWorker).
THEOREM NoNoticeLost == Spec => []PmsToldOrRemembered
BY OutcomeInvariant, PTL DEF OutcomeInv

\* While the PG answers and storage works, a caller is told "failed" only of a
\* key whose money was not taken and nobody was told "success" of.
THEOREM NoFalseRefusal == Spec => []RefusedMeansUnpaid
<1>1. IInv /\ OutcomeInv => RefusedMeansUnpaid
  <2> SUFFICES ASSUME IInv, FailedIsDeclined, faults \subseteq {"crash", "ttl", "pms"},
                      NEW k \in refusals
               PROVE  tx[k] = "failed" /\ k \notin Charged \cup receipts
    BY DEF OutcomeInv, RefusedMeansUnpaid
  <2>1. k \in Keys /\ tx[k] = "failed" /\ pg[k] = "declined"
    BY DEF FailedIsDeclined, IInv, TypeOK
  <2>2. k \notin Charged \cup Free
    BY <2>1 DEF Charged, IInv, FreeIsNeverAsked
  <2> QED
    BY <2>1, <2>2 DEF IInv, NothingUnpaid
<1> QED
  BY <1>1, PaymentInvariant, OutcomeInvariant, PTL

\* While storage works a committed success is never made a failure, neither by a
\* notice that fails, nor by a crash, nor by another request (ProcessPaymentService).
THEOREM SuccessIsKept == Spec => SuccessStands
<1>1. IInv /\ OutcomeInv /\ [Next]_vars
        => [faults \cap {"db", "redis"} = {} => Paid \subseteq Paid']_vars
  <2> SUFFICES ASSUME IInv, OutcomeInv, Next, faults \cap {"db", "redis"} = {}
               PROVE  Paid \subseteq Paid'
    BY DEF vars
  <2> USE DEF IInv, TypeOK, reqVars, notVars, Goto
  <2>1. ASSUME NEW r \in Requests, MarkFailed(r) PROVE Paid \subseteq Paid'
    <3>1. tx[job[r]] = "pending"
      BY <2>1 DEF MarkFailed, OutcomeInv, PendingInHand, Undecided
    <3> QED
      BY <2>1, <3>1 DEF MarkFailed, SetFailed, Paid
  <2>2. ASSUME NEW r \in Requests, CreatePending(r) PROVE Paid \subseteq Paid'
    BY <2>2 DEF CreatePending, Unused, Paid
  <2>3. ASSUME NEW r \in Requests, MarkSuccess(r) PROVE Paid \subseteq Paid'
    BY <2>3 DEF MarkSuccess, Paid
  <2>4. CASE UNCHANGED tx
    BY <2>4 DEF Paid
  <2> QED
    BY <2>1, <2>2, <2>3, <2>4, RowsStep
<1> QED
  BY <1>1, PaymentInvariant, OutcomeInvariant, PTL DEF Spec, SuccessStands
=============================================================================
