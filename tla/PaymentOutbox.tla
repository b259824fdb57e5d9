---------------------------- MODULE PaymentOutbox ----------------------------
(***************************************************************************)
(* The payment_notification_outbox table and the PaymentOutboxWorker       *)
(* threads that drain it, one per back-end instance.                       *)
(*                                                                         *)
(* A worker claims the oldest due rows in one transaction (FOR UPDATE SKIP *)
(* LOCKED), which also counts the attempt and stamps a lease, and then     *)
(* publishes the batch one row at a time, marking each row afterwards in a *)
(* transaction of its own.  Nothing ties that later mark to the claim: a   *)
(* worker whose lease ran out while it was busy still marks the row.       *)
(*                                                                         *)
(* The clock is abstracted to the set `due` of rows whose next_attempt_at  *)
(* has passed.  A row leaves it when the code moves next_attempt_at into   *)
(* the future and comes back with DelayElapses.                            *)
(***************************************************************************)
EXTENDS Naturals, FiniteSets

CONSTANTS
  Notifications,     \* the rows the table may come to hold (one per paid tx)
  Workers,           \* the back-end instances
  MaxAttempts,       \* the max_attempts column
  BatchSize,         \* the LIMIT of one claim
  Scenarios          \* the sets of faults a behaviour may be exposed to

\* A lease may run out while its worker is still busy; a worker may lose its
\* batch before it is done.
FaultKinds == {"slow", "stop"}

ASSUME OutboxAssumption ==
  /\ MaxAttempts \in Nat \ {0}
  /\ BatchSize \in Nat \ {0}
  /\ Scenarios \subseteq SUBSET FaultKinds

VARIABLES
  faults,   \* what may go wrong in this behaviour, fixed from the start
  table,    \* the rows: status and attempts
  due,      \* the rows whose next_attempt_at has passed
  clock,    \* the created_at of the youngest row
  created,  \* created_at as a rank, 0 for a row not inserted yet
  claim,    \* claim[w][n]: the attempt number under which w holds n, 0 if it does not
  phase,    \* where worker w is in run_once
  seen,     \* the attempts column as w last read it in mark_failed
  sends     \* history: the attempt numbers whose publication reached the channel

outboxVars == <<table, due, clock, created, claim, phase, seen, sends>>
vars == <<faults, outboxVars>>

Statuses == {"none", "pending", "publishing", "published", "failed", "dead"}
Phases   == {"scan", "publish", "sent", "refused", "failing"}
Attempts == 0 .. MaxAttempts

Row == [status : Statuses, attempts : Attempts]

TypeOK ==
  /\ faults \in Scenarios
  /\ table \in [Notifications -> Row]
  /\ due \subseteq Notifications
  /\ clock \in Nat
  /\ created \in [Notifications -> Nat]
  /\ claim \in [Workers -> [Notifications -> Attempts]]
  /\ phase \in [Workers -> Phases]
  /\ seen \in [Workers -> Attempts]
  /\ sends \in [Notifications -> SUBSET (1 .. MaxAttempts)]

Held(w)    == {n \in Notifications : claim[w][n] # 0}
HeldByAny  == {n \in Notifications : \E w \in Workers : n \in Held(w)}

\* run_once walks its batch in created_at order.
IsNext(w, n) ==
  /\ n \in Held(w)
  /\ \A m \in Held(w) \ {n} : created[n] < created[m]

\* The batch without n; run_once ends when nothing is left.
Advance(w, n) ==
  /\ claim' = [claim EXCEPT ![w][n] = 0]
  /\ phase' = [phase EXCEPT ![w] = IF Held(w) \subseteq {n} THEN "scan" ELSE "publish"]

Init ==
  /\ faults \in Scenarios
  /\ table = [n \in Notifications |-> [status |-> "none", attempts |-> 0]]
  /\ due = {}
  /\ clock = 0
  /\ created = [n \in Notifications |-> 0]
  /\ claim = [w \in Workers |-> [n \in Notifications |-> 0]]
  /\ phase = [w \in Workers |-> "scan"]
  /\ seen = [w \in Workers |-> 0]
  /\ sends = [n \in Notifications |-> {}]

\* The payment's success transaction inserts the row, at most one per tx.
Enqueue(n) ==
  /\ table[n].status = "none"
  /\ table' = [table EXCEPT ![n] = [status |-> "pending", attempts |-> 0]]
  /\ due' = due \cup {n}
  /\ clock' = clock + 1
  /\ created' = [created EXCEPT ![n] = clock + 1]
  /\ UNCHANGED <<claim, phase, seen, sends>>

\* Mutants: a claim without the attempts limit, and one that passes by the
\* rows that failed before.
ClaimableForever(n) ==
  table[n].status \in {"pending", "failed", "publishing"} /\ n \in due

ClaimableOnce(n) ==
  /\ table[n].status \in {"pending", "publishing"}
  /\ n \in due
  /\ table[n].attempts < MaxAttempts

Claimable(n) ==
  /\ table[n].status \in {"pending", "failed", "publishing"}
  /\ n \in due
  /\ table[n].attempts < MaxAttempts

\* Mutants: a claim that does not count, and one that takes no lease.
ClaimedUncounted(n) == [table[n] EXCEPT !.status = "publishing"]
NoLease(batch)      == batch \subseteq due /\ UNCHANGED due

\* The claimed row, and its lease: next_attempt_at moves into the future.
Claimed(n)   == [status |-> "publishing", attempts |-> table[n].attempts + 1]
Lease(batch) == due' = due \ batch

\* One claim transaction: the oldest claimable rows, at most BatchSize of them,
\* become "publishing", their attempts are counted and their lease starts.
ClaimDue(w) ==
  LET claimable == {n \in Notifications : Claimable(n)} IN
  /\ phase[w] = "scan"
  /\ \E batch \in SUBSET claimable \ {{}} :
       /\ Cardinality(batch) <= BatchSize
       /\ batch # claimable => Cardinality(batch) = BatchSize
       /\ \A m \in batch, n \in claimable \ batch : created[m] < created[n]
       /\ table' = [n \in Notifications |->
                      IF n \in batch THEN Claimed(n) ELSE table[n]]
       /\ Lease(batch)
       /\ claim' = [claim EXCEPT ![w] =
                      [n \in Notifications |->
                         IF n \in batch THEN table[n].attempts + 1 ELSE 0]]
  /\ phase' = [phase EXCEPT ![w] = "publish"]
  /\ UNCHANGED <<clock, created, seen, sends>>

\* publish_payment_notification returns: the channel has the message.
PublishReturns(w, n) ==
  /\ phase[w] = "publish"
  /\ IsNext(w, n)
  /\ sends' = [sends EXCEPT ![n] = @ \cup {claim[w][n]}]
  /\ phase' = [phase EXCEPT ![w] = "sent"]
  /\ UNCHANGED <<table, due, clock, created, claim, seen>>

\* Mutant: a publisher that swallows its failures.
PublishRaisesUnseen(w, n) ==
  /\ phase[w] = "publish"
  /\ IsNext(w, n)
  /\ phase' = [phase EXCEPT ![w] = "sent"]
  /\ UNCHANGED <<table, due, clock, created, claim, seen, sends>>

\* publish_payment_notification raises.  After a timeout the channel may have
\* the message all the same.
PublishRaises(w, n) ==
  /\ phase[w] = "publish"
  /\ IsNext(w, n)
  /\ sends' \in {sends, [sends EXCEPT ![n] = @ \cup {claim[w][n]}]}
  /\ phase' = [phase EXCEPT ![w] = "refused"]
  /\ UNCHANGED <<table, due, clock, created, claim, seen>>

\* mark_published: unconditional, whatever the row has become meanwhile.
MarkPublished(w, n) ==
  /\ phase[w] = "sent"
  /\ IsNext(w, n)
  /\ table' = [table EXCEPT ![n].status = "published"]
  /\ Advance(w, n)
  /\ UNCHANGED <<due, clock, created, seen, sends>>

\* mark_failed reads the row ...
ReadFailed(w, n) ==
  /\ phase[w] = "refused"
  /\ IsNext(w, n)
  /\ seen' = [seen EXCEPT ![w] = table[n].attempts]
  /\ phase' = [phase EXCEPT ![w] = "failing"]
  /\ UNCHANGED <<table, due, clock, created, claim, sends>>

Exhausted(attempts) == attempts >= MaxAttempts

\* ... and commits what follows from the attempts it read.
MarkFailed(w, n) ==
  /\ phase[w] = "failing"
  /\ IsNext(w, n)
  /\ \/ /\ Exhausted(seen[w])
        /\ table' = [table EXCEPT ![n].status = "dead"]
        /\ UNCHANGED due
     \/ /\ ~Exhausted(seen[w])
        /\ table' = [table EXCEPT ![n].status = "failed"]
        /\ due' = due \ {n}
  /\ Advance(w, n)
  /\ seen' = [seen EXCEPT ![w] = 0]
  /\ UNCHANGED <<clock, created, sends>>

\* The process stops, or a mark raises and the rest of the batch is dropped
\* by the catch-all around run_once.  The rows keep their lease.
LoseBatch(w) ==
  /\ "stop" \in faults
  /\ phase[w] # "scan"
  /\ claim' = [claim EXCEPT ![w] = [n \in Notifications |-> 0]]
  /\ phase' = [phase EXCEPT ![w] = "scan"]
  /\ seen' = [seen EXCEPT ![w] = 0]
  /\ UNCHANGED <<table, due, clock, created, sends>>

\* next_attempt_at passes: a lease runs out or a back-off ends.
DelayElapses(n) ==
  /\ table[n].status \in {"publishing", "failed"}
  /\ n \notin due
  /\ "slow" \in faults \/ n \notin HeldByAny
  /\ due' = due \cup {n}
  /\ UNCHANGED <<table, clock, created, claim, phase, seen, sends>>

Work(w) ==
  \/ ClaimDue(w)
  \/ \E n \in Notifications :
       \/ PublishReturns(w, n)
       \/ PublishRaises(w, n)
       \/ MarkPublished(w, n)
       \/ ReadFailed(w, n)
       \/ MarkFailed(w, n)

Next ==
  /\ \/ \E n \in Notifications : Enqueue(n) \/ DelayElapses(n)
     \/ \E w \in Workers : Work(w) \/ LoseBatch(w)
  /\ UNCHANGED faults

Spec == Init /\ [][Next]_vars

\* Every worker thread keeps scanning and publishing, and time passes.
FairSpec ==
  /\ Spec
  /\ \A w \in Workers : WF_outboxVars(Work(w))
  /\ \A n \in Notifications : WF_outboxVars(DelayElapses(n))

-----------------------------------------------------------------------------
(* Properties that hold however slow the workers are.                      *)

\* Claims are fenced: no two workers hold a row under the same attempt number,
\* and none holds a number the row has not counted.  This is what SKIP LOCKED
\* and counting inside the claim transaction buy (claim_due).
ClaimsAreFenced ==
  \A w \in Workers, n \in Notifications :
    /\ claim[w][n] <= table[n].attempts
    /\ \A v \in Workers \ {w} : claim[w][n] # 0 => claim[v][n] # claim[w][n]

\* No attempt number is sent twice, so at most MaxAttempts copies of a
\* notification ever reach the channel: a number waiting to be published by
\* some worker has not been sent (run_once, claim_due).
EachAttemptSentOnce ==
  \A w \in Workers, n \in Notifications :
    /\ claim[w][n] \in sends[n] => phase[w] # "publish" /\ IsNext(w, n)
    /\ \A k \in sends[n] : k <= table[n].attempts

\* A row says "published" only if some copy reached the channel
\* (_publish_one: mark_published comes after the publish call returned).
PublishedWasSent ==
  \A n \in Notifications : table[n].status = "published" => sends[n] # {}

\* A row is given up only after its last attempt was counted, even when
\* mark_failed is racing a newer claim of the row (mark_failed).
DeadOnlyWhenExhausted ==
  \A n \in Notifications : table[n].status = "dead" => table[n].attempts = MaxAttempts

\* What a row says is true, also when two holders mark it: "published" and "dead"
\* are the statuses nobody looks behind (mark_published, mark_failed).
StatusIsTrue == PublishedWasSent /\ DeadOnlyWhenExhausted

-----------------------------------------------------------------------------
(* Properties that need every batch to be done before its lease runs out.  *)

Prompt == "slow" \notin faults

\* A row is in at most one batch, and its holder holds the current attempt
\* under a running lease.
HeldByOne ==
  \A w \in Workers, n \in Notifications : claim[w][n] # 0 =>
    /\ table[n].status = "publishing"
    /\ n \notin due
    /\ claim[w][n] = table[n].attempts
    /\ \A v \in Workers \ {w} : claim[v][n] = 0

\* While no batch outlasts its lease, no row is in two of them, whatever the
\* workers before them left behind when they stopped (claim_due, run_once).
OneHolder == Prompt => HeldByOne

Fate ==
  [n \in Notifications |->
     CASE table[n].status = "none"      -> "none"
       [] table[n].status = "published" -> "confirmed"
       [] table[n].status = "dead"      -> "abandoned"
       [] OTHER                         -> "owed"]

Sent == [n \in Notifications |-> sends[n] # {}]

Promise == INSTANCE NotificationPromise WITH fate <- Fate, delivered <- Sent

\* While no batch outlasts its lease, the outbox implements NotificationPromise:
\* a confirmed notification was delivered, and confirmed or abandoned ones are
\* never touched again (mark_published, mark_failed).
KeepsPromise ==
  /\ Prompt => Promise!Init
  /\ [][Prompt => [Promise!Next]_<<Fate, Sent>>]_vars

\* Every notification that was enqueued is published or given up in the end,
\* provided no worker loses a batch (PaymentOutboxWorker._run).
EventuallySettled ==
  \A n \in Notifications :
    (table[n].status = "pending" /\ "stop" \notin faults)
      ~> table[n].status \in {"published", "dead"}

-----------------------------------------------------------------------------
(* A claim of the documentation that the code does not keep.               *)

\* docs/scenarios/06-payment-notification-outbox.md says that when a process
\* dies while publishing, the row can be claimed again once the lease is over.
ReclaimableAfterLease ==
  \A n \in Notifications :
    (table[n].status = "publishing" /\ n \in due) => Claimable(n)
=============================================================================
