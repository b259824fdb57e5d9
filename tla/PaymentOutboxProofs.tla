------------------------- MODULE PaymentOutboxProofs -------------------------
(***************************************************************************)
(* Proofs about PaymentOutbox for any sets of rows and workers and any     *)
(* bounds.  IInv strengthens the safety properties to an inductive         *)
(* invariant; while workers are prompt it is extended by HeldByOne, from   *)
(* which the outbox is shown to implement NotificationPromise.             *)
(***************************************************************************)
EXTENDS PaymentOutbox, TLAPS

\* A row that was never inserted has no attempts, hence no holder.
AbsentIsUntouched ==
  \A n \in Notifications : table[n].status = "none" => table[n].attempts = 0

\* A worker about to mark a row published has sent it.
SentIsRecorded ==
  \A w \in Workers, n \in Notifications :
    (phase[w] = "sent" /\ IsNext(w, n)) => claim[w][n] \in sends[n]

\* What mark_failed read is not ahead of the row.
ReadIsPast ==
  \A w \in Workers, n \in Notifications :
    (phase[w] = "failing" /\ IsNext(w, n)) => seen[w] <= table[n].attempts

IInv ==
  /\ TypeOK
  /\ AbsentIsUntouched
  /\ ClaimsAreFenced
  /\ EachAttemptSentOnce
  /\ SentIsRecorded
  /\ ReadIsPast
  /\ PublishedWasSent
  /\ DeadOnlyWhenExhausted

-----------------------------------------------------------------------------
\* The initial states satisfy the invariant.
LEMMA InitIInv == Init => IInv
<1> USE OutboxAssumption
<1> SUFFICES ASSUME Init PROVE IInv
  OBVIOUS
<1>1. TypeOK
  BY DEF Init, TypeOK, Row, Statuses, Phases, Attempts
<1>2. AbsentIsUntouched /\ ClaimsAreFenced
  BY DEF Init, AbsentIsUntouched, ClaimsAreFenced
<1>3. EachAttemptSentOnce
  BY DEF Init, EachAttemptSentOnce
<1>4. SentIsRecorded /\ ReadIsPast
  BY DEF Init, SentIsRecorded, ReadIsPast
<1>5. PublishedWasSent /\ DeadOnlyWhenExhausted
  BY DEF Init, PublishedWasSent, DeadOnlyWhenExhausted
<1> QED
  BY <1>1, <1>2, <1>3, <1>4, <1>5 DEF IInv

-----------------------------------------------------------------------------
\* Moving on in the batch keeps the claims and phases in their types.
LEMMA AdvanceTypes ==
  ASSUME TypeOK, NEW w \in Workers, NEW n \in Notifications, Advance(w, n)
  PROVE  /\ claim' \in [Workers -> [Notifications -> Attempts]]
         /\ phase' \in [Workers -> Phases]
BY OutboxAssumption DEF Advance, TypeOK, Phases, Attempts

\* Every step of the outbox keeps its variables in their types.
LEMMA TypeStep == TypeOK /\ [Next]_vars => TypeOK'
<1> USE OutboxAssumption DEF TypeOK, Row, Statuses, Phases, Attempts
<1> SUFFICES ASSUME TypeOK, [Next]_vars PROVE TypeOK'
  OBVIOUS
<1>0. faults' = faults
  BY DEF Next, vars
<1> USE <1>0
<1>1. ASSUME NEW n \in Notifications, Enqueue(n) PROVE TypeOK'
  BY <1>1 DEF Enqueue
<1>2. ASSUME NEW n \in Notifications, DelayElapses(n) PROVE TypeOK'
  BY <1>2 DEF DelayElapses
<1>3. ASSUME NEW w \in Workers, ClaimDue(w) PROVE TypeOK'
  <2>1. PICK batch \in SUBSET {n \in Notifications : Claimable(n)} :
          /\ table' = [n \in Notifications |->
                         IF n \in batch
                         THEN [status |-> "publishing",
                               attempts |-> table[n].attempts + 1]
                         ELSE table[n]]
          /\ due' = due \ batch
          /\ claim' = [claim EXCEPT ![w] =
                         [n \in Notifications |->
                            IF n \in batch THEN table[n].attempts + 1 ELSE 0]]
    BY <1>3 DEF ClaimDue, Claimed, Lease
  <2>2. \A n \in batch : table[n].attempts + 1 \in Attempts
    BY <2>1 DEF Claimable
  <2>3. table' \in [Notifications -> Row]
    BY <2>1, <2>2
  <2>4. claim' \in [Workers -> [Notifications -> Attempts]]
    BY <2>1, <2>2
  <2> QED
    BY <1>3, <2>1, <2>3, <2>4 DEF ClaimDue, Claimed, Lease
<1>4. ASSUME NEW w \in Workers, NEW n \in Notifications, PublishReturns(w, n)
      PROVE  TypeOK'
  <2>1. claim[w][n] \in 1 .. MaxAttempts
    BY <1>4 DEF PublishReturns, IsNext, Held
  <2> QED
    BY <1>4, <2>1 DEF PublishReturns
<1>5. ASSUME NEW w \in Workers, NEW n \in Notifications, PublishRaises(w, n)
      PROVE  TypeOK'
  <2>1. claim[w][n] \in 1 .. MaxAttempts
    BY <1>5 DEF PublishRaises, IsNext, Held
  <2> QED
    BY SMTT(60), <1>5, <2>1 DEF PublishRaises
<1>6. ASSUME NEW w \in Workers, NEW n \in Notifications, MarkPublished(w, n)
      PROVE  TypeOK'
  <2>1. table' \in [Notifications -> Row]
    BY <1>6 DEF MarkPublished
  <2> QED
    BY <1>6, <2>1, AdvanceTypes DEF MarkPublished
<1>7. ASSUME NEW w \in Workers, NEW n \in Notifications, ReadFailed(w, n)
      PROVE  TypeOK'
  BY <1>7 DEF ReadFailed
<1>8. ASSUME NEW w \in Workers, NEW n \in Notifications, MarkFailed(w, n)
      PROVE  TypeOK'
  <2>1. PICK s \in {"dead", "failed"} : table' = [table EXCEPT ![n].status = s]
    BY <1>8 DEF MarkFailed, Exhausted
  <2>2. table' \in [Notifications -> Row]
    BY <2>1
  <2>3. due' \subseteq Notifications
    BY <1>8 DEF MarkFailed, Exhausted
  <2> QED
    BY <1>8, <2>2, <2>3, AdvanceTypes DEF MarkFailed, Exhausted
<1>9. ASSUME NEW w \in Workers, LoseBatch(w) PROVE TypeOK'
  BY <1>9 DEF LoseBatch
<1>10. CASE UNCHANGED vars
  BY <1>10 DEF vars, outboxVars
<1> QED
  BY <1>1, <1>2, <1>3, <1>4, <1>5, <1>6, <1>7, <1>8, <1>9, <1>10 DEF Next, Work

-----------------------------------------------------------------------------
\* Moving on releases exactly one claim and leaves the worker in a phase in
\* which it has nothing sent or refused.
LEMMA AdvanceEffect ==
  ASSUME TypeOK, NEW w \in Workers, NEW n \in Notifications, Advance(w, n)
  PROVE  /\ claim'[w][n] = 0
         /\ \A m \in Notifications \ {n} : claim'[w][m] = claim[w][m]
         /\ \A v \in Workers \ {w} : claim'[v] = claim[v] /\ phase'[v] = phase[v]
         /\ phase'[w] \in {"scan", "publish"}
BY DEF Advance, TypeOK

\* Which row comes next for v depends only on v's claims and the ranks.
LEMMA SameNext ==
  ASSUME TypeOK, NEW v \in Workers, NEW n \in Notifications,
         claim'[v] = claim[v],
         \A m \in Held(v) : created'[m] = created[m]
  PROVE  IsNext(v, n)' <=> IsNext(v, n)
BY DEF IsNext, Held

\* A step that only inserts a fresh row.
LEMMA EnqueueStep ==
  ASSUME IInv, NEW n \in Notifications, Enqueue(n), TypeOK'
  PROVE  IInv'
<1> USE OutboxAssumption
<1>1. table'[n].attempts = 0 /\ table[n].attempts = 0
      /\ table'[n].status = "pending"
  BY DEF Enqueue, IInv, TypeOK, AbsentIsUntouched
<1>2. \A m \in Notifications \ {n} : table'[m] = table[m]
  BY DEF Enqueue, IInv, TypeOK
<1>3. UNCHANGED <<claim, phase, seen, sends>>
  BY DEF Enqueue
<1>4. \A v \in Workers : claim[v][n] = 0
  BY <1>1 DEF IInv, ClaimsAreFenced, TypeOK, Attempts
<1>5. \A v \in Workers, m \in Notifications : IsNext(v, m)' <=> IsNext(v, m)
  <2> SUFFICES ASSUME NEW v \in Workers, NEW m \in Notifications
               PROVE  IsNext(v, m)' <=> IsNext(v, m)
    OBVIOUS
  <2>1. \A k \in Held(v) : created'[k] = created[k]
    BY <1>4 DEF Enqueue, Held, IInv, TypeOK
  <2> QED
    BY <1>3, <2>1, SameNext DEF IInv
<1>6. AbsentIsUntouched' /\ ClaimsAreFenced' /\ DeadOnlyWhenExhausted'
  BY <1>1, <1>2, <1>3, <1>4
     DEF IInv, AbsentIsUntouched, ClaimsAreFenced, DeadOnlyWhenExhausted
<1>7. EachAttemptSentOnce' /\ PublishedWasSent'
  BY <1>1, <1>2, <1>3, <1>5 DEF IInv, EachAttemptSentOnce, PublishedWasSent
<1>8. SentIsRecorded'
  BY <1>3, <1>5 DEF IInv, SentIsRecorded
<1>9. ReadIsPast'
  BY <1>1, <1>2, <1>3, <1>5 DEF IInv, ReadIsPast
<1> QED
  BY <1>6, <1>7, <1>8, <1>9 DEF IInv

\* A claim hands out attempt numbers nobody has held or sent.
LEMMA ClaimStep ==
  ASSUME IInv, NEW w \in Workers, ClaimDue(w), TypeOK'
  PROVE  IInv'
<1> USE OutboxAssumption
<1>1. PICK batch \in SUBSET {n \in Notifications : Claimable(n)} :
        /\ table' = [n \in Notifications |->
                       IF n \in batch
                       THEN [status |-> "publishing",
                             attempts |-> table[n].attempts + 1]
                       ELSE table[n]]
        /\ claim' = [claim EXCEPT ![w] =
                       [n \in Notifications |->
                          IF n \in batch THEN table[n].attempts + 1 ELSE 0]]
  BY DEF ClaimDue, Claimed, Lease
<1>2. phase' = [phase EXCEPT ![w] = "publish"] /\ UNCHANGED <<created, seen, sends>>
  BY DEF ClaimDue, Claimed, Lease
<1>3. \A n \in batch :
        /\ table'[n].status = "publishing"
        /\ table'[n].attempts = table[n].attempts + 1
        /\ table[n].attempts \in Nat
        /\ claim'[w][n] = table[n].attempts + 1
  BY <1>1 DEF IInv, TypeOK, Row, Attempts
<1>4. \A n \in Notifications \ batch : table'[n] = table[n] /\ claim'[w][n] = 0
  BY <1>1 DEF IInv, TypeOK
<1>5. \A v \in Workers \ {w} : claim'[v] = claim[v] /\ phase'[v] = phase[v]
  BY <1>1, <1>2 DEF IInv, TypeOK
<1>6. phase'[w] = "publish"
  BY <1>2 DEF IInv, TypeOK
<1>7. \A v \in Workers \ {w}, n \in Notifications : IsNext(v, n)' <=> IsNext(v, n)
  BY <1>2, <1>5, SameNext DEF IInv
<1>8. \A n \in Notifications : table[n].attempts \in Nat /\ table'[n].attempts \in Nat
        /\ table[n].attempts <= table'[n].attempts
  <2>1. \A n \in Notifications : table[n].attempts \in Nat
    BY DEF IInv, TypeOK, Row, Attempts
  <2> QED
    BY <2>1, <1>3, <1>4
<1>9. \A v \in Workers, n \in Notifications : claim[v][n] \in Nat
        /\ claim[v][n] <= table[n].attempts
  BY DEF IInv, TypeOK, ClaimsAreFenced, Attempts
<1>10. AbsentIsUntouched'
  BY <1>3, <1>4 DEF IInv, AbsentIsUntouched
<1>11. ClaimsAreFenced'
  <2> SUFFICES ASSUME NEW v \in Workers, NEW n \in Notifications
               PROVE  /\ claim'[v][n] <= table'[n].attempts
                      /\ \A u \in Workers \ {v} :
                           claim'[v][n] # 0 => claim'[u][n] # claim'[v][n]
    BY DEF ClaimsAreFenced
  <2>1. claim'[v][n] <= table'[n].attempts
    BY <1>3, <1>4, <1>5, <1>8, <1>9
  <2>2. ASSUME NEW u \in Workers \ {v}, claim'[v][n] # 0
        PROVE  claim'[u][n] # claim'[v][n]
    <3>1. CASE v = w
      BY <2>2, <3>1, <1>3, <1>4, <1>5, <1>9
    <3>2. CASE u = w
      BY <2>2, <3>2, <1>3, <1>4, <1>5, <1>9
    <3>3. CASE u # w /\ v # w
      BY <2>2, <3>3, <1>5 DEF IInv, ClaimsAreFenced
    <3> QED
      BY <3>1, <3>2, <3>3
  <2> QED
    BY <2>1, <2>2
<1>12. EachAttemptSentOnce'
  <2> SUFFICES ASSUME NEW v \in Workers, NEW n \in Notifications
               PROVE  /\ claim'[v][n] \in sends[n] =>
                            phase'[v] # "publish" /\ IsNext(v, n)'
                      /\ \A k \in sends[n] : k <= table'[n].attempts
    BY <1>2 DEF EachAttemptSentOnce
  <2>1. \A k \in sends[n] : k \in Nat \ {0} /\ k <= table[n].attempts
    BY DEF IInv, TypeOK, EachAttemptSentOnce
  <2>2. CASE v = w
    BY <2>1, <2>2, <1>3, <1>4, <1>8
  <2>3. CASE v # w
    BY <2>1, <2>3, <1>5, <1>7, <1>8 DEF IInv, EachAttemptSentOnce
  <2> QED
    BY <2>2, <2>3
<1>13. SentIsRecorded'
  BY <1>2, <1>5, <1>6, <1>7 DEF IInv, SentIsRecorded
<1>14. ReadIsPast'
  <2> SUFFICES ASSUME NEW v \in Workers, NEW n \in Notifications,
                      phase'[v] = "failing", IsNext(v, n)'
               PROVE  seen[v] <= table'[n].attempts
    BY <1>2 DEF ReadIsPast
  <2>1. v # w
    BY <1>6
  <2>2. seen[v] <= table[n].attempts /\ seen[v] \in Nat
    BY <2>1, <1>5, <1>7 DEF IInv, ReadIsPast, TypeOK, Attempts
  <2> QED
    BY <2>2, <1>8
<1>15. PublishedWasSent' /\ DeadOnlyWhenExhausted'
  BY <1>2, <1>3, <1>4 DEF IInv, PublishedWasSent, DeadOnlyWhenExhausted
<1> QED
  BY <1>10, <1>11, <1>12, <1>13, <1>14, <1>15 DEF IInv

\* Publishing only adds the held number to the sends of the next row.
LEMMA PublishStep ==
  ASSUME IInv, TypeOK', NEW w \in Workers, NEW n \in Notifications,
         PublishReturns(w, n) \/ PublishRaises(w, n)
  PROVE  IInv'
<1> USE OutboxAssumption
<1>1. UNCHANGED <<table, created, claim, seen>>
  BY DEF PublishReturns, PublishRaises
<1>2. phase[w] = "publish" /\ IsNext(w, n)
  BY DEF PublishReturns, PublishRaises
<1>3. /\ phase'[w] \in {"sent", "refused"}
      /\ phase'[w] = "sent" => claim[w][n] \in sends'[n]
      /\ \A v \in Workers \ {w} : phase'[v] = phase[v]
  BY DEF PublishReturns, PublishRaises, IInv, TypeOK
<1>4. /\ sends[n] \subseteq sends'[n]
      /\ sends'[n] \subseteq sends[n] \cup {claim[w][n]}
      /\ \A m \in Notifications \ {n} : sends'[m] = sends[m]
  BY DEF PublishReturns, PublishRaises, IInv, TypeOK
<1>5. \A v \in Workers, m \in Notifications : IsNext(v, m)' <=> IsNext(v, m)
  BY <1>1, SameNext DEF IInv
<1>6. \A m \in Notifications \ {n} : ~IsNext(w, m)
  BY <1>2 DEF IsNext, Held, IInv, TypeOK
<1>7. AbsentIsUntouched' /\ ClaimsAreFenced' /\ DeadOnlyWhenExhausted'
  BY <1>1 DEF IInv, AbsentIsUntouched, ClaimsAreFenced, DeadOnlyWhenExhausted
<1>8. EachAttemptSentOnce'
  <2> SUFFICES ASSUME NEW v \in Workers, NEW m \in Notifications
               PROVE  /\ claim[v][m] \in sends'[m] =>
                            phase'[v] # "publish" /\ IsNext(v, m)
                      /\ \A k \in sends'[m] : k <= table[m].attempts
    BY <1>1, <1>5 DEF EachAttemptSentOnce
  <2>1. \A k \in sends'[m] : k <= table[m].attempts
    BY <1>4 DEF IInv, EachAttemptSentOnce, ClaimsAreFenced
  <2>2. ASSUME claim[v][m] \in sends'[m]
        PROVE  phase'[v] # "publish" /\ IsNext(v, m)
    <3>1. CASE claim[v][m] \in sends[m]
      BY <3>1, <1>2, <1>3 DEF IInv, EachAttemptSentOnce
    <3>2. CASE claim[v][m] \notin sends[m]
      <4>1. m = n /\ claim[v][n] = claim[w][n]
        BY <2>2, <3>2, <1>4
      <4>2. v = w
        BY <4>1, <1>2 DEF IInv, ClaimsAreFenced, IsNext, Held
      <4> QED
        BY <4>1, <4>2, <1>2, <1>3
    <3> QED
      BY <3>1, <3>2
  <2> QED
    BY <2>1, <2>2
<1>9. SentIsRecorded'
  <2> SUFFICES ASSUME NEW v \in Workers, NEW m \in Notifications,
                      phase'[v] = "sent", IsNext(v, m)
               PROVE  claim[v][m] \in sends'[m]
    BY <1>1, <1>5 DEF SentIsRecorded
  <2>1. CASE v = w
    BY <2>1, <1>3, <1>6
  <2>2. CASE v # w
    BY <2>2, <1>3, <1>4 DEF IInv, SentIsRecorded
  <2> QED
    BY <2>1, <2>2
<1>10. ReadIsPast'
  BY <1>1, <1>3, <1>5 DEF IInv, ReadIsPast
<1>11. PublishedWasSent'
  BY <1>1, <1>4 DEF IInv, PublishedWasSent
<1> QED
  BY <1>7, <1>8, <1>9, <1>10, <1>11 DEF IInv

\* Reading the row in mark_failed changes nothing but what the worker saw.
LEMMA ReadStep ==
  ASSUME IInv, TypeOK', NEW w \in Workers, NEW n \in Notifications, ReadFailed(w, n)
  PROVE  IInv'
<1> USE OutboxAssumption
<1>1. UNCHANGED <<table, created, claim, sends>>
  BY DEF ReadFailed
<1>2. /\ phase[w] = "refused" /\ IsNext(w, n)
      /\ phase'[w] = "failing" /\ seen'[w] = table[n].attempts
      /\ \A v \in Workers \ {w} : phase'[v] = phase[v] /\ seen'[v] = seen[v]
  BY DEF ReadFailed, IInv, TypeOK
<1>3. \A v \in Workers, m \in Notifications : IsNext(v, m)' <=> IsNext(v, m)
  BY <1>1, SameNext DEF IInv
<1>4. \A m \in Notifications \ {n} : ~IsNext(w, m)
  BY <1>2 DEF IsNext, Held, IInv, TypeOK
<1>5. AbsentIsUntouched' /\ ClaimsAreFenced' /\ DeadOnlyWhenExhausted' /\ PublishedWasSent'
  BY <1>1 DEF IInv, AbsentIsUntouched, ClaimsAreFenced, DeadOnlyWhenExhausted, PublishedWasSent
<1>6. EachAttemptSentOnce' /\ SentIsRecorded'
  BY <1>1, <1>2, <1>3 DEF IInv, EachAttemptSentOnce, SentIsRecorded
<1>7. ReadIsPast'
  <2> SUFFICES ASSUME NEW v \in Workers, NEW m \in Notifications,
                      phase'[v] = "failing", IsNext(v, m)
               PROVE  seen'[v] <= table[m].attempts
    BY <1>1, <1>3 DEF ReadIsPast
  <2>1. table[m].attempts \in Nat
    BY DEF IInv, TypeOK, Row, Attempts
  <2>2. CASE v = w
    BY <2>1, <2>2, <1>2, <1>4
  <2>3. CASE v # w
    BY <2>3, <1>2 DEF IInv, ReadIsPast
  <2> QED
    BY <2>2, <2>3
<1> QED
  BY <1>5, <1>6, <1>7 DEF IInv

\* Marking a row: the status becomes s and the worker moves on.  The mark is
\* sound for the invariant if a published row was sent, a dead one exhausted.
LEMMA MarkStep ==
  ASSUME IInv, TypeOK', NEW w \in Workers, NEW n \in Notifications,
         NEW s \in {"published", "failed", "dead"},
         IsNext(w, n), Advance(w, n),
         table' = [table EXCEPT ![n].status = s],
         UNCHANGED <<created, sends>>,
         \A v \in Workers \ {w} : seen'[v] = seen[v],
         s = "published" => sends[n] # {},
         s = "dead" => table[n].attempts = MaxAttempts
  PROVE  IInv'
<1> USE OutboxAssumption
<1>1. /\ claim'[w][n] = 0
      /\ \A m \in Notifications \ {n} : claim'[w][m] = claim[w][m]
      /\ \A v \in Workers \ {w} : claim'[v] = claim[v] /\ phase'[v] = phase[v]
      /\ phase'[w] \in {"scan", "publish"}
  BY AdvanceEffect DEF IInv
<1>2. /\ table'[n].status = s /\ table'[n].attempts = table[n].attempts
      /\ \A m \in Notifications \ {n} : table'[m] = table[m]
  BY DEF IInv, TypeOK, Row
<1>3. \A v \in Workers \ {w}, m \in Notifications : IsNext(v, m)' <=> IsNext(v, m)
  BY <1>1, SameNext DEF IInv
<1>4. \A m \in Notifications \ {n} : claim[w][m] \notin sends[m]
  <2> SUFFICES ASSUME NEW m \in Notifications \ {n}, claim[w][m] \in sends[m]
               PROVE  FALSE
    OBVIOUS
  <2>1. IsNext(w, m)
    BY DEF IInv, EachAttemptSentOnce
  <2> QED
    BY <2>1 DEF IsNext, Held, IInv, TypeOK
<1>5. 0 \notin sends[n]
  BY DEF IInv, TypeOK
<1>6. AbsentIsUntouched' /\ PublishedWasSent' /\ DeadOnlyWhenExhausted'
  BY <1>2 DEF IInv, AbsentIsUntouched, PublishedWasSent, DeadOnlyWhenExhausted
<1>7. ClaimsAreFenced'
  <2> SUFFICES ASSUME NEW v \in Workers, NEW m \in Notifications
               PROVE  /\ claim'[v][m] <= table'[m].attempts
                      /\ \A u \in Workers \ {v} :
                           claim'[v][m] # 0 => claim'[u][m] # claim'[v][m]
    BY DEF ClaimsAreFenced
  <2>1. table'[m].attempts = table[m].attempts /\ table[m].attempts \in Nat
    BY <1>2 DEF IInv, TypeOK, Row, Attempts
  <2>2. \A u \in Workers : claim'[u][m] = claim[u][m] \/ claim'[u][m] = 0
    BY <1>1
  <2> QED
    BY <2>1, <2>2 DEF IInv, ClaimsAreFenced
<1>8. EachAttemptSentOnce'
  <2> SUFFICES ASSUME NEW v \in Workers, NEW m \in Notifications
               PROVE  /\ claim'[v][m] \in sends[m] =>
                            phase'[v] # "publish" /\ IsNext(v, m)'
                      /\ \A k \in sends[m] : k <= table'[m].attempts
    BY DEF EachAttemptSentOnce
  <2>1. \A k \in sends[m] : k <= table'[m].attempts
    BY <1>2 DEF IInv, EachAttemptSentOnce
  <2>2. CASE v = w
    BY <2>1, <2>2, <1>1, <1>4, <1>5
  <2>3. CASE v # w
    BY <2>1, <2>3, <1>1, <1>3 DEF IInv, EachAttemptSentOnce
  <2> QED
    BY <2>2, <2>3
<1>9. SentIsRecorded'
  BY <1>1, <1>3 DEF IInv, SentIsRecorded
<1>10. ReadIsPast'
  BY <1>1, <1>2, <1>3 DEF IInv, ReadIsPast
<1> QED
  BY <1>6, <1>7, <1>8, <1>9, <1>10 DEF IInv

LEMMA MarkPublishedStep ==
  ASSUME IInv, TypeOK', NEW w \in Workers, NEW n \in Notifications, MarkPublished(w, n)
  PROVE  IInv'
<1>1. sends[n] # {}
  BY DEF MarkPublished, IInv, SentIsRecorded
<1>2. /\ IsNext(w, n) /\ Advance(w, n)
      /\ table' = [table EXCEPT ![n].status = "published"]
      /\ UNCHANGED <<created, sends, seen>>
  BY DEF MarkPublished
<1> QED
  BY <1>1, <1>2, MarkStep

LEMMA MarkFailedStep ==
  ASSUME IInv, TypeOK', NEW w \in Workers, NEW n \in Notifications, MarkFailed(w, n)
  PROVE  IInv'
<1> USE OutboxAssumption
<1>1. PICK s \in {"failed", "dead"} :
        /\ table' = [table EXCEPT ![n].status = s]
        /\ s = "dead" => seen[w] >= MaxAttempts
  BY DEF MarkFailed, Exhausted
<1>2. s = "dead" => table[n].attempts = MaxAttempts
  <2>1. seen[w] <= table[n].attempts
    BY DEF MarkFailed, Exhausted, IInv, ReadIsPast
  <2>2. table[n].attempts \in 0 .. MaxAttempts /\ seen[w] \in 0 .. MaxAttempts
    BY DEF IInv, TypeOK, Row, Attempts
  <2> QED
    BY <1>1, <2>1, <2>2
<1>3. /\ IsNext(w, n) /\ Advance(w, n)
      /\ UNCHANGED <<created, sends>>
      /\ \A v \in Workers \ {w} : seen'[v] = seen[v]
  BY DEF MarkFailed, Exhausted, IInv, TypeOK
<1> QED
  BY <1>1, <1>2, <1>3, MarkStep

LEMMA LoseBatchStep ==
  ASSUME IInv, TypeOK', NEW w \in Workers, LoseBatch(w)
  PROVE  IInv'
<1> USE OutboxAssumption
<1>1. UNCHANGED <<table, created, sends>>
  BY DEF LoseBatch
<1>2. /\ \A n \in Notifications : claim'[w][n] = 0
      /\ phase'[w] = "scan"
      /\ \A v \in Workers \ {w} :
           claim'[v] = claim[v] /\ phase'[v] = phase[v] /\ seen'[v] = seen[v]
  BY DEF LoseBatch, IInv, TypeOK
<1>3. \A v \in Workers \ {w}, m \in Notifications : IsNext(v, m)' <=> IsNext(v, m)
  BY <1>1, <1>2, SameNext DEF IInv
<1>4. \A m \in Notifications : 0 \notin sends[m]
  BY DEF IInv, TypeOK
<1>5. AbsentIsUntouched' /\ PublishedWasSent' /\ DeadOnlyWhenExhausted'
  BY <1>1 DEF IInv, AbsentIsUntouched, PublishedWasSent, DeadOnlyWhenExhausted
<1>6. ClaimsAreFenced'
  <2>1. \A n \in Notifications : table[n].attempts \in Nat
    BY DEF IInv, TypeOK, Row, Attempts
  <2> QED
    BY <1>1, <1>2, <2>1 DEF IInv, ClaimsAreFenced
<1>7. EachAttemptSentOnce'
  BY <1>1, <1>2, <1>3, <1>4 DEF IInv, EachAttemptSentOnce
<1>8. SentIsRecorded' /\ ReadIsPast'
  BY <1>1, <1>2, <1>3 DEF IInv, SentIsRecorded, ReadIsPast
<1> QED
  BY <1>5, <1>6, <1>7, <1>8 DEF IInv

\* Steps that touch none of the variables the invariant reads.
LEMMA IdleStep ==
  ASSUME IInv, TypeOK', UNCHANGED <<table, created, claim, phase, seen, sends>>
  PROVE  IInv'
BY DEF IInv, AbsentIsUntouched, ClaimsAreFenced, EachAttemptSentOnce, SentIsRecorded,
       ReadIsPast, PublishedWasSent, DeadOnlyWhenExhausted, IsNext, Held

-----------------------------------------------------------------------------
\* IInv is an inductive invariant of the outbox.
THEOREM OutboxInvariant == Spec => []IInv
<1>1. IInv /\ [Next]_vars => IInv'
  <2> SUFFICES ASSUME IInv, [Next]_vars PROVE IInv'
    OBVIOUS
  <2>1. TypeOK'
    BY TypeStep DEF IInv
  <2>2. ASSUME NEW n \in Notifications, Enqueue(n) PROVE IInv'
    BY <2>1, <2>2, EnqueueStep
  <2>3. ASSUME NEW n \in Notifications, DelayElapses(n) PROVE IInv'
    BY <2>1, <2>3, IdleStep DEF DelayElapses
  <2>4. ASSUME NEW w \in Workers, Work(w) PROVE IInv'
    BY <2>1, <2>4, ClaimStep, PublishStep, ReadStep, MarkPublishedStep, MarkFailedStep
       DEF Work
  <2>5. ASSUME NEW w \in Workers, LoseBatch(w) PROVE IInv'
    BY <2>1, <2>5, LoseBatchStep
  <2>6. CASE UNCHANGED vars
    BY <2>1, <2>6, IdleStep DEF vars, outboxVars
  <2> QED
    BY <2>2, <2>3, <2>4, <2>5, <2>6 DEF Next
<1> QED
  BY <1>1, InitIInv, PTL DEF Spec

\* The variables of the outbox keep their types.
THEOREM TypeCorrect == Spec => []TypeOK
<1>1. IInv => TypeOK
  BY DEF IInv
<1> QED
  BY <1>1, OutboxInvariant, PTL

\* Two workers never hold a row under the same attempt number, for any number
\* of back-end instances (claim_due).
THEOREM Fencing == Spec => []ClaimsAreFenced
<1>1. IInv => ClaimsAreFenced
  BY DEF IInv
<1> QED
  BY <1>1, OutboxInvariant, PTL

\* No attempt number is sent twice, so no notification is sent more than
\* MaxAttempts times, however slow the workers are (run_once).
THEOREM BoundedSends == Spec => []EachAttemptSentOnce
<1>1. IInv => EachAttemptSentOnce
  BY DEF IInv
<1> QED
  BY <1>1, OutboxInvariant, PTL

\* A published row was sent, and a dead one has used all its attempts, whoever
\* else may hold the row while it is marked (mark_published, mark_failed).
THEOREM StatusTrue == Spec => []StatusIsTrue
<1>1. IInv => StatusIsTrue
  BY DEF IInv, StatusIsTrue
<1> QED
  BY <1>1, OutboxInvariant, PTL

-----------------------------------------------------------------------------
\* While workers are prompt, HeldByOne is kept by every step.
LEMMA HolderStep ==
  ASSUME IInv, HeldByOne, Prompt, [Next]_vars, TypeOK'
  PROVE  HeldByOne'
<1> USE OutboxAssumption
<1>1. ASSUME NEW n \in Notifications, Enqueue(n) PROVE HeldByOne'
  <2>1. \A v \in Workers : claim[v][n] = 0
    BY <1>1 DEF Enqueue, HeldByOne
  <2>2. \A m \in Notifications \ {n} : table'[m] = table[m] /\ (m \in due' <=> m \in due)
    BY <1>1 DEF Enqueue, IInv, TypeOK
  <2> QED
    BY <1>1, <2>1, <2>2 DEF Enqueue, HeldByOne
<1>2. ASSUME NEW n \in Notifications, DelayElapses(n) PROVE HeldByOne'
  BY <1>2 DEF DelayElapses, HeldByOne, HeldByAny, Held, Prompt
<1>3. ASSUME NEW w \in Workers, ClaimDue(w) PROVE HeldByOne'
  <2>1. PICK batch \in SUBSET {n \in Notifications : Claimable(n)} :
          /\ table' = [n \in Notifications |->
                         IF n \in batch
                         THEN [status |-> "publishing",
                               attempts |-> table[n].attempts + 1]
                         ELSE table[n]]
          /\ due' = due \ batch
          /\ claim' = [claim EXCEPT ![w] =
                         [n \in Notifications |->
                            IF n \in batch THEN table[n].attempts + 1 ELSE 0]]
    BY <1>3 DEF ClaimDue, Claimed, Lease
  <2>2. \A n \in batch, v \in Workers : claim[v][n] = 0
    BY <2>1 DEF Claimable, HeldByOne
  <2>3. \A n \in batch :
          /\ table'[n].status = "publishing" /\ n \notin due'
          /\ claim'[w][n] = table'[n].attempts
    BY <2>1 DEF IInv, TypeOK
  <2>4. \A n \in Notifications \ batch :
          /\ table'[n] = table[n] /\ (n \in due' <=> n \in due)
          /\ claim'[w][n] = 0
    BY <2>1 DEF IInv, TypeOK
  <2>5. \A v \in Workers \ {w} : claim'[v] = claim[v]
    BY <2>1 DEF IInv, TypeOK
  <2> QED
    BY <2>2, <2>3, <2>4, <2>5 DEF HeldByOne
<1>4. ASSUME NEW w \in Workers, NEW n \in Notifications,
             PublishReturns(w, n) \/ PublishRaises(w, n) \/ ReadFailed(w, n)
      PROVE  HeldByOne'
  BY <1>4 DEF PublishReturns, PublishRaises, ReadFailed, HeldByOne
<1>5. ASSUME NEW w \in Workers, NEW n \in Notifications,
             MarkPublished(w, n) \/ MarkFailed(w, n)
      PROVE  HeldByOne'
  <2>1. IsNext(w, n) /\ Advance(w, n)
    BY <1>5 DEF MarkPublished, MarkFailed, Exhausted
  <2>2. /\ claim'[w][n] = 0
        /\ \A m \in Notifications \ {n} : claim'[w][m] = claim[w][m]
        /\ \A v \in Workers \ {w} : claim'[v] = claim[v]
    BY <2>1, AdvanceEffect DEF IInv
  <2>3. \A v \in Workers : claim'[v][n] = 0
    BY <2>1, <2>2 DEF IsNext, Held, HeldByOne
  <2>4. \A m \in Notifications \ {n} : table'[m] = table[m] /\ (m \in due' => m \in due)
    BY <1>5 DEF MarkPublished, MarkFailed, Exhausted, IInv, TypeOK
  <2> QED
    BY <2>2, <2>3, <2>4 DEF HeldByOne
<1>6. ASSUME NEW w \in Workers, LoseBatch(w) PROVE HeldByOne'
  <2>1. /\ \A n \in Notifications : claim'[w][n] = 0
        /\ \A v \in Workers \ {w} : claim'[v] = claim[v]
        /\ UNCHANGED <<table, due>>
    BY <1>6 DEF LoseBatch, IInv, TypeOK
  <2> QED
    BY <2>1 DEF HeldByOne
<1>7. CASE UNCHANGED vars
  BY <1>7 DEF vars, outboxVars, HeldByOne
<1> QED
  BY <1>1, <1>2, <1>3, <1>4, <1>5, <1>6, <1>7 DEF Next, Work

\* What may go wrong in a behaviour is fixed.
LEMMA FaultsStand == [Next]_vars => faults' = faults
BY DEF Next, vars

\* If no lease runs out under a busy worker, a row is in at most one batch
\* and its holder holds the current attempt (claim_due, run_once).
THEOREM SingleHolder == Spec => []OneHolder
<1>1. Init => OneHolder
  BY DEF Init, OneHolder, HeldByOne
<1>2. IInv /\ IInv' /\ OneHolder /\ [Next]_vars => OneHolder'
  <2> SUFFICES ASSUME IInv, IInv', OneHolder, [Next]_vars, Prompt'
               PROVE  HeldByOne'
    BY DEF OneHolder
  <2>1. Prompt
    BY FaultsStand DEF Prompt
  <2> QED
    BY <2>1, HolderStep DEF IInv, OneHolder
<1> QED
  BY <1>1, <1>2, OutboxInvariant, PTL DEF Spec

-----------------------------------------------------------------------------
\* The abstract state of the outbox, and when a step leaves it alone.
LEMMA FateOf ==
  ASSUME NEW n \in Notifications
  PROVE  /\ table[n].status = "none" => Fate[n] = "none"
         /\ table[n].status = "published" => Fate[n] = "confirmed"
         /\ table[n].status = "dead" => Fate[n] = "abandoned"
         /\ table[n].status \in {"pending", "publishing", "failed"} => Fate[n] = "owed"
BY DEF Fate

LEMMA FateOfNext ==
  ASSUME NEW n \in Notifications
  PROVE  /\ table'[n].status = "none" => Fate'[n] = "none"
         /\ table'[n].status = "published" => Fate'[n] = "confirmed"
         /\ table'[n].status = "dead" => Fate'[n] = "abandoned"
         /\ table'[n].status \in {"pending", "publishing", "failed"} => Fate'[n] = "owed"
BY DEF Fate

\* A change of one row's fate is an EXCEPT on Fate.
LEMMA FateChange ==
  ASSUME NEW n \in Notifications, NEW f,
         Fate'[n] = f,
         \A m \in Notifications \ {n} : table'[m].status = table[m].status
  PROVE  Fate' = [Fate EXCEPT ![n] = f]
<1>1. Fate = [m \in Notifications |-> Fate[m]] /\ Fate' = [m \in Notifications |-> Fate'[m]]
  BY DEF Fate
<1>2. \A m \in Notifications \ {n} : Fate'[m] = Fate[m]
  BY DEF Fate
<1> QED
  BY <1>1, <1>2

LEMMA FateSame ==
  ASSUME \A m \in Notifications : Fate'[m] = Fate[m]
  PROVE  Fate' = Fate
BY DEF Fate

\* Every step of the outbox is a step of the promise or leaves it alone.
LEMMA PromiseStep ==
  ASSUME IInv, HeldByOne, Prompt, [Next]_vars, TypeOK'
  PROVE  [Promise!Next]_<<Fate, Sent>>
<1> USE OutboxAssumption
<1>1. ASSUME NEW n \in Notifications, Enqueue(n)
      PROVE  Promise!Owe(n)
  <2>1. /\ table[n].status = "none" /\ table'[n].status = "pending"
        /\ \A m \in Notifications \ {n} : table'[m].status = table[m].status
        /\ UNCHANGED sends
    BY <1>1 DEF Enqueue, IInv, TypeOK
  <2>2. Fate[n] = "none" /\ Fate' = [Fate EXCEPT ![n] = "owed"]
    BY <2>1, FateOf, FateOfNext, FateChange
  <2> QED
    BY <2>1, <2>2 DEF Promise!Owe, Sent
<1>2. ASSUME NEW n \in Notifications, DelayElapses(n)
      PROVE  UNCHANGED <<Fate, Sent>>
  BY <1>2 DEF DelayElapses, Fate, Sent
<1>3. ASSUME NEW w \in Workers, ClaimDue(w)
      PROVE  UNCHANGED <<Fate, Sent>>
  <2>1. PICK batch \in SUBSET {n \in Notifications : Claimable(n)} :
          table' = [n \in Notifications |->
                      IF n \in batch
                      THEN [status |-> "publishing",
                            attempts |-> table[n].attempts + 1]
                      ELSE table[n]]
    BY <1>3 DEF ClaimDue, Claimed, Lease
  <2>2. \A n \in batch : Fate[n] = "owed" /\ Fate'[n] = "owed"
    BY <2>1, FateOf, FateOfNext DEF Claimable
  <2>3. \A n \in Notifications \ batch : Fate'[n] = Fate[n]
    BY <2>1 DEF Fate
  <2>4. Fate' = Fate
    BY <2>2, <2>3, FateSame
  <2> QED
    BY <1>3, <2>4 DEF ClaimDue, Claimed, Lease, Sent
<1>4. ASSUME NEW w \in Workers, NEW n \in Notifications,
             PublishReturns(w, n) \/ PublishRaises(w, n)
      PROVE  Promise!Deliver(n) \/ UNCHANGED <<Fate, Sent>>
  <2>1. /\ IsNext(w, n) /\ UNCHANGED table
        /\ sends' \in {sends, [sends EXCEPT ![n] = @ \cup {claim[w][n]}]}
    BY <1>4 DEF PublishReturns, PublishRaises
  <2>2. Fate[n] = "owed" /\ UNCHANGED Fate
    BY <2>1, FateOf DEF IsNext, Held, HeldByOne, Fate
  <2>3. CASE sends' = sends
    BY <2>2, <2>3 DEF Sent
  <2>4. CASE sends' = [sends EXCEPT ![n] = @ \cup {claim[w][n]}]
    <3>1. sends'[n] # {} /\ \A m \in Notifications \ {n} : sends'[m] = sends[m]
      BY <2>4 DEF IInv, TypeOK
    <3>2. Sent' = [Sent EXCEPT ![n] = TRUE]
      BY <3>1 DEF Sent
    <3> QED
      BY <2>2, <3>2 DEF Promise!Deliver, Sent
  <2> QED
    BY <2>1, <2>3, <2>4
<1>5. ASSUME NEW w \in Workers, NEW n \in Notifications, MarkPublished(w, n)
      PROVE  Promise!Confirm(n)
  <2>1. /\ table[n].status = "publishing" /\ table'[n].status = "published"
        /\ \A m \in Notifications \ {n} : table'[m].status = table[m].status
        /\ UNCHANGED sends
    BY <1>5 DEF MarkPublished, IsNext, Held, HeldByOne, IInv, TypeOK
  <2>2. Fate[n] = "owed" /\ Fate' = [Fate EXCEPT ![n] = "confirmed"]
    BY <2>1, FateOf, FateOfNext, FateChange
  <2>3. sends[n] # {}
    BY <1>5 DEF MarkPublished, IInv, SentIsRecorded
  <2> QED
    BY <2>1, <2>2, <2>3 DEF Promise!Confirm, Sent
<1>6. ASSUME NEW w \in Workers, NEW n \in Notifications, MarkFailed(w, n)
      PROVE  Promise!Abandon(n) \/ UNCHANGED <<Fate, Sent>>
  <2>1. PICK s \in {"failed", "dead"} : table' = [table EXCEPT ![n].status = s]
    BY <1>6 DEF MarkFailed, Exhausted
  <2>2. /\ table[n].status = "publishing" /\ table'[n].status = s
        /\ \A m \in Notifications \ {n} : table'[m].status = table[m].status
        /\ UNCHANGED sends
    BY <1>6, <2>1 DEF MarkFailed, Exhausted, IsNext, Held, HeldByOne, IInv, TypeOK
  <2>3. Fate[n] = "owed"
    BY <2>2, FateOf
  <2>4. CASE s = "dead"
    <3>1. Fate' = [Fate EXCEPT ![n] = "abandoned"]
      BY <2>2, <2>4, FateOfNext, FateChange
    <3> QED
      BY <2>2, <2>3, <3>1 DEF Promise!Abandon, Sent
  <2>5. CASE s = "failed"
    <3>1. \A m \in Notifications : Fate'[m] = Fate[m]
      BY <2>2, <2>3, <2>5, FateOfNext DEF Fate
    <3> QED
      BY <2>2, <3>1, FateSame DEF Sent
  <2> QED
    BY <2>4, <2>5
<1>7. ASSUME NEW w \in Workers, NEW n \in Notifications, ReadFailed(w, n)
      PROVE  UNCHANGED <<Fate, Sent>>
  BY <1>7 DEF ReadFailed, Fate, Sent
<1>8. ASSUME NEW w \in Workers, LoseBatch(w)
      PROVE  UNCHANGED <<Fate, Sent>>
  BY <1>8 DEF LoseBatch, Fate, Sent
<1>9. CASE UNCHANGED vars
  BY <1>9 DEF vars, outboxVars, Fate, Sent
<1> QED
  BY <1>1, <1>2, <1>3, <1>4, <1>5, <1>6, <1>7, <1>8, <1>9 DEF Next, Work, Promise!Next

\* If no lease runs out under a busy worker, the outbox implements what it
\* promises: a confirmed notification was delivered, and confirmed or
\* abandoned ones are final.
THEOREM OutboxKeepsPromise == Spec => KeepsPromise
<1>1. Init => Promise!Init
  <2> SUFFICES ASSUME Init PROVE Promise!Init
    OBVIOUS
  <2>1. \A n \in Notifications : table[n].status = "none" /\ ~(sends[n] # {})
    BY DEF Init
  <2>2. Fate = [n \in Notifications |-> "none"]
    BY <2>1 DEF Fate
  <2>3. Sent = [n \in Notifications |-> FALSE]
    BY <2>1, Zenon DEF Sent
  <2> QED
    BY <2>2, <2>3 DEF Promise!Init
<1>2. IInv /\ IInv' /\ OneHolder /\ [Next]_vars
        => (Prompt => [Promise!Next]_<<Fate, Sent>>)
  BY PromiseStep DEF IInv, OneHolder
<1> QED
  BY <1>1, <1>2, OutboxInvariant, SingleHolder, PTL DEF Spec, KeepsPromise
=============================================================================
