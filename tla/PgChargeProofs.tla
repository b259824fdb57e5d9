--------------------------- MODULE PgChargeProofs ---------------------------
(***************************************************************************)
(* For any keys, any number of concurrent calls and any faults: the state  *)
(* of PgCharge is well typed, money is taken at most once under a key, and *)
(* the gateway records and replies "success" only for money that was taken.*)
(*                                                                         *)
(* The inductive invariant follows a success backwards: from the gateway's *)
(* row and replies to what its handler heard, from there to the answer of  *)
(* the card handler it waits for, and from there to the card company's     *)
(* row.  It needs that a waiting handler and its card handler are about    *)
(* the same key, and that a key with a good token has no other row than a  *)
(* success: an answer made up without looking at the row that was found    *)
(* (CardCreate) is then right all the same.                                *)
(*                                                                         *)
(* With calls that do not overlap, a card company that answers and a       *)
(* database that works, the two implement ChargeService: a failure then    *)
(* has a bad billing key or a bad token as its reason, so that nothing is  *)
(* taken after it.                                                         *)
(***************************************************************************)
EXTENDS PgCharge, TLAPS

Taken(k) == cardTx[k].status = "success"

CountMatches == \A k \in Keys : charges[k] = IF Taken(k) THEN 1 ELSE 0

TokenDecides == \A k \in Keys : TokenGood(k) => cardTx[k] = NoRow \/ Taken(k)

SameKey ==
  \A c \in Calls :
    /\ pc[c] \in {"look", "reject", "create", "send"} => cardPc[c] = "idle"
    /\ pc[c] = "wait" => cardKey[c] = key[c]

AnswerTrue ==
  \A c \in Calls : answer[c].status = "success" =>
    cardPc[c] = "done" /\ cardKey[c] \in Keys /\ Taken(cardKey[c])

HeardTrue ==
  \A c \in Calls :
    /\ heard[c].status = "success" => key[c] \in Keys /\ Taken(key[c])
    /\ pc[c] = "approve" => heard[c].status = "success"
    /\ pc[c] = "idle" => heard[c].status # "success"

RecordTrue == \A k \in Keys : pgTx[k].status = "success" => Taken(k)

RepliesTrue == \A k \in Keys, row \in Row : <<k, row>> \in told /\ row.status = "success" => Taken(k)

IInv ==
  /\ TypeOK
  /\ CountMatches
  /\ TokenDecides
  /\ SameKey
  /\ AnswerTrue
  /\ HeardTrue
  /\ RecordTrue
  /\ RepliesTrue

LEMMA PlainRow ==
  ASSUME NEW st \in {"none", "pending", "success", "failed"}
  PROVE  Plain(st) \in Row /\ Plain(st).status = st
BY DEF Plain, Row

\* What a card handler may insert is a row, a success if the token is good.
LEMMA ApprovalRow ==
  ASSUME NEW c \in Calls, NEW k \in Keys
  PROVE  /\ Approval(c, k) \in Row
         /\ Approval(c, k).status = "success" <=> TokenGood(k)
         /\ Approval(c, k).status # "pending"
BY DEF Approval, Plain, Row, TokenGood

LEMMA InitIInv == Init => IInv
BY DEF Init, IInv, TypeOK, CountMatches, TokenDecides, SameKey, AnswerTrue, HeardTrue,
       RecordTrue, RepliesTrue, Taken, NoRow, Plain, Row, PgPcs, CardPcs

-----------------------------------------------------------------------------
(* The card handler.                                                       *)

LEMMA CardLookInv ==
  ASSUME IInv, UNCHANGED faults, NEW c \in Calls, CardLook(c)
  PROVE  IInv'
<1> DEFINE k == cardKey[c]
<1> USE DEF IInv
<1>1. k \in Keys /\ cardTx[k] \in Row
  BY DEF CardLook, TypeOK
<1>2. CASE CardAnswers(c, cardTx[k])
  BY <1>1, <1>2 DEF CardLook, CardAnswers, TypeOK, CountMatches, TokenDecides, SameKey,
       AnswerTrue, HeardTrue, RecordTrue, RepliesTrue, Taken, TokenGood, pgVars, CardPcs
<1>3. CASE /\ cardPc' = [cardPc EXCEPT ![c] = "create"]
           /\ UNCHANGED <<cardKey, answer>>
  BY <1>1, <1>3 DEF CardLook, TypeOK, CountMatches, TokenDecides, SameKey,
       AnswerTrue, HeardTrue, RecordTrue, RepliesTrue, Taken, TokenGood, pgVars, CardPcs
<1> QED
  BY <1>2, <1>3 DEF CardLook

LEMMA CardCreateInv ==
  ASSUME IInv, UNCHANGED faults, NEW c \in Calls, CardCreate(c)
  PROVE  IInv'
<1> USE DEF IInv
<1> PICK k \in Keys : k = cardKey[c]
  BY DEF CardCreate, TypeOK
<1>1. /\ Approval(c, k) \in Row
      /\ Approval(c, k).status = "success" <=> TokenGood(k)
      /\ Approval(c, k).status # "pending"
      /\ NoRow \in Row /\ NoRow.status = "none"
  BY ApprovalRow, PlainRow DEF CardCreate, TypeOK, NoRow
<1>2. CASE /\ cardTx[k] = NoRow
           /\ cardTx' = [cardTx EXCEPT ![k] = Approval(c, k)]
           /\ charges' = [charges EXCEPT ![k] = IF TokenGood(k) THEN @ + 1 ELSE @]
           /\ CardAnswers(c, Approval(c, k))
  <2>1. \A j \in Keys : Taken(j) => Taken(j)'
    BY <1>1, <1>2 DEF Taken, TypeOK
  <2>2. Taken(k)' <=> TokenGood(k)
    BY <1>1, <1>2 DEF Taken, TokenGood, TypeOK
  <2>3. TypeOK'
    <3>1. cardTx' \in [Keys -> Row] /\ \A j \in Keys : cardTx'[j].status # "pending"
      BY <1>1, <1>2 DEF TypeOK
    <3>2. charges' \in [Keys -> Nat]
      BY <1>1, <1>2 DEF TypeOK
    <3>3. answer' \in [Calls -> Row] /\ cardPc' \in [Calls -> CardPcs]
      BY <1>1, <1>2 DEF CardAnswers, TypeOK, CardPcs
    <3>4. \A d \in Calls : cardPc'[d] # "idle" => cardKey'[d] \in Keys
      BY <1>1, <1>2 DEF CardAnswers, TypeOK
    <3> QED
      BY <1>2, <3>1, <3>2, <3>3, <3>4 DEF CardCreate, CardAnswers, TypeOK, pgVars
  <2>4. CountMatches'
    <3>1. charges[k] = 0
      BY <1>1, <1>2 DEF CountMatches, Taken
    <3>2. charges' = [charges EXCEPT ![k] = IF TokenGood(k) THEN 1 ELSE 0]
      BY <1>1, <1>2, <3>1 DEF TypeOK
    <3>3. \A j \in Keys \ {k} : charges'[j] = charges[j] /\ (Taken(j)' <=> Taken(j))
      BY <1>1, <1>2 DEF Taken, TypeOK
    <3>4. charges'[k] = IF TokenGood(k) THEN 1 ELSE 0
      BY <3>2 DEF TypeOK
    <3>5. charges'[k] = IF Taken(k)' THEN 1 ELSE 0
      BY <2>2, <3>4 DEF Taken, TokenGood
    <3> QED
      BY <3>3, <3>5 DEF CountMatches, Taken
  <2>5. TokenDecides' /\ SameKey'
    BY <1>1, <1>2, <2>2 DEF CardCreate, CardAnswers, TokenDecides, SameKey, Taken, TokenGood,
         TypeOK, pgVars
  <2>6. AnswerTrue'
    BY <1>1, <1>2, <2>1, <2>2 DEF CardAnswers, AnswerTrue, TypeOK
  <2>7. HeardTrue' /\ RecordTrue' /\ RepliesTrue'
    BY <2>1 DEF CardCreate, HeardTrue, RecordTrue, RepliesTrue, TypeOK, pgVars
  <2> QED
    BY <2>3, <2>4, <2>5, <2>6, <2>7
<1>3. CASE /\ cardTx[k] # NoRow
           /\ CardAnswers(c, Approval(c, k))
           /\ UNCHANGED <<cardTx, charges>>
  BY <1>1, <1>3 DEF CardCreate, CardAnswers, TypeOK, CountMatches, TokenDecides, SameKey,
       AnswerTrue, HeardTrue, RecordTrue, RepliesTrue, Taken, TokenGood, pgVars, CardPcs
<1>4. CASE CardAnswers(c, NoRow) /\ UNCHANGED <<cardTx, charges>>
  BY <1>1, <1>4 DEF CardCreate, CardAnswers, TypeOK, CountMatches, TokenDecides, SameKey,
       AnswerTrue, HeardTrue, RecordTrue, RepliesTrue, Taken, TokenGood, pgVars, CardPcs
<1> QED
  BY <1>2, <1>3, <1>4 DEF CardCreate

LEMMA CardUnheardInv ==
  ASSUME IInv, UNCHANGED faults, NEW c \in Calls, CardUnheard(c)
  PROVE  IInv'
BY PlainRow DEF IInv, CardUnheard, TypeOK, CountMatches, TokenDecides, SameKey, NoRow,
     AnswerTrue, HeardTrue, RecordTrue, RepliesTrue, Taken, TokenGood, pgVars, CardPcs

-----------------------------------------------------------------------------
(* The gateway's handler.                                                  *)

\* A reply that is true, or none, ends the handler; the tables may get a row
\* that is true.
LEMMA EndInv ==
  ASSUME IInv, UNCHANGED faults, NEW c \in Calls, key[c] \in Keys,
         UNCHANGED <<account, cardTx, charges, cardVars>>,
         Leave(c),
         NEW row \in Row, row.status = "success" => Taken(key[c]),
         told' \in {told, told \cup {<<key[c], row>>}},
         pgTx' \in {pgTx, [pgTx EXCEPT ![key[c]] = row]}
  PROVE  IInv'
<1> USE DEF IInv
<1>1. TypeOK'
  BY PlainRow DEF Leave, TypeOK, NoRow, PgPcs, cardVars
<1>2. CountMatches' /\ TokenDecides' /\ SameKey' /\ AnswerTrue'
  BY DEF Leave, CountMatches, TokenDecides, SameKey, AnswerTrue, Taken, TokenGood, TypeOK, cardVars
<1>3. HeardTrue'
  BY PlainRow DEF Leave, HeardTrue, Taken, TypeOK, NoRow
<1>4. RecordTrue' /\ RepliesTrue'
  BY DEF RecordTrue, RepliesTrue, Taken, TypeOK
<1> QED
  BY <1>1, <1>2, <1>3, <1>4

\* Going on, without a reply, to anywhere but "approve" and "wait".
LEMMA GotoInv ==
  ASSUME IInv, UNCHANGED faults, NEW c \in Calls, key[c] \in Keys,
         UNCHANGED <<account, cardTx, charges, told, cardVars>>,
         NEW to \in {"reject", "create", "send", "refuse", "except"},
         NEW from \in PgPcs, Goto(c, from, to),
         to \in {"reject", "create", "send"} => from \in {"look", "create"},
         NEW row \in Row, row.status # "success",
         pgTx' \in {pgTx, [pgTx EXCEPT ![key[c]] = row]}
  PROVE  IInv'
<1> USE DEF IInv
<1>1. TypeOK'
  BY DEF Goto, TypeOK, cardVars, PgPcs
<1>2. CountMatches' /\ TokenDecides' /\ SameKey' /\ AnswerTrue'
  BY DEF Goto, CountMatches, TokenDecides, SameKey, AnswerTrue, Taken, TokenGood, TypeOK, cardVars
<1>3. HeardTrue' /\ RecordTrue' /\ RepliesTrue'
  BY DEF Goto, HeardTrue, RecordTrue, RepliesTrue, Taken, TypeOK
<1> QED
  BY <1>1, <1>2, <1>3

LEMMA ChargeBeginInv ==
  ASSUME IInv, UNCHANGED faults, NEW c \in Calls, NEW k \in Keys, ChargeBegin(c, k)
  PROVE  IInv'
<1>1. heard[c].status # "success"
  BY DEF ChargeBegin, IInv, HeardTrue
<1> QED
  BY <1>1 DEF ChargeBegin, IInv, TypeOK, CountMatches, TokenDecides, SameKey,
     AnswerTrue, HeardTrue, RecordTrue, RepliesTrue, Taken, TokenGood, cardVars, PgPcs

\* A handler that is not idle has a key.
LEMMA KeyOf ==
  ASSUME IInv, NEW c \in Calls, pc[c] # "idle"
  PROVE  key[c] \in Keys
BY DEF IInv, TypeOK

LEMMA ChargeLookInv ==
  ASSUME IInv, UNCHANGED faults, NEW c \in Calls, ChargeLook(c)
  PROVE  IInv'
<1> DEFINE k == key[c]
<1>1. k \in Keys /\ pgTx[k] \in Row /\ (pgTx[k].status = "success" => Taken(k))
  BY KeyOf DEF ChargeLook, IInv, TypeOK, RecordTrue
<1>2. CASE Existing(k) /\ Reply(c, pgTx[k])
  BY <1>1, <1>2, EndInv DEF ChargeLook, Reply
<1>3. CASE Reply(c, Plain("failed"))
  BY <1>1, <1>3, EndInv, PlainRow DEF ChargeLook, Reply
<1>4. CASE /\ Goto(c, "look", IF account[k] = "inactive_billing_key" THEN "reject" ELSE "create")
           /\ UNCHANGED told
  BY <1>1, <1>4, GotoInv, PlainRow DEF ChargeLook, PgPcs
<1> QED
  BY <1>2, <1>3, <1>4 DEF ChargeLook

LEMMA ChargeRejectInv ==
  ASSUME IInv, UNCHANGED faults, NEW c \in Calls, ChargeReject(c)
  PROVE  IInv'
<1>1. key[c] \in Keys
  BY KeyOf DEF ChargeReject
<1> QED
  BY <1>1, EndInv, PlainRow DEF ChargeReject, Insert, Reply, Error

LEMMA ChargeCreateInv ==
  ASSUME IInv, UNCHANGED faults, NEW c \in Calls, ChargeCreate(c)
  PROVE  IInv'
<1> DEFINE k == key[c]
<1>1. k \in Keys
  BY KeyOf DEF ChargeCreate
<1>2. CASE Goto(c, "create", "send") /\ UNCHANGED told
  <2>1. pgTx' \in {pgTx, [pgTx EXCEPT ![k] = Plain("pending")]}
    BY <1>2 DEF ChargeCreate, Insert, Goto, Error, Leave
  <2>2. UNCHANGED <<account, cardTx, charges, told, cardVars>>
    BY <1>2 DEF ChargeCreate
  <2> QED
    BY <1>1, <1>2, <2>1, <2>2, GotoInv, PlainRow DEF PgPcs
<1>3. CASE pgTx[k] # NoRow /\ UNCHANGED pgTx /\ Error(c)
  BY <1>1, <1>3, EndInv, PlainRow DEF ChargeCreate, Error
<1> QED
  BY <1>2, <1>3 DEF ChargeCreate

LEMMA ChargeSendInv ==
  ASSUME IInv, UNCHANGED faults, NEW c \in Calls, ChargeSend(c)
  PROVE  IInv'
<1>1. key[c] \in Keys
  BY KeyOf DEF ChargeSend, Goto
<1>2. answer[c].status # "success"
  BY DEF ChargeSend, Goto, IInv, SameKey, AnswerTrue
<1> QED
  BY <1>1, <1>2 DEF ChargeSend, Goto, IInv, TypeOK, CountMatches, TokenDecides, SameKey,
     AnswerTrue, HeardTrue, RecordTrue, RepliesTrue, Taken, TokenGood, PgPcs, CardPcs

LEMMA ChargeHearsInv ==
  ASSUME IInv, UNCHANGED faults, NEW c \in Calls, ChargeHears(c)
  PROVE  IInv'
<1>1. key[c] \in Keys /\ cardKey[c] = key[c] /\ answer[c] \in Row
  BY KeyOf DEF ChargeHears, IInv, TypeOK, SameKey
<1>2. answer[c].status = "success" => Taken(key[c])
  BY <1>1 DEF IInv, AnswerTrue
<1>3. /\ pc'[c] \in {"except", "approve", "refuse"}
      /\ pc'[c] = "approve" => answer[c].status = "success"
  BY DEF ChargeHears, Accepted, IInv, TypeOK
<1>4. TypeOK'
  BY <1>1, <1>3 DEF ChargeHears, IInv, TypeOK, cardVars, PgPcs
<1>5. HeardTrue'
  BY <1>1, <1>2, <1>3 DEF ChargeHears, IInv, TypeOK, HeardTrue, Taken
<1>6. /\ CountMatches' /\ TokenDecides' /\ SameKey'
      /\ AnswerTrue' /\ RecordTrue' /\ RepliesTrue'
  BY <1>3 DEF ChargeHears, IInv, TypeOK, CountMatches, TokenDecides, SameKey, AnswerTrue,
     RecordTrue, RepliesTrue, Taken, TokenGood, cardVars
<1> QED
  BY <1>4, <1>5, <1>6 DEF IInv

LEMMA ChargeGivesUpInv ==
  ASSUME IInv, UNCHANGED faults, NEW c \in Calls, ChargeGivesUp(c)
  PROVE  IInv'
<1>1. key[c] \in Keys
  BY KeyOf DEF ChargeGivesUp, Goto
<1> QED
  BY <1>1, GotoInv, PlainRow DEF ChargeGivesUp, PgPcs

LEMMA ChargeApproveInv ==
  ASSUME IInv, UNCHANGED faults, NEW c \in Calls, ChargeApprove(c)
  PROVE  IInv'
<1>1. /\ key[c] \in Keys /\ Taken(key[c])
      /\ Approved(heard[c]) \in Row
  BY DEF ChargeApprove, IInv, HeardTrue, TypeOK, Approved, Row
<1> QED
  BY <1>1, EndInv DEF ChargeApprove, Settle, Reply

LEMMA ChargeFailInv ==
  ASSUME IInv, UNCHANGED faults, NEW c \in Calls, ChargeFail(c)
  PROVE  IInv'
<1>1. key[c] \in Keys
  BY KeyOf DEF ChargeFail
<1> QED
  BY <1>1, EndInv, PlainRow DEF ChargeFail, Settle, Reply

LEMMA RaiseInv ==
  ASSUME IInv, UNCHANGED faults, NEW c \in Calls, Raise(c)
  PROVE  IInv'
<1>1. key[c] \in Keys
  BY KeyOf DEF Raise, Goto
<1>2. CASE pc[c] = "except" /\ Error(c)
  BY <1>1, <1>2, EndInv, PlainRow DEF Raise, Error
<1>3. CASE (Goto(c, "approve", "except") \/ Goto(c, "refuse", "except")) /\ UNCHANGED told
  BY <1>1, <1>3, GotoInv, PlainRow DEF Raise, PgPcs
<1> QED
  BY <1>2, <1>3 DEF Raise

LEMMA CrashInv ==
  ASSUME IInv, UNCHANGED faults, NEW c \in Calls, Crash(c)
  PROVE  IInv'
<1>1. key[c] \in Keys
  BY KeyOf DEF Crash
<1> QED
  BY <1>1, EndInv, PlainRow DEF Crash, Error

LEMMA NextInv == IInv /\ [Next]_vars => IInv'
<1> SUFFICES ASSUME IInv, [Next]_vars PROVE IInv'
  OBVIOUS
<1> UNCHANGED faults
  BY DEF Next, vars
<1>1. CASE UNCHANGED vars
  BY <1>1 DEF vars, chargeVars, pgVars, cardVars, IInv, TypeOK, CountMatches, TokenDecides, SameKey,
     AnswerTrue, HeardTrue, RecordTrue, RepliesTrue, Taken, TokenGood
<1>2. ASSUME NEW c \in Calls, NEW k \in Keys, ChargeBegin(c, k) PROVE IInv'
  BY <1>2, ChargeBeginInv
<1>3. ASSUME NEW c \in Calls, Proceed(c) PROVE IInv'
  BY <1>3, ChargeLookInv, ChargeRejectInv, ChargeCreateInv, ChargeSendInv, ChargeHearsInv,
     ChargeGivesUpInv, ChargeApproveInv, ChargeFailInv DEF Proceed
<1>4. ASSUME NEW c \in Calls, Raise(c) \/ Crash(c) PROVE IInv'
  BY <1>4, RaiseInv, CrashInv
<1>5. ASSUME NEW c \in Calls, CardProceed(c) PROVE IInv'
  BY <1>5, CardLookInv, CardCreateInv, CardUnheardInv DEF CardProceed
<1> QED
  BY <1>1, <1>2, <1>3, <1>4, <1>5 DEF Next

\* The invariant the results below rest on, kept by every step of gateway and
\* card company (ChargeBillingKeyService, ApproveCardPaymentService).
THEOREM ChargeInvariant == Spec => []IInv
BY InitIInv, NextInv, PTL DEF Spec

\* The tables and handlers always hold what their columns allow.
THEOREM TypeCorrect == Spec => []TypeOK
<1>1. IInv => TypeOK
  BY DEF IInv
<1> QED
  BY <1>1, ChargeInvariant, PTL

\* Money is taken at most once under a key, and the gateway never records or
\* replies a success without it, with any number of concurrent calls of the
\* key and whatever fails between their steps.
THEOREM NoFalseSuccess == Spec => []SuccessIsCharged
<1>1. IInv => SuccessIsCharged
  BY DEF IInv, CountMatches, RecordTrue, RepliesTrue, SuccessIsCharged
<1> QED
  BY <1>1, ChargeInvariant, PTL

-----------------------------------------------------------------------------
(* With a card company that answers: what the back end takes it for.       *)

\* A token that is charged is good.
TakenIsGood == \A k \in Keys : Taken(k) => TokenGood(k)

\* What happens at the card company is on record at the gateway first.
Recorded ==
  /\ \A c \in Calls :
       /\ pc[c] \in {"send", "wait", "approve", "refuse", "except"} => pgTx[key[c]] # NoRow
       /\ cardPc[c] # "idle" => pgTx[cardKey[c]] # NoRow
  /\ \A k \in Keys : cardTx[k] # NoRow => pgTx[k] # NoRow

\* Calls of a key that do not overlap: one handler at the gateway, and one at a
\* time on its way to the card company, where nothing is on record yet.
Alone == \A c, d \in Calls :
  pc[c] # "idle" /\ pc[d] # "idle" /\ key[c] = key[d] => c = d

Charging(c, k) ==
  \/ pc[c] = "send" /\ key[c] = k
  \/ cardPc[c] \in {"look", "create"} /\ cardKey[c] = k

FirstCharge ==
  /\ \A c \in Calls : pc[c] \in {"reject", "create"} => pgTx[key[c]] = NoRow
  /\ \A k \in Keys, c \in Calls : Charging(c, k) => cardTx[k] = NoRow
  /\ \A k \in Keys, c, d \in Calls : Charging(c, k) /\ Charging(d, k) => c = d

\* A failure is a bad billing key or a bad token.
FailureJustified ==
  /\ \A k \in Keys, row \in Row : <<k, row>> \in told /\ row.status = "failed" => ~TokenGood(k)
  /\ \A k \in Keys : pgTx[k].status = "failed" => ~TokenGood(k)
  /\ \A c \in Calls :
       /\ pc[c] \in {"reject", "refuse", "except"} => ~TokenGood(key[c])
       /\ cardPc[c] = "done" /\ answer[c].status # "success" => ~TokenGood(cardKey[c])

ContractInv ==
  /\ TakenIsGood
  /\ Recorded
  /\ Dependable => Alone /\ FirstCharge /\ FailureJustified

\* The rows the handlers write, and what they say.
LEMMA RowKinds ==
  /\ NoRow \in Row /\ NoRow.status = "none"
  /\ Plain("failed") \in Row /\ Plain("failed").status = "failed"
  /\ Plain("pending") \in Row /\ Plain("pending").status = "pending"
  /\ \A row \in Row : Approved(row) \in Row /\ Approved(row).status = "success"
BY DEF NoRow, Plain, Approved, Row

\* The steps, one at a time.
LEMMA StepCases ==
  ASSUME [Next]_vars
  PROVE  /\ UNCHANGED faults
         /\ \/ UNCHANGED chargeVars
            \/ \E c \in Calls :
                 \/ \E k \in Keys : ChargeBegin(c, k)
                 \/ ChargeLook(c) \/ ChargeReject(c) \/ ChargeCreate(c) \/ ChargeSend(c)
                 \/ ChargeHears(c) \/ ChargeGivesUp(c) \/ ChargeApprove(c) \/ ChargeFail(c)
                 \/ Raise(c) \/ Crash(c)
                 \/ CardLook(c) \/ CardCreate(c) \/ CardUnheard(c)
BY DEF Next, vars, Proceed, CardProceed

\* A key's account is fixed, and a row that is there stays.
LEMMA RowsStay ==
  ASSUME IInv, [Next]_vars
  PROVE  /\ UNCHANGED account
         /\ \A k \in Keys : pgTx[k] # NoRow => pgTx'[k] # NoRow
         /\ \A k \in Keys : cardTx[k] # NoRow => cardTx'[k] # NoRow
<1> USE RowKinds DEF IInv, TypeOK, pgVars, cardVars
<1>1. CASE UNCHANGED chargeVars
  BY <1>1 DEF chargeVars
<1>2. ASSUME NEW c \in Calls,
             \/ \E k \in Keys : ChargeBegin(c, k)
             \/ ChargeLook(c) \/ ChargeSend(c) \/ ChargeHears(c) \/ ChargeGivesUp(c)
             \/ Raise(c) \/ Crash(c) \/ CardLook(c) \/ CardUnheard(c)
      PROVE  UNCHANGED <<account, pgTx, cardTx>>
  BY <1>2 DEF ChargeBegin, ChargeLook, ChargeSend, ChargeHears, ChargeGivesUp, Raise, Crash,
       CardLook, CardUnheard
<1>3. ASSUME NEW c \in Calls, ChargeReject(c) \/ ChargeCreate(c)
      PROVE  /\ UNCHANGED <<account, cardTx>>
             /\ \A k \in Keys : pgTx[k] # NoRow => pgTx'[k] # NoRow
  BY <1>3 DEF ChargeReject, ChargeCreate, Insert
<1>4. ASSUME NEW c \in Calls, ChargeApprove(c) \/ ChargeFail(c)
      PROVE  /\ UNCHANGED <<account, cardTx>>
             /\ \A k \in Keys : pgTx[k] # NoRow => pgTx'[k] # NoRow
  BY <1>4 DEF ChargeApprove, ChargeFail, Settle
<1>5. ASSUME NEW c \in Calls, CardCreate(c)
      PROVE  /\ UNCHANGED <<account, pgTx>>
             /\ \A k \in Keys : cardTx[k] # NoRow => cardTx'[k] # NoRow
  BY <1>5 DEF CardCreate
<1> QED
  BY <1>1, <1>2, <1>3, <1>4, <1>5, StepCases

\* Money is taken for good tokens only.
LEMMA GoodStep ==
  ASSUME IInv, TakenIsGood, [Next]_vars
  PROVE  TakenIsGood'
<1> USE DEF IInv, TypeOK
<1>1. UNCHANGED account
  BY RowsStay
<1>2. ASSUME NEW c \in Calls, CardCreate(c) PROVE TakenIsGood'
  <2> PICK k \in Keys : k = cardKey[c]
    BY <1>2 DEF CardCreate
  <2>1. \A j \in Keys \ {k} : cardTx'[j] = cardTx[j]
    BY <1>2 DEF CardCreate
  <2>2. cardTx'[k] \in {cardTx[k], Approval(c, k)}
    BY <1>2 DEF CardCreate
  <2>3. Approval(c, k).status = "success" <=> TokenGood(k)
    BY ApprovalRow
  <2> QED
    BY <1>1, <2>1, <2>2, <2>3 DEF TakenIsGood, Taken, TokenGood
<1>3. UNCHANGED cardTx \/ \E c \in Calls : CardCreate(c)
  BY StepCases DEF chargeVars, ChargeBegin, ChargeLook, ChargeReject, ChargeCreate, ChargeSend,
     ChargeHears, ChargeGivesUp, ChargeApprove, ChargeFail, Raise, Crash, CardLook, CardUnheard, cardVars
<1>4. CASE UNCHANGED cardTx
  BY <1>1, <1>4 DEF TakenIsGood, Taken, TokenGood
<1> QED
  BY <1>2, <1>3, <1>4

\* What is sent to the card company is on record.
LEMMA RecordedStep ==
  ASSUME IInv, TypeOK', Recorded, [Next]_vars
  PROVE  Recorded'
<1> USE RowKinds, RowsStay DEF IInv, TypeOK, Recorded, pgVars, cardVars, Goto, Leave, Error, Reply,
          CardAnswers
<1>1. CASE UNCHANGED chargeVars
  BY <1>1 DEF chargeVars
<1>2. ASSUME NEW c \in Calls,
             \/ \E k \in Keys : ChargeBegin(c, k)
             \/ ChargeLook(c) \/ ChargeReject(c) \/ Raise(c) \/ Crash(c)
      PROVE  Recorded'
  BY <1>2 DEF ChargeBegin, ChargeLook, ChargeReject, Raise, Crash
<1>3. ASSUME NEW c \in Calls, ChargeCreate(c) PROVE Recorded'
  BY <1>3 DEF ChargeCreate, Insert
<1>4. ASSUME NEW c \in Calls,
             ChargeSend(c) \/ ChargeHears(c) \/ ChargeGivesUp(c)
      PROVE  Recorded'
  BY <1>4 DEF ChargeSend, ChargeHears, ChargeGivesUp
<1>5. ASSUME NEW c \in Calls, ChargeApprove(c) \/ ChargeFail(c)
      PROVE  Recorded'
  BY <1>5 DEF ChargeApprove, ChargeFail
<1>6. ASSUME NEW c \in Calls, CardLook(c) \/ CardUnheard(c)
      PROVE  Recorded'
  BY <1>6 DEF CardLook, CardUnheard
<1>7. ASSUME NEW c \in Calls, CardCreate(c) PROVE Recorded'
  BY <1>7 DEF CardCreate
<1> QED
  BY <1>1, <1>2, <1>3, <1>4, <1>5, <1>6, <1>7, StepCases

\* Calls that do not overlap are alone with their key.
LEMMA AloneStep ==
  ASSUME IInv, TypeOK', Dependable, Alone, [Next]_vars
  PROVE  Alone'
<1> USE DEF IInv, TypeOK, Alone, pgVars, Goto, Leave, Error, Reply
<1>1. ASSUME NEW c \in Calls, NEW k \in Keys, ChargeBegin(c, k) PROVE Alone'
  BY <1>1 DEF ChargeBegin, Dependable
<1>2. ASSUME NEW c \in Calls,
             \/ ChargeLook(c) \/ ChargeReject(c) \/ ChargeCreate(c) \/ ChargeSend(c)
             \/ ChargeHears(c) \/ ChargeGivesUp(c) \/ ChargeApprove(c) \/ ChargeFail(c)
             \/ Raise(c) \/ Crash(c)
      PROVE  \A d \in Calls : pc'[d] # "idle" => pc[d] # "idle" /\ key'[d] = key[d]
  BY <1>2 DEF ChargeLook, ChargeReject, ChargeCreate, ChargeSend, ChargeHears, ChargeGivesUp,
       ChargeApprove, ChargeFail, Raise, Crash
<1>3. ASSUME NEW c \in Calls, CardLook(c) \/ CardCreate(c) \/ CardUnheard(c)
      PROVE  UNCHANGED <<pc, key>>
  BY <1>3 DEF CardLook, CardCreate, CardUnheard
<1>4. CASE UNCHANGED chargeVars
  BY <1>4 DEF chargeVars
<1> QED
  BY <1>1, <1>2, <1>3, <1>4, StepCases

\* With calls that do not overlap, the card company is asked once for a key.
LEMMA FirstStep ==
  ASSUME IInv, TypeOK', Recorded, Dependable, Alone, FirstCharge, [Next]_vars
  PROVE  FirstCharge'
<1> USE RowKinds, RowsStay DEF IInv, TypeOK, pgVars, cardVars, Goto, Leave, Error, Reply, CardAnswers,
          FirstCharge, Charging
<1>1. CASE UNCHANGED chargeVars
  BY <1>1 DEF chargeVars
<1>2. ASSUME NEW c \in Calls,
             \/ \E k \in Keys : ChargeBegin(c, k)
             \/ ChargeLook(c) \/ Raise(c) \/ Crash(c) \/ ChargeHears(c) \/ ChargeGivesUp(c)
      PROVE  FirstCharge'
  BY <1>2 DEF ChargeBegin, ChargeLook, Existing, Raise, Crash, ChargeHears, ChargeGivesUp
<1>3. ASSUME NEW c \in Calls, ChargeReject(c) \/ ChargeApprove(c) \/ ChargeFail(c)
      PROVE  FirstCharge'
  <2>1. key[c] \in Keys /\ pc[c] # "idle"
    BY <1>3 DEF ChargeReject, ChargeApprove, ChargeFail
  <2>2. \A k \in Keys \ {key[c]} : pgTx'[k] = pgTx[k]
    BY <1>3 DEF ChargeReject, ChargeApprove, ChargeFail, Insert, Settle
  <2>3. \A d \in Calls \ {c} : UNCHANGED <<pc[d], key[d]>> /\ (pc[d] # "idle" => key[d] # key[c])
    BY <1>3, <2>1 DEF ChargeReject, ChargeApprove, ChargeFail, Alone
  <2>4. pc'[c] = "idle" /\ UNCHANGED <<cardPc, cardKey, cardTx>>
    BY <1>3 DEF ChargeReject, ChargeApprove, ChargeFail
  <2>5. \A d \in Calls : pc'[d] \in {"reject", "create"} => pgTx'[key'[d]] = NoRow
    <3> SUFFICES ASSUME NEW d \in Calls, pc'[d] \in {"reject", "create"}
                 PROVE  pgTx'[key'[d]] = NoRow
      OBVIOUS
    <3>1. d # c /\ UNCHANGED <<pc[d], key[d]>>
      BY <2>3, <2>4
    <3>2. key[d] \in Keys \ {key[c]} /\ pgTx[key[d]] = NoRow
      BY <2>3, <3>1
    <3> QED
      BY <2>2, <3>1, <3>2
  <2>6. \A k \in Keys, d \in Calls : Charging(d, k)' => Charging(d, k)
    BY <2>3, <2>4
  <2> HIDE DEF Charging
  <2> QED
    BY <2>4, <2>5, <2>6
<1>4. ASSUME NEW c \in Calls, ChargeCreate(c) PROVE FirstCharge'
  <2>1. key[c] \in Keys /\ pc[c] = "create" /\ pgTx[key[c]] = NoRow /\ cardTx[key[c]] = NoRow
    BY <1>4 DEF ChargeCreate, Recorded
  <2>2. \A k \in Keys \ {key[c]} : pgTx'[k] = pgTx[k]
    BY <1>4 DEF ChargeCreate, Insert
  <2>3. \A d \in Calls \ {c} : UNCHANGED <<pc[d], key[d]>> /\ (pc[d] # "idle" => key[d] # key[c])
    BY <1>4, <2>1 DEF ChargeCreate, Alone
  <2>4. pc'[c] = "send" /\ key'[c] = key[c] /\ UNCHANGED <<cardPc, cardKey, cardTx>>
    BY <1>4, <2>1 DEF ChargeCreate
  <2>5. \A d \in Calls : ~Charging(d, key[c])
    BY <2>1 DEF Recorded
  <2>6. \A k \in Keys, d \in Calls : Charging(d, k)' => Charging(d, k) \/ (d = c /\ k = key[c])
    BY <2>3, <2>4
  <2>7. \A d \in Calls : pc'[d] \in {"reject", "create"} => pgTx'[key'[d]] = NoRow
    <3> SUFFICES ASSUME NEW d \in Calls, pc'[d] \in {"reject", "create"}
                 PROVE  pgTx'[key'[d]] = NoRow
      OBVIOUS
    <3>1. d # c /\ UNCHANGED <<pc[d], key[d]>>
      BY <2>3, <2>4
    <3>2. key[d] \in Keys \ {key[c]} /\ pgTx[key[d]] = NoRow
      BY <2>3, <3>1
    <3> QED
      BY <2>2, <3>1, <3>2
  <2> HIDE DEF Charging
  <2>8. \A k \in Keys, d \in Calls : Charging(d, k)' => cardTx'[k] = NoRow
    BY <2>1, <2>4, <2>6
  <2>9. \A k \in Keys, d, e \in Calls : Charging(d, k)' /\ Charging(e, k)' => d = e
    <3> SUFFICES ASSUME NEW k \in Keys, NEW d \in Calls, NEW e \in Calls,
                        Charging(d, k)', Charging(e, k)'
                 PROVE  d = e
      OBVIOUS
    <3>1. CASE k = key[c]
      BY <2>5, <2>6, <3>1
    <3>2. CASE k # key[c]
      <4>1. Charging(d, k) /\ Charging(e, k)
        BY <2>6, <3>2
      <4> QED
        BY <4>1
    <3> QED
      BY <3>1, <3>2
  <2> QED
    BY <2>7, <2>8, <2>9
<1>5. ASSUME NEW c \in Calls, ChargeSend(c) PROVE FirstCharge'
  <2>1. \A k \in Keys, d \in Calls : Charging(d, k)' => Charging(d, k)
    BY <1>5 DEF ChargeSend
  <2>2. UNCHANGED <<pgTx, cardTx>>
    BY <1>5 DEF ChargeSend
  <2> QED
    BY <1>5, <2>1, <2>2 DEF ChargeSend
<1>6. ASSUME NEW c \in Calls, CardLook(c) \/ CardUnheard(c) PROVE FirstCharge'
  <2>1. \A k \in Keys, d \in Calls : Charging(d, k)' => Charging(d, k)
    BY <1>6 DEF CardLook, CardUnheard
  <2> QED
    BY <1>6, <2>1 DEF CardLook, CardUnheard
<1>7. ASSUME NEW c \in Calls, CardCreate(c) PROVE FirstCharge'
  <2>1. \A k \in Keys, d \in Calls : Charging(d, k)' => Charging(d, k) /\ d # c
    BY <1>7 DEF CardCreate, SameKey
  <2>2. cardKey[c] \in Keys /\ Charging(c, cardKey[c])
    BY <1>7 DEF CardCreate
  <2>3. \A k \in Keys \ {cardKey[c]} : cardTx'[k] = cardTx[k]
    BY <1>7 DEF CardCreate
  <2> QED
    BY <1>7, <2>1, <2>2, <2>3 DEF CardCreate
<1> QED
  BY <1>1, <1>2, <1>3, <1>4, <1>5, <1>6, <1>7, StepCases

\* With calls that do not overlap and a card company that answers, a failure
\* has its reason.
LEMMA FailureStep ==
  ASSUME IInv, TypeOK', Recorded, Dependable, Alone, FirstCharge, FailureJustified, [Next]_vars
  PROVE  FailureJustified'
<1> USE RowKinds DEF IInv, TypeOK, pgVars, cardVars, Goto, Leave, Error, Reply, CardAnswers,
          FailureJustified, TokenGood
<1>0. UNCHANGED account
  BY RowsStay
<1>1. CASE UNCHANGED chargeVars
  BY <1>1 DEF chargeVars
<1>2. ASSUME NEW c \in Calls, (\E k \in Keys : ChargeBegin(c, k)) \/ Crash(c) \/ ChargeSend(c)
      PROVE  FailureJustified'
  BY <1>2, <1>0 DEF ChargeBegin, Crash, ChargeSend, SameKey
<1>3. ASSUME NEW c \in Calls, ChargeLook(c) PROVE FailureJustified'
  BY <1>3, <1>0 DEF ChargeLook
<1>4. ASSUME NEW c \in Calls, ChargeReject(c) PROVE FailureJustified'
  <2>1. ~TokenGood(key[c]) /\ key[c] \in Keys
    BY <1>4 DEF ChargeReject
  <2>2. told' \subseteq told \cup {<<key[c], Plain("failed")>>}
    BY <1>4 DEF ChargeReject
  <2>3. pgTx' \in {pgTx, [pgTx EXCEPT ![key[c]] = Plain("failed")]}
    BY <1>4 DEF ChargeReject, Insert
  <2>4. UNCHANGED <<cardPc, cardKey, answer>> /\ pc'[c] = "idle"
        /\ \A d \in Calls \ {c} : UNCHANGED <<pc[d], key[d]>>
    BY <1>4 DEF ChargeReject
  <2>5. \A k \in Keys, row \in Row : <<k, row>> \in told' /\ row.status = "failed" => ~TokenGood(k)
    BY <2>1, <2>2
  <2>6. \A k \in Keys : pgTx'[k].status = "failed" => ~TokenGood(k)
    BY <2>1, <2>3
  <2> QED
    BY <1>0, <2>4, <2>5, <2>6
<1>5. ASSUME NEW c \in Calls, ChargeCreate(c) PROVE FailureJustified'
  <2>1. UNCHANGED <<told, cardPc, cardKey, answer>>
    BY <1>5 DEF ChargeCreate
  <2>2. pgTx' \in {pgTx, [pgTx EXCEPT ![key[c]] = Plain("pending")]} /\ key[c] \in Keys
    BY <1>5 DEF ChargeCreate, Insert
  <2>3. \A k \in Keys : pgTx'[k].status = "failed" => pgTx[k].status = "failed"
    BY <2>2
  <2>4. pc'[c] \in {"idle", "send"} /\ \A d \in Calls \ {c} : UNCHANGED <<pc[d], key[d]>>
    BY <1>5 DEF ChargeCreate
  <2> QED
    BY <1>0, <2>1, <2>3, <2>4
<1>6. ASSUME NEW c \in Calls, ChargeHears(c) PROVE FailureJustified'
  BY <1>6, <1>0 DEF ChargeHears, SameKey, Accepted
<1>7. ASSUME NEW c \in Calls, ChargeApprove(c) PROVE FailureJustified'
  BY <1>7, <1>0 DEF ChargeApprove, Settle
<1>8. ASSUME NEW c \in Calls, ChargeFail(c) PROVE FailureJustified'
  BY <1>8, <1>0 DEF ChargeFail, Settle
<1>9. ASSUME NEW c \in Calls, ChargeGivesUp(c) \/ Raise(c) PROVE FailureJustified'
  BY <1>9 DEF ChargeGivesUp, Raise, Dependable
<1>10. ASSUME NEW c \in Calls, CardLook(c) PROVE FailureJustified'
  BY <1>10, <1>0 DEF CardLook, TokenDecides, Taken
<1>11. ASSUME NEW c \in Calls, CardCreate(c) PROVE FailureJustified'
  <2> PICK k \in Keys : k = cardKey[c]
    BY <1>11 DEF CardCreate
  <2>1. cardTx[k] = NoRow
    BY <1>11 DEF CardCreate, FirstCharge, Charging
  <2>2. Approval(c, k).status # "success" => ~TokenGood(k)
    BY ApprovalRow
  <2>3. answer'[c].status # "success" => ~TokenGood(k)
    BY <1>11, <2>1, <2>2 DEF CardCreate
  <2> QED
    BY <1>11, <1>0, <2>3 DEF CardCreate
<1>12. ASSUME NEW c \in Calls, CardUnheard(c) PROVE FailureJustified'
  BY <1>12, <1>0 DEF CardUnheard
<1> QED
  BY <1>1, <1>2, <1>3, <1>4, <1>5, <1>6, <1>7, <1>8, <1>9, <1>10, <1>11, <1>12, StepCases

\* ContractInv holds at the start and is kept by every step.
LEMMA InitContract == Init => ContractInv
BY DEF Init, ContractInv, TakenIsGood, Taken, Recorded, Alone, FirstCharge, Charging,
       FailureJustified, NoRow, Plain

LEMMA ContractNext == IInv /\ ContractInv /\ [Next]_vars => ContractInv'
<1> SUFFICES ASSUME IInv, ContractInv, [Next]_vars PROVE ContractInv'
  OBVIOUS
<1>1. TypeOK' /\ Dependable' = Dependable
  BY NextInv, StepCases DEF IInv, Dependable
<1> QED
  BY <1>1, GoodStep, RecordedStep, AloneStep, FirstStep, FailureStep DEF ContractInv

-----------------------------------------------------------------------------
(* The refinement of ChargeService.                                        *)

\* A failure was told of the key.
FailedTold(k) == \E row \in Row : <<k, row>> \in told /\ row.status = "failed"

\* A reply adds what it says to what was told of its key.
LEMMA ReplyTells ==
  ASSUME TypeOK, NEW k \in Keys, NEW row \in Row, told' = told \cup {<<k, row>>}
  PROVE  /\ row.status \in {"failed", "success"} => Told' = Told \cup {<<k, row.status>>}
         /\ row.status \notin {"failed", "success"} => Told' = Told
         /\ \A j \in Keys : FailedTold(j)' <=> FailedTold(j) \/ (j = k /\ row.status = "failed")
<1>1. \A p \in Keys \X {"success", "failed"} :
        p \in Told' <=> p \in Told \/ (p[1] = k /\ p[2] = row.status)
  BY DEF Told
<1>2. \A j \in Keys : FailedTold(j)' <=> FailedTold(j) \/ (j = k /\ row.status = "failed")
  BY DEF FailedTold
<1>3. Told \subseteq Keys \X {"success", "failed"} /\ Told' \subseteq Keys \X {"success", "failed"}
  BY DEF Told
<1> QED
  BY <1>1, <1>2, <1>3, SMTT(30)

\* Verdict, key by key.
Standing(k) ==
  IF charges[k] > 0 THEN "charged"
  ELSE IF FailedTold(k) THEN "declined"
  ELSE IF pgTx[k] # NoRow THEN "asked" ELSE "none"

LEMMA VerdictOf ==
  /\ Verdict = [k \in Keys |-> Standing(k)]
  /\ Verdict' = [k \in Keys |-> Standing(k)']
BY DEF Verdict, Standing, FailedTold

\* A step that changes the standing of one key at most.
LEMMA StandingStep ==
  ASSUME NEW k \in Keys, \A j \in Keys \ {k} : Standing(j)' = Standing(j)
  PROVE  Verdict' = [Verdict EXCEPT ![k] = Standing(k)']
BY VerdictOf

\* Money is taken, of a key that was neither refused nor charged before.
LEMMA ChargeMaps ==
  ASSUME IInv, ContractInv, Dependable, NEW c \in Calls, CardCreate(c)
  PROVE  [Contract!Next]_<<Verdict, Told>>
<1> USE DEF IInv, TypeOK, ContractInv
<1> PICK k \in Keys : k = cardKey[c]
  BY DEF CardCreate
<1>1. UNCHANGED <<pgTx, told, Told>> /\ \A j \in Keys : FailedTold(j)' <=> FailedTold(j)
  BY DEF CardCreate, Told, FailedTold
<1>2. CASE UNCHANGED charges
  BY <1>1, <1>2, VerdictOf DEF Verdict, FailedTold
<1>3. CASE charges' = [charges EXCEPT ![k] = @ + 1] /\ TokenGood(k) /\ cardTx[k] = NoRow
  <2>1. charges[k] = 0
    BY <1>3, RowKinds DEF CountMatches, Taken
  <2>2. ~FailedTold(k)
    BY <1>3 DEF FailureJustified, FailedTold
  <2>3. pgTx[k] # NoRow
    BY DEF CardCreate, Recorded
  <2>4. Verdict[k] = "asked"
    BY <2>1, <2>2, <2>3, VerdictOf DEF Standing
  <2>5. Verdict' = [Verdict EXCEPT ![k] = "charged"]
    <3>1. Standing(k)' = "charged"
      BY <1>3, <2>1 DEF Standing
    <3>2. \A j \in Keys \ {k} : Standing(j)' = Standing(j)
      BY <1>1, <1>3 DEF Standing
    <3> QED
      BY <3>1, <3>2, StandingStep
  <2> QED
    BY <1>1, <2>4, <2>5 DEF Contract!Next, Contract!Charge
<1>4. \/ UNCHANGED charges
      \/ charges' = [charges EXCEPT ![k] = @ + 1] /\ TokenGood(k) /\ cardTx[k] = NoRow
  BY DEF CardCreate
<1> QED
  BY <1>2, <1>3, <1>4

\* A key that is refused is declined for good: nothing is taken under it.
LEMMA DeclineMaps ==
  ASSUME IInv, ContractInv, Dependable, NEW k \in Keys, ~TokenGood(k),
         UNCHANGED charges, \A j \in Keys \ {k} : pgTx'[j] = pgTx[j],
         NEW row \in Row, row.status = "failed", told' = told \cup {<<k, row>>}
  PROVE  [Contract!Next]_<<Verdict, Told>>
<1>1. charges[k] = 0
  BY DEF IInv, CountMatches, ContractInv, TakenIsGood
<1>2. /\ Told' = Told \cup {<<k, "failed">>}
      /\ \A j \in Keys : FailedTold(j)' <=> FailedTold(j) \/ j = k
  BY ReplyTells DEF IInv
<1>3. Verdict[k] \in {"none", "asked", "declined"}
  BY <1>1, VerdictOf DEF Standing
<1>4. Verdict' = [Verdict EXCEPT ![k] = "declined"]
  <2>1. Standing(k)' = "declined"
    BY <1>1, <1>2 DEF Standing
  <2>2. \A j \in Keys \ {k} : Standing(j)' = Standing(j)
    BY <1>2 DEF Standing
  <2> QED
    BY <2>1, <2>2, StandingStep
<1> QED
  BY <1>2, <1>3, <1>4 DEF Contract!Next, Contract!Decline

\* A success is told of money that was taken.
LEMMA ConfirmMaps ==
  ASSUME IInv, ContractInv, NEW k \in Keys, Taken(k),
         UNCHANGED charges, \A j \in Keys \ {k} : pgTx'[j] = pgTx[j],
         NEW row \in Row, row.status = "success", told' = told \cup {<<k, row>>}
  PROVE  [Contract!Next]_<<Verdict, Told>>
<1>1. charges[k] = 1
  BY DEF IInv, CountMatches
<1>2. /\ Told' = Told \cup {<<k, "success">>}
      /\ \A j \in Keys : FailedTold(j)' <=> FailedTold(j)
  BY ReplyTells DEF IInv
<1>3. Verdict[k] = "charged"
  BY <1>1, VerdictOf DEF Standing
<1>4. Verdict' = Verdict
  <2>1. \A j \in Keys : Standing(j)' = Standing(j)
    BY <1>1, <1>2 DEF Standing
  <2> QED
    BY <2>1, VerdictOf
<1> QED
  BY <1>2, <1>3, <1>4 DEF Contract!Next, Contract!Confirm

\* A pending row is all the back end's request has come to.
LEMMA AskMaps ==
  ASSUME IInv, NEW k \in Keys, pgTx[k] = NoRow, NEW row \in Row, row # NoRow,
         pgTx' = [pgTx EXCEPT ![k] = row], UNCHANGED <<charges, told>>
  PROVE  [Contract!Next]_<<Verdict, Told>>
<1>1. UNCHANGED Told /\ \A j \in Keys : FailedTold(j)' <=> FailedTold(j)
  BY DEF Told, FailedTold
<1>2. CASE Verdict[k] = "none"
  <2>1. charges[k] = 0 /\ ~FailedTold(k)
    BY <1>2, VerdictOf DEF Standing, IInv, TypeOK
  <2>2. Verdict' = [Verdict EXCEPT ![k] = "asked"]
    <3>1. Standing(k)' = "asked"
      BY <1>1, <2>1 DEF Standing, IInv, TypeOK
    <3>2. \A j \in Keys \ {k} : Standing(j)' = Standing(j)
      BY <1>1 DEF Standing, IInv, TypeOK
    <3> QED
      BY <3>1, <3>2, StandingStep
  <2> QED
    BY <1>1, <1>2, <2>2 DEF Contract!Next, Contract!Ask
<1>3. CASE Verdict[k] # "none"
  <2>1. charges[k] > 0 \/ FailedTold(k)
    BY <1>3, VerdictOf DEF Standing, IInv, TypeOK
  <2>2. \A j \in Keys : Standing(j)' = Standing(j)
    BY <1>1, <2>1 DEF Standing, IInv, TypeOK
  <2>3. Verdict' = Verdict
    BY <2>2, VerdictOf
  <2> QED
    BY <1>1, <2>3
<1> QED
  BY <1>2, <1>3

\* Every step of gateway and card company is a step of the contract, or hidden.
LEMMA ContractStep ==
  ASSUME IInv, ContractInv, Dependable, Next
  PROVE  [Contract!Next]_<<Verdict, Told>>
<1> DEFINE Mapped == [Contract!Next]_<<Verdict, Told>>
<1> USE RowKinds
<1>1. CASE UNCHANGED <<pgTx, charges, told>>
  <2>1. UNCHANGED <<Verdict, Told>>
    BY <1>1 DEF Verdict, Told
  <2> QED
    BY <2>1
<1>2. ASSUME NEW c \in Calls, ChargeLook(c) PROVE Mapped
  <2> PICK k \in Keys : k = key[c]
    BY <1>2 DEF ChargeLook, IInv, TypeOK
  <2>1. UNCHANGED <<pgTx, charges>> /\ pgTx[k] \in Row
    BY <1>2 DEF ChargeLook, IInv, TypeOK
  <2>2. CASE told' = told \cup {<<k, pgTx[k]>>}
    <3>1. CASE pgTx[k].status = "success"
      BY <2>1, <2>2, <3>1, ConfirmMaps DEF IInv, RecordTrue
    <3>2. CASE pgTx[k].status = "failed"
      <4>1. ~TokenGood(k)
        BY <3>2 DEF ContractInv, FailureJustified
      <4> QED
        BY <2>1, <2>2, <3>2, <4>1, DeclineMaps
    <3>3. CASE pgTx[k].status \notin {"success", "failed"}
      <4>1. Told' = Told /\ \A j \in Keys : FailedTold(j)' <=> FailedTold(j)
        BY <2>1, <2>2, <3>3, ReplyTells DEF IInv
      <4>2. Verdict' = Verdict
        BY <2>1, <4>1 DEF Verdict, FailedTold
      <4> QED
        BY <4>1, <4>2
    <3> QED
      BY <3>1, <3>2, <3>3
  <2>3. CASE told' = told \cup {<<k, Plain("failed")>>} /\ account[k] = "no_billing_key"
    <3>1. ~TokenGood(k)
      BY <2>3 DEF TokenGood
    <3> QED
      BY <2>1, <2>3, <3>1, DeclineMaps
  <2>4. CASE UNCHANGED told
    BY <1>1, <2>1, <2>4
  <2> QED
    BY <1>2, <2>2, <2>3, <2>4 DEF ChargeLook, Reply
<1>3. ASSUME NEW c \in Calls, ChargeReject(c) \/ ChargeFail(c) PROVE Mapped
  <2> PICK k \in Keys : k = key[c]
    BY <1>3 DEF ChargeReject, ChargeFail, IInv, TypeOK
  <2>1. ~TokenGood(k)
    BY <1>3 DEF ChargeReject, ChargeFail, ContractInv, FailureJustified
  <2>2. UNCHANGED charges /\ \A j \in Keys \ {k} : pgTx'[j] = pgTx[j]
    BY <1>3 DEF ChargeReject, ChargeFail, Insert, Settle, IInv, TypeOK
  <2>3. CASE told' = told \cup {<<k, Plain("failed")>>}
    BY <2>1, <2>2, <2>3, DeclineMaps
  <2>4. CASE UNCHANGED <<pgTx, told>>
    BY <1>1, <2>2, <2>4
  <2> QED
    BY <1>3, <2>3, <2>4 DEF ChargeReject, ChargeFail, Reply, Error
<1>4. ASSUME NEW c \in Calls, ChargeCreate(c) PROVE Mapped
  <2> PICK k \in Keys : k = key[c]
    BY <1>4 DEF ChargeCreate, IInv, TypeOK
  <2>1. UNCHANGED <<charges, told>>
    BY <1>4 DEF ChargeCreate, Error
  <2>2. UNCHANGED pgTx \/ (pgTx[k] = NoRow /\ pgTx' = [pgTx EXCEPT ![k] = Plain("pending")])
    BY <1>4 DEF ChargeCreate, Insert
  <2>3. Plain("pending") # NoRow
    OBVIOUS
  <2> QED
    BY <1>1, <2>1, <2>2, <2>3, AskMaps
<1>5. ASSUME NEW c \in Calls, ChargeApprove(c) PROVE Mapped
  <2> PICK k \in Keys : k = key[c]
    BY <1>5 DEF ChargeApprove, IInv, TypeOK
  <2>1. Taken(k) /\ Approved(heard[c]) \in Row /\ Approved(heard[c]).status = "success"
    BY <1>5 DEF ChargeApprove, IInv, TypeOK, HeardTrue
  <2>2. UNCHANGED charges /\ \A j \in Keys \ {k} : pgTx'[j] = pgTx[j]
    BY <1>5 DEF ChargeApprove, Settle, IInv, TypeOK
  <2>3. told' = told \cup {<<k, Approved(heard[c])>>}
    BY <1>5 DEF ChargeApprove, Reply
  <2> QED
    BY <2>1, <2>2, <2>3, ConfirmMaps
<1>6. ASSUME NEW c \in Calls, CardCreate(c) PROVE Mapped
  BY <1>6, ChargeMaps
<1>7. \/ UNCHANGED <<pgTx, charges, told>>
      \/ \E c \in Calls : \/ ChargeLook(c) \/ ChargeReject(c) \/ ChargeFail(c) \/ ChargeCreate(c)
                          \/ ChargeApprove(c) \/ CardCreate(c)
  BY DEF Next, Proceed, CardProceed, ChargeBegin, ChargeSend, ChargeHears, ChargeGivesUp, Raise,
         Crash, Error, CardLook, CardUnheard, pgVars, cardVars
<1> QED
  BY <1>1, <1>2, <1>3, <1>4, <1>5, <1>6, <1>7

LEMMA ContractHolds == Spec => []ContractInv
BY InitContract, ContractNext, ChargeInvariant, PTL DEF Spec

\* While the card company answers and the database works, the gateway is what
\* the back end takes it for, even where its process dies: every step of
\* ChargeBillingKeyService and ApproveCardPaymentService takes money once per
\* key, tells "success" of money that was taken, and "failed" for good.
THEOREM GatewayKeepsContract == Spec => KeepsContract
<1>1. Init => (Dependable => Contract!Init)
  <2> SUFFICES ASSUME Init PROVE Contract!Init
    OBVIOUS
  <2> QED
    BY DEF Init, Contract!Init, Verdict, Told, NoRow
<1>2. IInv /\ ContractInv /\ [Next]_vars
        => [Dependable => [Contract!Next]_<<Verdict, Told>>]_<<Verdict, Told>>
  <2> SUFFICES ASSUME IInv, ContractInv, [Next]_vars, ~UNCHANGED <<Verdict, Told>>, Dependable
               PROVE  [Contract!Next]_<<Verdict, Told>>
    OBVIOUS
  <2>1. CASE Next
    BY <2>1, ContractStep
  <2>2. CASE UNCHANGED vars
    BY <2>2 DEF vars, chargeVars, Verdict, Told
  <2> QED
    BY <2>1, <2>2
<1> QED
  BY <1>1, <1>2, ContractHolds, ChargeInvariant, PTL DEF Spec, KeepsContract

\* While the card company answers and the database works, a repeated call is told
\* what the first was: no key is told both "success" and "failed", and none that
\* was told "failed" is charged later (the repeat of ChargeBillingKeyService).
THEOREM RepeatsAgree ==
  Spec => [](Dependable => \A k \in Keys :
    <<k, "failed">> \in Told => <<k, "success">> \notin Told /\ charges[k] = 0)
<1>1. IInv /\ ContractInv => (Dependable => \A k \in Keys :
        <<k, "failed">> \in Told => <<k, "success">> \notin Told /\ charges[k] = 0)
  <2> SUFFICES ASSUME IInv, ContractInv, Dependable, NEW k \in Keys, <<k, "failed">> \in Told
               PROVE  <<k, "success">> \notin Told /\ charges[k] = 0
    OBVIOUS
  <2>1. ~TokenGood(k)
    BY DEF ContractInv, FailureJustified, Told
  <2>2. ~Taken(k)
    BY <2>1 DEF ContractInv, TakenIsGood
  <2>3. <<k, "success">> \notin Told
    BY <2>2 DEF IInv, RepliesTrue, Told
  <2>4. charges[k] = 0
    BY <2>2 DEF IInv, CountMatches
  <2> QED
    BY <2>3, <2>4
<1> QED
  BY <1>1, ContractHolds, ChargeInvariant, PTL
=============================================================================
