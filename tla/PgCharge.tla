------------------------------ MODULE PgCharge ------------------------------
(***************************************************************************)
(* A charge at the payment gateway (ChargeBillingKeyService of Mock PG)    *)
(* and the approval it asks the card company for (ApproveCardPayment-      *)
(* Service of Mock Card), over the transactions table of the one and the   *)
(* tx table of the other.                                                  *)
(*                                                                         *)
(* Both run their handlers in thread pools: requests interleave at every   *)
(* access to a table, and a gateway handler that gave up waiting for the   *)
(* card company leaves the card handler running.  The amount and the       *)
(* billing key belong to the idempotency key; amounts are positive, as the *)
(* back end pays nothing itself.                                           *)
(***************************************************************************)
EXTENDS Naturals, FiniteSets

CONSTANTS
  Keys,      \* idempotency keys
  Calls,     \* gateway handlers, each with the card handler it may cause
  Scenarios  \* the sets of faults a behaviour may be exposed to

\* A gateway handler dies; the card company is not reached or is late; an update
\* of the table raises; a key is asked for while it is being charged.
FaultKinds == {"crash", "card", "db", "concurrent"}

\* What a key's billing key and its card token are: in order; a billing key the
\* gateway does not have, or has as inactive; a card token the card company does
\* not have (a local fallback token), or has as inactive.
Accounts == {"good", "no_billing_key", "inactive_billing_key", "no_token", "inactive_token"}

ASSUME ChargeAssumption == Scenarios \subseteq SUBSET FaultKinds

VARIABLES
  faults,   \* what may go wrong in this behaviour, fixed from the start
  account,  \* account[k]
  pgTx,     \* transactions: status and approval_no, by idempotency key
  cardTx,   \* tx: status and approval_no, by idempotency key
  charges,  \* history: how many times money was taken under a key
  told,     \* history: replies of the gateway, as pairs key, row
  pc,       \* where a gateway handler is
  key,      \* the key a gateway handler is about
  heard,    \* the row a gateway handler heard from the card company
  cardPc,   \* where a card handler is
  cardKey,  \* the key a card handler is about
  answer    \* the row a card handler answers with

pgVars   == <<pc, key, heard>>
cardVars == <<cardPc, cardKey, answer>>
chargeVars == <<account, pgTx, cardTx, charges, told, pgVars, cardVars>>
vars == <<faults, chargeVars>>

NoKey     == "no key"
NoCall    == "no call"
\* An approval number is named after the handler that drew it.
Row       == [status : {"none", "pending", "success", "failed"}, approval : Calls \cup {NoCall}]
Plain(st) == [status |-> st, approval |-> NoCall]
NoRow     == Plain("none")

PgPcs   == {"idle", "look", "reject", "create", "send", "wait", "approve", "refuse", "except"}
CardPcs == {"idle", "look", "create", "done"}

TypeOK ==
  /\ faults \in Scenarios
  /\ account \in [Keys -> Accounts]
  /\ pgTx \in [Keys -> Row]
  /\ cardTx \in [Keys -> Row]
  /\ \A k \in Keys : cardTx[k].status # "pending"
  /\ charges \in [Keys -> Nat]
  /\ told \subseteq Keys \X Row
  /\ pc \in [Calls -> PgPcs]
  /\ key \in [Calls -> Keys \cup {NoKey}]
  /\ heard \in [Calls -> Row]
  /\ \A c \in Calls : pc[c] # "idle" => key[c] \in Keys
  /\ cardPc \in [Calls -> CardPcs]
  /\ cardKey \in [Calls -> Keys \cup {NoKey}]
  /\ answer \in [Calls -> Row]
  /\ \A c \in Calls : cardPc[c] # "idle" => cardKey[c] \in Keys

Init ==
  /\ faults \in Scenarios
  /\ account \in [Keys -> Accounts]
  /\ pgTx = [k \in Keys |-> NoRow]
  /\ cardTx = [k \in Keys |-> NoRow]
  /\ charges = [k \in Keys |-> 0]
  /\ told = {}
  /\ pc = [c \in Calls |-> "idle"]
  /\ key = [c \in Calls |-> NoKey]
  /\ heard = [c \in Calls |-> NoRow]
  /\ cardPc = [c \in Calls |-> "idle"]
  /\ cardKey = [c \in Calls |-> NoKey]
  /\ answer = [c \in Calls |-> NoRow]

Goto(c, from, to) ==
  /\ pc[c] = from
  /\ pc' = [pc EXCEPT ![c] = to]
  /\ UNCHANGED <<key, heard>>

Leave(c) ==
  /\ pc' = [pc EXCEPT ![c] = "idle"]
  /\ key' = [key EXCEPT ![c] = NoKey]
  /\ heard' = [heard EXCEPT ![c] = NoRow]

\* The handler ends with a reply of the given row, or with an error response.
Reply(c, row) == told' = told \cup {<<key[c], row>>} /\ Leave(c)
Error(c)      == Leave(c) /\ UNCHANGED told

\* The card handler answers, or gets lost with an error response.
CardAnswers(c, row) ==
  /\ cardPc' = [cardPc EXCEPT ![c] = "done"]
  /\ answer' = [answer EXCEPT ![c] = row]
  /\ UNCHANGED cardKey

-----------------------------------------------------------------------------
(* POST /cards/charge.                                                     *)

TokenGood(k) == account[k] = "good"

\* A transaction of the key is answered with; without one a request with a
\* token that is not active is going to be recorded as failed.
CardLook(c) ==
  LET k == cardKey[c] IN
  /\ cardPc[c] = "look"
  /\ \/ cardTx[k] # NoRow /\ CardAnswers(c, cardTx[k])
     \/ /\ cardTx[k] = NoRow
        /\ cardPc' = [cardPc EXCEPT ![c] = "create"]
        /\ UNCHANGED <<cardKey, answer>>
  /\ UNCHANGED <<account, pgTx, cardTx, charges, told, pgVars>>

\* Mutant: a status the tx table has no name for.
ApprovalNamed(c, k) ==
  IF TokenGood(k) THEN [status |-> "approved", approval |-> c] ELSE Plain("failed")

Approval(c, k) == IF TokenGood(k) THEN [status |-> "success", approval |-> c] ELSE Plain("failed")

\* create_transaction: it looks again, and what it finds is not looked at; a
\* row that comes up before its own insert (idempotency_key is UNIQUE), or a
\* token that is not there (a foreign key), raises instead.
CardCreate(c) ==
  LET k == cardKey[c] IN
  /\ cardPc[c] = "create"
  /\ \/ /\ cardTx[k] = NoRow
        /\ account[k] # "no_token"
        /\ cardTx' = [cardTx EXCEPT ![k] = Approval(c, k)]
        /\ charges' = [charges EXCEPT ![k] = IF TokenGood(k) THEN @ + 1 ELSE @]
        /\ CardAnswers(c, Approval(c, k))
     \/ /\ cardTx[k] # NoRow
        /\ CardAnswers(c, Approval(c, k))
        /\ UNCHANGED <<cardTx, charges>>
     \/ /\ cardTx[k] # NoRow \/ account[k] = "no_token"
        /\ CardAnswers(c, NoRow)
        /\ UNCHANGED <<cardTx, charges>>
  /\ UNCHANGED <<account, pgTx, told, pgVars>>

\* The answer of a handler nobody waits for any more.
CardUnheard(c) ==
  /\ cardPc[c] = "done"
  /\ pc[c] # "wait"
  /\ cardPc' = [cardPc EXCEPT ![c] = "idle"]
  /\ cardKey' = [cardKey EXCEPT ![c] = NoKey]
  /\ answer' = [answer EXCEPT ![c] = NoRow]
  /\ UNCHANGED <<account, pgTx, cardTx, charges, told, pgVars>>

-----------------------------------------------------------------------------
(* POST /pg/payments/billing.                                              *)

\* Unless calls are concurrent, a key is asked for again only when the call
\* before it is over.
ChargeBegin(c, k) ==
  /\ pc[c] = "idle"
  /\ cardPc[c] = "idle"
  /\ "concurrent" \in faults \/ \A d \in Calls : key[d] # k
  /\ pc' = [pc EXCEPT ![c] = "look"]
  /\ key' = [key EXCEPT ![c] = k]
  /\ UNCHANGED <<account, pgTx, cardTx, charges, told, heard, cardVars>>

Existing(k) == pgTx[k] # NoRow

\* A transaction of the key is replied with, whatever its status; without one,
\* a billing key that is not there is refused on the spot.
ChargeLook(c) ==
  LET k == key[c] IN
  /\ pc[c] = "look"
  /\ \/ Existing(k) /\ Reply(c, pgTx[k])
     \/ /\ ~Existing(k)
        /\ account[k] = "no_billing_key"
        /\ Reply(c, Plain("failed"))
     \/ /\ ~Existing(k)
        /\ account[k] # "no_billing_key"
        /\ Goto(c, "look", IF account[k] = "inactive_billing_key" THEN "reject" ELSE "create")
        /\ UNCHANGED told
  /\ UNCHANGED <<account, pgTx, cardTx, charges, cardVars>>

\* create_transaction, as at the card company.
Insert(k, st) ==
  /\ pgTx[k] = NoRow
  /\ pgTx' = [pgTx EXCEPT ![k] = Plain(st)]

ChargeReject(c) ==
  LET k == key[c] IN
  /\ pc[c] = "reject"
  /\ \/ Insert(k, "failed") /\ Reply(c, Plain("failed"))
     \/ pgTx[k] # NoRow /\ UNCHANGED pgTx /\ (Reply(c, Plain("failed")) \/ Error(c))
  /\ UNCHANGED <<account, cardTx, charges, cardVars>>

ChargeCreate(c) ==
  LET k == key[c] IN
  /\ pc[c] = "create"
  /\ \/ Insert(k, "pending") /\ Goto(c, "create", "send") /\ UNCHANGED told
     \/ pgTx[k] # NoRow /\ UNCHANGED <<pgTx, told>> /\ Goto(c, "create", "send")
     \/ pgTx[k] # NoRow /\ UNCHANGED pgTx /\ Error(c)
  /\ UNCHANGED <<account, cardTx, charges, cardVars>>

ChargeSend(c) ==
  /\ Goto(c, "send", "wait")
  /\ cardPc' = [cardPc EXCEPT ![c] = "look"]
  /\ cardKey' = [cardKey EXCEPT ![c] = key[c]]
  /\ UNCHANGED <<account, pgTx, cardTx, charges, told, answer>>

\* Mutant: whatever the card company answered.
AcceptedAnyway(row) == row.status \in {"success", "failed"}

Accepted(row) == row.status = "success"

\* The card company's answer; an error response raises.
ChargeHears(c) ==
  /\ pc[c] = "wait"
  /\ cardPc[c] = "done"
  /\ pc' = [pc EXCEPT ![c] =
              IF answer[c] = NoRow THEN "except"
              ELSE IF Accepted(answer[c]) THEN "approve" ELSE "refuse"]
  /\ heard' = [heard EXCEPT ![c] = answer[c]]
  /\ UNCHANGED <<account, pgTx, cardTx, charges, told, key, cardVars>>

\* The card company cannot be reached, or does not answer in time.
ChargeGivesUp(c) ==
  /\ "card" \in faults
  /\ Goto(c, "send", "except") \/ Goto(c, "wait", "except")
  /\ UNCHANGED <<account, pgTx, cardTx, charges, told, cardVars>>

\* Mutant: a failure that is only replied.
SettleSuccess(c, row) ==
  pgTx' = IF row.status = "success" THEN [pgTx EXCEPT ![key[c]] = row] ELSE pgTx

\* update_transaction_status: whatever the row has become meanwhile.
Settle(c, row) == pgTx' = [pgTx EXCEPT ![key[c]] = row]

Approved(row) == [status |-> "success", approval |-> row.approval]

ChargeApprove(c) ==
  /\ pc[c] = "approve"
  /\ Settle(c, Approved(heard[c]))
  /\ Reply(c, Approved(heard[c]))
  /\ UNCHANGED <<account, cardTx, charges, cardVars>>

\* A refusal, or an exception at any point after the pending row.
ChargeFail(c) ==
  /\ pc[c] \in {"refuse", "except"}
  /\ Settle(c, Plain("failed"))
  /\ Reply(c, Plain("failed"))
  /\ UNCHANGED <<account, cardTx, charges, cardVars>>

\* An update of the table raises: the catch-all tries another one.
Raise(c) ==
  /\ "db" \in faults
  /\ \/ Goto(c, "approve", "except") /\ UNCHANGED told
     \/ Goto(c, "refuse", "except") /\ UNCHANGED told
     \/ pc[c] = "except" /\ Error(c)
  /\ UNCHANGED <<account, pgTx, cardTx, charges, cardVars>>

Crash(c) ==
  /\ "crash" \in faults
  /\ pc[c] # "idle"
  /\ Error(c)
  /\ UNCHANGED <<account, pgTx, cardTx, charges, cardVars>>

-----------------------------------------------------------------------------
Proceed(c) ==
  \/ ChargeLook(c) \/ ChargeReject(c) \/ ChargeCreate(c) \/ ChargeSend(c)
  \/ ChargeHears(c) \/ ChargeGivesUp(c) \/ ChargeApprove(c) \/ ChargeFail(c)

CardProceed(c) == CardLook(c) \/ CardCreate(c) \/ CardUnheard(c)

Next ==
  /\ \E c \in Calls :
       \/ \E k \in Keys : ChargeBegin(c, k)
       \/ Proceed(c) \/ Raise(c) \/ Crash(c)
       \/ CardProceed(c)
  /\ UNCHANGED faults

Spec == Init /\ [][Next]_vars

\* Handlers go on.
FairSpec ==
  /\ Spec
  /\ \A c \in Calls : WF_chargeVars(Proceed(c)) /\ WF_chargeVars(CardProceed(c))

-----------------------------------------------------------------------------
(* Whatever fails, and however many calls of a key there are at once.      *)

\* The money is taken at most once under a key, and "success" is on record or
\* was replied at the gateway only when it was.
SuccessIsCharged ==
  \A k \in Keys :
    /\ charges[k] <= 1
    /\ pgTx[k].status = "success" => charges[k] = 1
    /\ \A row \in Row : <<k, row>> \in told /\ row.status = "success" => charges[k] = 1

-----------------------------------------------------------------------------
(* With a card company that answers.                                       *)

Verdict ==
  [k \in Keys |->
     IF charges[k] > 0 THEN "charged"
     ELSE IF \E row \in Row : <<k, row>> \in told /\ row.status = "failed" THEN "declined"
     ELSE IF pgTx[k] # NoRow THEN "asked" ELSE "none"]

Told == {p \in Keys \X {"success", "failed"} :
           \E row \in Row : <<p[1], row>> \in told /\ row.status = p[2]}

Dependable == faults \subseteq {"crash"}

Contract == INSTANCE ChargeService WITH verdict <- Verdict, told <- Told

\* With a card company that answers and a database that works, the gateway is
\* what the back end takes it for, even where its process dies.
KeepsContract ==
  /\ Dependable => Contract!Init
  /\ [][Dependable => [Contract!Next]_<<Verdict, Told>>]_<<Verdict, Told>>

\* Every charge is settled, unless the process dies or the database fails.
ChargeSettles ==
  faults \cap {"crash", "db"} = {} => \A k \in Keys :
    (pgTx[k].status = "pending") ~> (pgTx[k].status \in {"success", "failed"})

-----------------------------------------------------------------------------
(* Claims of the documentation that the code does not keep.                *)

\* docs/use-cases/06-mock-services.md: a charge that is approved becomes a
\* success, one that is not becomes failed.
FailedIsUncharged == \A k \in Keys : pgTx[k].status = "failed" => charges[k] = 0
=============================================================================
