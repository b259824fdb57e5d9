# CarPayIn in TLA+

CarPayIn lets a car pay for its parking by itself: a back end knows the car, its
card and its parking session, a parking management system (PMS) runs the car
park, a payment gateway (Mock PG) and a card company (Mock Card) take the money,
and an app in the car shows what happened.  This directory models how a car logs
in, registers a card, is announced, enters, pays and leaves, checks the models
with TLC on small instances and proves the most important results with TLAPS for
every instance.

`PROJECT.json` is the index: components, runs, the mutants that show each
property can fail, the map from definitions to source lines, findings, hazards
and theorems.

## 1. The system

Paths are relative to `src/services/` unless they start otherwise.

| Part | State | Operations | What is hard |
|---|---|---|---|
| Fee query and payment (`carpayin-backend/app/application/payment`) | Redis `parking_fee_quote:{session}`, tables `parking_sessions`, `transactions`, `payment_notification_outbox` | `GetParkingFeeService`, `ProcessPaymentService` | seven commits and calls in a row, each of which may fail or be the last one before a crash; requests of one quote at once; a PG that answers too late |
| `NotifyRetryWorker` | Redis `pms_payment_retry:{tx}`, `entry_notify_retry:{session}` | scan, repeat, delete | races with the request that writes or clears the record |
| Outbox and `PaymentOutboxWorker` | table `payment_notification_outbox` | `claim_due`, publish, `mark_published`, `mark_failed` | several instances, leases that run out, crashes between claim and mark |
| PMS (`pms/app/application/pms`) | tables `parking_sessions`, `payment_requests`; Redis `parking_session:{lot}:{plate}`, `pre_reg:{lot}:{plate}` | LPR entry, LPR exit, payment notice, fee, pre-registration, session query | four processes; database and Redis updated one after the other; a board record per spot and not per visit |
| Mock PG (`mock-pg`) | tables `billing_keys`, `transactions` | charge, card registration | two lookups and an insert that are three steps; an approval that outlives the caller's patience |
| Mock Card (`mock-card`) | tables `cards`, `card_tokens`, `tx` | approve, verify and tokenise | the same |
| Card registration of the back end (`application/card`) | Redis `mock_pg_card_register:{order}`, table `vehicle_billing_keys` | create order, billing key webhook | three services; a webhook repeated, late or lost; a page submitted again |
| Pre-notify and entry webhook (`application/parking`) | Redis `parking_pre_notify`, `entry_notify_retry`; `parking_sessions` | `RegisterPreNotifyService`, `HandleEntryWebhookService` | check, then create; two stores of pre-registrations; create, delete and publish are three steps |
| Login (`application/auth`) | Redis QR session, OAuth state and result, login result; tables `vehicles`, `app_refresh_tokens` | QR, OAuth start and callback, status, confirm, refresh | five records with lifetimes of their own, updated one by one; a screen whose polls outlive the code they are about |
| Android app | preferences: parking state, tokens, card | notifications in, requests out | notifications late, twice, out of order |
| Webots car park (`src/carpayin-webots`) | vehicle and barrier positions | triggers, barrier commands | it drives the PMS |

How they meet: the registration screen shows a QR code, a user signs in, and the
app confirms one of the user's vehicles for its tokens.  It orders a card, the
gateway's page takes the card number, the card company gives a token, and a
webhook brings the billing key to the back end.  On the way to a car park the
app announces the car (pre-notify, PMS `pre-register`); the PMS reads the plate
at the entry, opens a visit and sends the entry webhook; the back end opens its
parking session and tells the app.  At the end the app asks for the fee (back
end asks PMS, keeps the quote in Redis) and pays: back end → PG → card company.
The success is committed together with an outbox row, the session is completed
and the PMS is told over `POST /payment/complete`; if that fails, a Redis record
makes the retry worker repeat it.  The outbox worker tells the app.  The PMS
marks the visit paid in database and Redis, and opens the exit when the plate is
read there.

What makes each part correct:

* **payment**: one charge per quote; nobody is told, sent or handed anything
  that was not paid; a success stays; the PMS hears of it;
* **outbox**: no attempt sent twice, published means sent, dead means tried out,
  everything settled;
* **PMS**: active, paid, exited in that order; the gate decides on what the
  database holds; an acknowledged payment took effect; a paid car gets out;
* **PG and card**: charged once; success only if charged; every charge settled;
* **entry**: a visit has at most one session and a car one that is open, the app
  is told of it or will be, and the two stores of pre-registrations agree;
* **card registration**: the key that is charged is the gateway's, for an order
  of that car; a newer card is not replaced by an older one;
* **login**: a vehicle is confirmed only by the login of the code its screen
  showed, and an app that is in owns its vehicle and a token.

## 2. Modules

```
NotificationPromise <--refines-- PaymentOutbox    <-- MCPaymentOutbox,    PaymentOutboxProofs
PaymentLedger       <--refines-- ProcessPayment   <-- MCProcessPayment,   ProcessPaymentProofs
ParkingLifecycle    <--refines-- PmsParking       <-- MCPmsParking,       PmsParkingProofs
ChargeService       <--refines-- PgCharge         <-- MCPgCharge,         PgChargeProofs
SessionOpening      <--refines-- EntryWebhook     <-- MCEntryWebhook,     EntryWebhookProofs
                                 CardRegistration <-- MCCardRegistration, CardRegistrationProofs,
                                                                          CardOrderProofs
                                 LoginSession     <-- MCLoginSession,     LoginSessionProofs
```

A detailed module with an abstract one ends with an `INSTANCE` of it and a
property `Keeps...` that TLC checks.  The MC modules only add a symmetry set or
a constant.  Mutants are operators written just before the definition they would
replace; nothing else uses them.

A handler is a program counter that goes through the accesses to shared state
one by one; each database transaction, Redis command and remote call is one
step, so everything in between can happen to it.  The handlers of PG and card
company, and those of the back end but two, are synchronous functions that run
in a thread pool, and the PMS runs four processes, so this is the granularity
the code really has.  The two webhooks of the back end are coroutines that do
not yield: there is one at a time per process, which `Loops` are.

What may go wrong is a rigid variable `faults`, a set of fault kinds chosen at
the start from `CONSTANT Scenarios`: one run covers several environments, and a
property that the code keeps only in some of them says which (`faults \subseteq
{...} => ...`).  The theorems hold for every value of `Scenarios`.

### PaymentOutbox

`table` is the table (status, attempts), `due` the rows whose `next_attempt_at`
has passed: the clock is reduced to that set.  `Enqueue` is the insert in the
payment's commit, `ClaimDue` one `claim_due` transaction (oldest first, batch
limit, attempts counted, lease taken), `PublishReturns`/`PublishRaises` the call
to the publisher, which may raise after it took effect, `MarkPublished`,
`ReadFailed`/`MarkFailed` the two marks, `LoseBatch` the end of a worker or of
its batch, `DelayElapses` the passing of a lease or a back-off.  Faults: `slow`,
a lease may run out while its worker is busy (60 s for up to 100 publications:
it may), and `stop`, batches may be lost.  The messages' content is left out.

### ProcessPayment

The idempotency key is the pair it is the hash of, session and amount (the
session fixes the car).  `quotes`, `retries` are the Redis records, `session`,
`tx`, `outbox` the tables, `pg` and `pmsPaid` what PG and PMS made of it.  The
pcs are the steps of `execute`: `PayBegin` (quote and session checks),
`LookupFound`/`LookupMissed`, `CreatePending` (unique key), `AskPg`,
`PgReplies`, `MarkSuccess` (success and outbox row in one commit),
`CompleteSession`, `NotifyPms`, `RecordOrClear`; `MarkFailed` is both the
declined charge and the catch-all, `Raise` a failing access.  The fee query is
`FeeBegin`, `FeeCall`, `FeeSave`; the worker `RetryBegin`, `RetryAccepted`,
`RetryRefused`, `RetryDelete`.  A cached quote is returned without an effect
and has no action.  `asks`, `receipts` and `refusals` are history.  PG and PMS
are external here and may take effect though the caller sees a failure; their
own modules say what they do.  Left out: the development session `sess_dev_001`
and the best-effort publication for repositories without an outbox.  A
"pending" reply of the PG carries no approval number, which raises in
`pg_client`, so it is one of the failures of `PgReplies`.

### PmsParking

`status`, `place`, `recorded` are the two tables, `board` the Redis record of a
spot (lot, plate), `preReg` the other Redis key.  The site is `car` (a car is
away, inside with the handler it asked last, or let out) and `gate` (the visits
the exit barrier is open for).  As in the Webots controllers, a car asks again
after any answer but "opened", gives up on an answer after 10 s (fault
`timeout`), and drives out once it was told "opened", whether it sees the
barrier up or not; the barrier comes down by itself (`GateShuts`).
The actions follow the handlers: `Entry*` for `HandleLprEntryService`, `Pay*`
for `RecordPaymentCompleteService`, `Exit*` for `HandleLprExitService`.
`PayRead`/`PayWrite` are the two halves of `update_status`, which reads and
writes back.  Faults: `crash`, `timeout`, `redis` (records lost), `webhook`
(entry webhook lost), `duplicate` (a notice delivered while its predecessor
runs), `second` (a visit paid for under two keys, which `ProcessPayment` can
do), `overlap` (a plate read at an entry, again or on its car's return, while
requests about it still run).  A behaviour without the last three and `timeout`
is called orderly (`Orderly`).

### PgCharge

Both services, each call of the gateway with the card handler it causes, which
goes on when the gateway gives up.  `account` says what billing key and card
token of a key are like (in order, missing, inactive).  `Existing`/`Insert` are
the two lookups and the insert of `create_transaction`, `ChargeHears` the
answer, `Settle` the unconditional update.  The fault `concurrent` allows two
calls of a key at once: the back end's unique key prevents that (`AskedOnce`),
the gateway itself does not.

### EntryWebhook

Three services meet: `nav` is the app's navigation request (save, then call the
PMS), `preNotify` and `preReg` the two stores it writes, `visit` and `spotOf`
the PMS's side of a reading, `loop` the webhook's handler at each of its
accesses (`look`, `pre_notify`, `active`, `create`, `delete`, `publish`, `clear`
or `record`), `retry` and `worker` the retry records and `NotifyRetryWorker`,
`app` and `notice` what the app shows and which payment notices are still to
come.  The PMS is reduced to what the back end can see of it: a plate has no
next visit before its session was paid (`SettledAtPms`), which is what
`KeepsLifecycle` of `PmsParking` and the webhook itself make so; the fault
`overlap` gives a visit before the car's last one has exited.  `session` is the
back end's table with its two unique indexes (`Insertable`).

### CardRegistration

`req` is the order request (plate and vehicle, then the order), `order`, `carOf`
and `lasting` the Redis order, whose update rewrites a record that may have
expired meanwhile and then may last for ever, `page` and `form` the gateway's page
and its submissions (look up the key, ask for a token, save the key, insert it,
send the webhook, wait), `gate` and `tokens` the tables of gateway and card
company, `wire` the webhooks under way, `loop` the webhook's handler (order,
upsert of the key, mark complete in two steps), `billing` the back end's table,
`app` the card shown.  A submission draws one key, named after it.  Cards are
told apart, their details are not; a key's order number stands for its age.

### LoginSession

`app` is the registration screen and the tokens in the preferences; `render` the
thread that asks for a code, `poll` the polls it started for a session, which may
be answered after another code is shown; `qr`, `visit` (the OAuth state),
`oauth` and `login` the Redis records; `callback` the redirect handler per load
of the page; `confirm` the requests to confirm a vehicle, at each of their
accesses (the vehicle is looked for in one and written in the next, so an insert
may come second); `vehicle` and `rows` the tables; `held` what `mark_failed` read
of a QR session and writes back.  A session's number is its VIN hash.
Rows of users are left out: they are written before anything that refers to
them.  Faults are in the comment of `FaultKinds`: among them a redirect loaded
twice (`repeat`), a code scanned by two users (`second`), another code drawn
while one is shown (`refresh`), and the passing of an hour or a month.

## 3. Runs

Passing runs, distinct states in brackets.

| Run | Checks | Instance and scenarios |
|---|---|---|
| `MCPaymentOutbox` [290k] | `TypeOK EachAttemptSentOnce StatusIsTrue KeepsPromise EventuallySettled` | 2 rows, 2 workers, 2 attempts, batches of 2, fair; {stop}, {slow}, {slow, stop} |
| `MCProcessPayment` [216k] | `TypeOK AskedOnce NothingUnpaid PmsToldOrRemembered RefusedMeansUnpaid KeepsLedger SuccessStands` | 1 session, amounts 0 and 5, 2 requests, 1 notifier; every fault, {pg, pms}, {crash, ttl, pms} |
| `MCProcessPaymentLive` [40k] | `PmsEventuallyTold` | the same; {pg, pms}, fair |
| `MCPmsParking` [716k] | `TypeOK AckedIsPaid BoardIsTrue KeepsLifecycle OpensForPaid` | 1 spot, 3 visits, 2 payments, 2 handlers; {crash, redis, webhook}, {webhook}, {timeout}, {duplicate}, {second}, {overlap} |
| `MCPmsParkingLive` [33k] | `PaidGetsOut` | 2 lots, 1 plate, 2 visits, 2 handlers; {redis, webhook}, fair |
| `MCPgCharge` [174k] | `TypeOK SuccessIsCharged KeepsContract ChargeSettles` | 1 key, 3 calls, fair; every fault, every fault but concurrent, {crash}, {card, concurrent} |
| `MCEntryWebhook` [299k] | `TypeOK AnnouncedOrRemembered ConfirmedHasSession RegistrationsAgree AppFollows KeepsOpening RegisteredIsAnnounced` | 1 car, 2 lots, 2 visits, 2 event loops, fair; eleven scenarios |
| `MCCardRegistration` [454k] | `TypeOK KeyIsKnown OkMeansStored AppCardIsCharged NewerStands KeyArrives` | 2 cars that want one plate, 2 orders, 2 cards, 2 submissions, 2 event loops, fair; ten scenarios |
| `MCLoginSession` [292k] | `TypeOK OnlyTheShown AppOwnsCar LoginCompletes` | 2 users who share a vehicle, 2 codes, 2 scans, 2 requests, fair; nine scenarios |

Why the bounds are enough: two requests (workers, calls, submissions, event
loops) are what a race needs.  Three visits of one spot are what the PMS needs:
with two, a car that gives up on its entry can use up the record an earlier
visit left, but only the third visit then meets a payment of the second; with
two payments the second reopens an exited visit.  Two visits, orders, codes are
an old one and a new one to confuse, the second lot lets a plate turn up
elsewhere, two attempts are the smallest limit with a first and a last one;
amounts 0 and 5 give the free path, the paid path and a second key of the same
session; keys of the gateway share nothing.  A property with a condition on the
faults says something only in the scenarios that satisfy it: they are chosen so
that each fault a condition admits occurs in one of them, alone or with others,
but not so that every combination it admits does (`LoginCompletes` meets a
redirect loaded again with an hour, and an hour with a month, not all three).
What bounds and combinations leave out is covered by the proofs for the
properties in section 5, and by nothing for the liveness properties.

`CHECK_DEADLOCK FALSE` everywhere: when every row, visit, order or session is
used up the system has nothing left to do, which is not a failure.

### Fairness

Weak fairness of a handler's next step and of a worker's round says that
running threads run (`_run` loops for ever, and a handler has no wait but its
calls, which have timeouts).  Weak fairness of `DelayElapses` is time passing.
Strong fairness is assumed only of the outside: a PMS asked again and again
accepts a notice once (`RetryAccepted`), a broker a message (`RetrySucceeds`), a
car that stays is read at the exit again and again, and a webhook under way is
taken by a loop that is free again and again (`WebhookArrives`, `TakeWebhook`);
and of `RetryBegin` and `RetryEntry`, as `SCAN` returns every key that is
present throughout.  What users and browsers do is up to them: `LoginCompletes`
starts when Hyundai has exchanged the code, of an app that polls or confirms, and
ends when it is in: an app that is logged out later begins again by its user.  No liveness property is claimed of
behaviours with crashes: after one, the code promises nothing (the condition on
`faults` in `EventuallySettled`, `PaidGetsOut`, `ChargeSettles`,
`RegisteredIsAnnounced`, `KeyArrives`, `LoginCompletes`).

### What the runs found

Violation runs each check one statement of documentation or code comments that
the code does not keep.

| Run | Statement | What happens |
|---|---|---|
| `MCProcessPaymentSecond` | `PaysOnlyActive` | a quote of a higher amount is paid after the session was completed: a second charge |
| `MCCardRegistrationDouble` | `KeyIsGateways` | of two completions of an order at once, the second sends a key of its own, which the gateway has no row for, and the back end stores it |
| `MCLoginSessionNull` | `RefreshKeepsSession` | a refresh answers with a null refresh token, the app saves the text "null" over its own, and the next refresh ends its session |

Five more statements are kept as definitions beside the properties.  TLC refutes
each when its name is added to the configuration of a run, with the scenario
given here.

| Definition | Scenario | What happens |
|---|---|---|
| `PaymentOutbox!ReclaimableAfterLease` | {stop} | a worker that stops in the last attempt leaves the row `publishing` for ever |
| `ProcessPayment!SuccessIsFinal` | {redis, pms} | PMS and Redis fail after the success was committed: the catch-all sets the charged transaction to `failed` |
| `PmsParking!RepeatChangesNothing` | {duplicate} | two deliveries of a notice turn an exited session back to paid |
| `PmsParking!NoticeMarksPaid` | {crash} | a crash between recording the payment and marking the visit: every repeat is told success, the visit stays active |
| `PgCharge!FailedIsUncharged` | {card} | the card company approves after the gateway gave up: charged and `failed` |

Other behaviours met while writing the properties are excluded by their
conditions.

* The exit barrier opens when the payment is recorded
  (`record_payment_complete.py:59`); `docs/scenarios/05-fee-payment-exit.md:81`
  says it does not at this point.
* A car that gives up on an exit request which then completes finds no paid
  visit any more and stays in (`PaidGetsOut` with `timeout`).  One that gives up
  on its entry and is let out on the record of its last visit can come back
  while that entry is still handled; the payment of the visit it opens then
  meets the next one's record, which is let out unpaid (`KeepsLifecycle`,
  `BoardIsTrue` with `timeout`, from three visits on).
* A second payment of a visit, under another key, reopens a visit that has
  exited (`KeepsLifecycle` with `second`).
* A "paid" record that outlives its visit, left by a crash, or by the exit's
  database path overtaken by `update_status`, opens the exit for the next visit
  of the spot as long as that visit's entry has not rewritten the record
  (`OpensForPaid` with `crash` or `timeout`).
* A plate read again at an entry between `mark_paid` and `update_status` gets a
  new visit, whose record on the board is then marked paid: the unpaid visit is
  let out and exited (`BoardIsTrue`, `KeepsLifecycle` with `overlap`).
* Two calls of a key at once overwrite each other's verdict at the gateway, and
  draw two approval numbers of which one is recorded (`KeepsContract` with
  `concurrent`), although `docs/use-cases/06-mock-services.md:158` and `:195`
  promise the first result.
* `_retry_entry` sends a retry event without a look at the session: one that
  outlived its message tells the app of a visit that is over; and the notice of
  a payment that comes after the next entry makes the app forget that one
  (`AppFollows` with `crash`, `redis`, `ack`, `late`).
* An app that asks for navigation while its car is being read leaves a
  pre-registration at the PMS whose pre-notify the webhook then deletes: the
  next reading is refused as not registered (`RegistrationsAgree` with `again`).
* A webhook that comes again after `mark_complete` failed stores an old key over
  a newer one (`NewerStands` with `duplicate` and `redis`).
* A vehicle that two users confirm belongs to the one whose request came last,
  also when the app had given up on that request (`AppOwnsCar` with `timeout`).

## 4. Assumptions that some properties need

* Outbox.  `KeepsPromise`: no `slow`.  With slower workers a row can have two
  holders, and a published row can become failed again; what holds all the same
  are the other properties.  `EventuallySettled`: no `stop`.
* Payment.  `PmsToldOrRemembered`: only `pg` and `pms` fail (no crash, no
  failing Redis and no record that outlives its seven days).
  `RefusedMeansUnpaid`: only `crash`, `ttl`, `pms`.  `SuccessStands`: the
  database and Redis work.
* PMS.  `KeepsLifecycle` and the first half of `BoardIsTrue`: orderly.
  `AckedIsPaid` and the other half: no crash, no lost record, and then whatever
  else.  `OpensForPaid`: nothing but lost webhooks; `PaidGetsOut`: nothing but
  lost records and webhooks.
* Gateway.  `KeepsContract`: calls of a key one at a time, as the back end makes
  them, a card company that answers and a database that works; `ChargeSettles`:
  no crash and a database that works.
* Entry.  `KeepsOpening` and `ConfirmedHasSession`: none.
  `AnnouncedOrRemembered`: no death, Redis works, no lifetime ends.
  `RegistrationsAgree`: no `again`, no lifetime ends.  The conditions of
  `AppFollows` are in its two parts.
* Card.  `OkMeansStored`: none.  `KeyIsKnown`: no `double`, no `fallback`.
  `NewerStands` and `AppCardIsCharged`: their comments.
* Login.  `OnlyTheShown`: none.  `AppOwnsCar`: no `timeout`.  `LoginCompletes`:
  nothing but redirects loaded again, and hours and months that pass.
* Constants.  Each module names its assumption (`OutboxAssumption`,
  `PaymentAssumption`, `ParkingAssumption`, `ChargeAssumption`,
  `EntryAssumption`, `CardAssumption`, `LoginAssumption`): sets of faults are
  sets of the kinds the module knows, bounds are numbers, and a placeholder such
  as `NoVisit`, `NoCar` or `NoKey` is none of what it stands in for.

## 5. Proofs

Eight proof modules: one per component, which it `EXTENDS`, and a second one for
card registration.  Every invariant, action property and refinement the passing
runs check is proved; what is left to TLC is liveness.  The shape is the same: an
inductive invariant, a lemma that every step keeps it with one step per action
of `Next`, theorems that read the property off it, and for the refinements a
lemma that every step is a step or a stutter of the abstract specification.

* **PaymentOutboxProofs**.  The invariant ties the attempt number a worker holds
  to the row's count and to the numbers sent: a held number is at most the count
  and held by nobody else, a number is sent only when its holder is past
  publishing it, a count that `mark_failed` read is at most the present one.
  From it: `TypeCorrect`, `Fencing`, `BoundedSends`, `StatusTrue`.
  `SingleHolder` and `OutboxKeepsPromise` are about the behaviours without
  `slow` and rest on the invariant `OneHolder`, without which a late mark would
  undo a newer one.
* **ProcessPaymentProofs**, for every set of faults.  The properties are not
  inductive: that the PG is asked once rests on which request owns a pending
  row.  The invariant says where the one request that created the row is, that a
  key nobody charged yet was not asked, and that a request past `MarkSuccess` is
  about a key in the outbox.  From it: `TypeCorrect`, `SingleCharge`,
  `NoFalseConfirmation`, `PaymentKeepsLedger`.  A second invariant, `OutcomeInv`,
  says what requests and worker may do to each other's verdicts and records.
  That nobody forgets a notice the PMS has not taken (`ForgetsOnlyTold`) is what
  makes the worker's delete by key harmless, although a request may have written
  the same key anew since: `NoNoticeLost`.  That a key has one creator
  (`OneCreator`), whose row stays pending until its verdict (`PendingInHand`),
  keeps a catch-all from undoing another request's success: `SuccessIsKept`; that
  a failure is the PG's verdict (`FailedIsDeclined`) gives `NoFalseRefusal`.  Both
  need the environment they name: with Redis failing, a request can get to the
  catch-all with its own success committed, which is what `SuccessIsFinal` is
  about.
* **PmsParkingProofs**.  The types carry the rows that handlers and records are
  about (`Typed`), from which `TypeCorrect`.  A recorded payment is carried out
  or about to be (`RecordedIsPaid`): `AckedArePaid`.  `Calm`, the invariant of
  the orderly behaviours, says why finding records by spot does no harm there: a
  plate's car is at one place, a car waits for the one handler that reads it, a
  plate has at most one visit that is not over and, once the back end knows of
  it, no other visit's record on its board; a payment that is going to change
  something is alone with its plate, because the notice comes after the entry is
  done and the car cannot be let out and come back before it.  None of these
  holds by itself.  From it: `BoardTrue` (with `BoardCatchesUp`, a record that is
  behind is being rewritten) and `ParkingKeepsLifecycle`.  Writing it down is
  what showed that `timeout` and second payments had to be excluded.
  `OpensOnlyForPaid` takes one invariant more, `QuietClear`: a notice that is
  about to raise the barrier is for a paid visit and alone with its plate, an
  unpaid visit is on its board or its entry is about to put it there, and an exit
  that read the board before it decides is not at the spot of an unpaid one.
* **PgChargeProofs**, for every set of faults and so also for concurrent calls.
  The invariant carries a success from the card company's table to the answer,
  to what the gateway heard, to its table and its replies: each is backed by a
  charge.  From it: `TypeCorrect`, `NoFalseSuccess`.  `ContractInv` adds what
  holds of calls one at a time: whatever happens at the card company is on record
  at the gateway first, a key has at most one charge under way and none after
  one, and a failure is always that of a bad billing key or token, which no
  repeat can turn into a charge.  From it: `GatewayKeepsContract`, the refinement
  of `ChargeService`, in which a crash between approval and record is a stutter.
  `RepeatsAgree` is what a caller gets from it: a key is never told both verdicts.
* **EntryWebhookProofs**, in stages, each from the ones before.  `Course`: a
  session only for a visit whose webhook came, an announcement or a retry event
  only for a session, hence `EntryKeepsOpening`.  `Registered`: until its
  pre-notify is deleted a session is fresh, active and nobody else's business,
  hence `PlatesAgree`.  `Sessions`: of two visits of a car one is paid, hence
  `ConfirmedIsOpened`.  And `NoneForgotten`: a handler lets its visit go only
  once it is announced or recorded.  `Shows` is about the app: a notice of a
  payment is about a visit that is still in, of which a car has one, and, where
  answers arrive and nothing dies (`NoEcho`), nobody is about to announce what
  was announced already.  From it: `AppIsRight`.
* **CardRegistrationProofs**.  `Course`: an order is complete, or a webhook
  answered "ok", only once a key was stored, hence `AnsweredIsStored` under
  every fault.  `Keys`: with one submission of an order at work at a time, a
  submission that draws a key does so for an order without one, so the key a
  webhook brings is the gateway's, hence `ChargedKeyIsKnown`; it rests on
  `Numbered`, that an order that is not drawn yet is nowhere.
* **CardOrderProofs**, about the orders of one car.  `Named`: an order, a key and
  a webhook stay with the car they were drawn for.  `Ordered`: all but the latest
  order of a car are `Settled`: nobody works on them, and a webhook still under
  way for one does not find it pending.  It does not hold by itself: it rests on
  webhooks that are waited for or whose order is marked (`WebhookAwaited`), on an
  insert that meets another key only for an order stored already (`AddsFirst`),
  and on the last order stored being the one that is charged (`LastBilled`).
  From it: `OlderKeyStays`.  `Follows`: without failures a submission is the
  first of its order and its key is the gateway's (`FirstOfOrder`, `KeyTold`),
  and the card shown is that of the key charged, or that key's page is about to
  say so (`Shown`).  From it: `ShownCardIsCharged`.
* **LoginSessionProofs**.  `Lagging`: a code never stands for a session older
  than its hash, also when `mark_failed` puts back what it read (`HeldLags`), an
  answer never for one newer than the screen's, so the hash can only match if
  they are the same, hence `ConfirmsTheShown`.  `Waiting`: the app waits for
  whichever request is at work, what that request found and wrote stands, and an
  app that is in keeps its token or the null text, hence `AppInOwnsCar`.

What the theorems assume are the named assumptions on constants of section 4 and
the conditions on `faults` the properties state themselves; TLC checks the first
on every run, and the second in the scenarios of section 3.

Only model-checked, because liveness and `ENABLED` are out of the prover's reach:
`EventuallySettled`, `PmsEventuallyTold`, `PaidGetsOut`, `ChargeSettles`,
`RegisteredIsAnnounced`, `KeyArrives` and `LoginCompletes`.  The violations are
TLC's too.  No module declares a `RECURSIVE` operator.

## 6. Not modelled, and the plan

For good: screens and layouts, motion in the simulation, monitoring,
deployment, migrations, development and load-test routes,
`NotifyPmsPaymentCompleteService` (nothing uses it), the checks of signatures
and tokens themselves (stateless: requests in the models have passed them; what
ends with time, a token's hour or a signature's five minutes, is an action), the
tariff of the PMS (a pure function of two times; `FeeGrows` gives any fee), the
app's transaction list, and the contents of messages, profiles and card details.

Simplified: lifetimes of Redis records end at any time under a fault instead of
after their minutes; a registration screen that is closed and opened again is
modelled with `patience` and `refresh`, not with a second screen; a vehicle whose
plate another row has is refused by the fault `refused` of `LoginSession`, which
keeps no plates; every module
reduces its neighbours to what it sees of them, and the modules are not
composed.

What a next step would add, in this order: for each liveness property the safety
part of its argument as theorems (nothing leaves the state that waits but the
step that is awaited); what the abstract specifications imply, proved of them
once; `Checkout`, `ProcessPayment` over `PgCharge` and `PmsParking` in place of
their externals; the app's transaction list against notifications that come
late, twice or out of order.
