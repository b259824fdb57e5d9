-------------------------- MODULE CardRegistration --------------------------
(***************************************************************************)
(* The registration of a payment card: the order of the app (POST          *)
(* /card/order), the page of the gateway that takes the card (POST         *)
(* /pg/card-register) and asks the card company for a token, and the       *)
(* webhook that brings the billing key to the back end (POST               *)
(* /card/webhook).                                                         *)
(*                                                                         *)
(* A submission of the page is used once; the billing key it draws is      *)
(* named after it, and the card of a key is the card that was entered      *)
(* there.  Orders are numbered in the order they are drawn.                *)
(***************************************************************************)
EXTENDS Naturals, FiniteSets

CONSTANTS
  Cars,         \* cars with a confirmed vehicle, each with the app of its head unit
  Plates,
  Cards,        \* card numbers, by their last four digits
  Forms,        \* submissions of the page of the gateway
  MaxOrders,    \* bound on the orders that are drawn
  Loops,        \* event loops of back-end processes: two during a deployment
  Scenarios     \* the sets of faults a behaviour may be exposed to

\* A request dies; Redis fails a command; an order's lifetime (30 min) ends; the
\* gateway has no page to give; the card company fails or is not heard; a webhook is
\* lost, comes again, or outlasts the wait of its sender; the page does not hear the
\* gateway; a page is submitted twice at once; the app starts over while its last
\* card is still on its way; the vehicle is confirmed again.  With "fallback" the
\* gateway is configured to make up tokens.
FaultKinds == {"crash", "redis", "expiry", "page", "cardco", "webhook", "duplicate",
               "timeout", "unheard", "double", "overlap", "confirm", "fallback"}

VARIABLES
  faults,     \* what may go wrong in this behaviour, fixed from the start
  req,        \* per car: its order request, [pc, plate, order]
  vehicle,    \* per car: the plate of its row in vehicles
  drawn,      \* the last order drawn
  order,      \* per order: the status of its record in Redis
  carOf,      \* per order: its car
  lasting,    \* the orders whose record has no lifetime
  page,       \* per car: the order of the page its app shows
  form,       \* per submission: [pc, order, card, key, again]
  gate,       \* billing_keys of the gateway: the key of an order
  tokens,     \* card company: the orders and cards with a token
  wire,       \* the webhooks under way, [form, key]
  loop,       \* per event loop: the webhook it handles, [pc, form, key]
  billing,    \* vehicle_billing_keys: the key of a car
  app,        \* per car: the card its app shows as registered
  stored      \* history: the orders some key was stored for

requestVars == <<req, vehicle, drawn, page>>
orderVars   == <<order, carOf, lasting>>
gateVars    == <<gate, tokens>>
backVars    == <<loop, billing, stored>>
cardVars    == <<requestVars, orderVars, form, gateVars, wire, backVars, app>>
vars        == <<faults, cardVars>>

Orders  == 1..MaxOrders
NoOrder == 0
NoCar   == "no car"
NoPlate == "no plate"
NoCard  == "no card"
NoKey   == "no key"

ASSUME CardAssumption ==
  /\ MaxOrders \in Nat /\ Scenarios \subseteq SUBSET FaultKinds
  /\ NoKey \notin Forms /\ NoCar \notin Cars

ReqIdle  == [pc |-> "idle", plate |-> NoPlate, order |-> NoOrder]
FormNew  == [pc |-> "new", order |-> NoOrder, card |-> NoCard, key |-> NoKey, again |-> FALSE]
LoopIdle == [pc |-> "idle", form |-> NoKey, key |-> NoKey]

WorkPcs == {"look", "token", "save", "insert", "send", "wait"}
LoopPcs == {"order", "upsert", "add", "set", "mark", "write"}

TypeOK ==
  /\ faults \in Scenarios
  /\ req \in [Cars -> {ReqIdle} \cup
        [pc : {"update", "save", "url"}, plate : Plates, order : Orders \cup {NoOrder}]]
  /\ vehicle \in [Cars -> Plates \cup {NoPlate}]
  /\ drawn \in 0..MaxOrders
  /\ order \in [Orders -> {"none", "pending", "complete", "gone"}]
  /\ carOf \in [Orders -> Cars \cup {NoCar}]
  /\ lasting \subseteq Orders
  /\ page \in [Cars -> Orders \cup {NoOrder}]
  /\ form \in [Forms -> {FormNew} \cup
        [pc : WorkPcs \cup {"ok", "failed", "over"}, order : Orders, card : Cards,
         key : Forms \cup {NoKey}, again : BOOLEAN]]
  /\ gate \in [Orders -> Forms \cup {NoKey}]
  /\ tokens \subseteq Orders \X Cards
  /\ wire \subseteq [form : Forms, key : Forms]
  /\ loop \in [Loops -> {LoopIdle} \cup [pc : LoopPcs, form : Forms, key : Forms]]
  /\ billing \in [Cars -> Forms \cup {NoKey}]
  /\ app \in [Cars -> Cards \cup {NoCard}]
  /\ stored \subseteq Orders

Init ==
  /\ faults \in Scenarios
  /\ req = [c \in Cars |-> ReqIdle]
  /\ vehicle = [c \in Cars |-> NoPlate]
  /\ drawn = 0
  /\ order = [o \in Orders |-> "none"]
  /\ carOf = [o \in Orders |-> NoCar]
  /\ lasting = {}
  /\ page = [c \in Cars |-> NoOrder]
  /\ form = [f \in Forms |-> FormNew]
  /\ gate = [o \in Orders |-> NoKey]
  /\ tokens = {}
  /\ wire = {}
  /\ loop = [h \in Loops |-> LoopIdle]
  /\ billing = [c \in Cars |-> NoKey]
  /\ app = [c \in Cars |-> NoCard]
  /\ stored = {}

OrderOf(k)  == form[k].order
FormsOf(o)  == {f \in Forms : form[f].order = o}
AtWork(o)   == \E f \in FormsOf(o) : form[f].pc \in WorkPcs \cup {"ok"}
Handled(o)  == \E h \in Loops : loop[h] # LoopIdle /\ OrderOf(loop[h].form) = o

-----------------------------------------------------------------------------
(* POST /card/order: CreateCardOrderService.                               *)

\* MOLIT confirms the plate: a request it refuses changes nothing.  The app leaves
\* the page it showed.
RequestOrder(c, p) ==
  /\ req[c] = ReqIdle
  /\ drawn < MaxOrders
  /\ \/ "overlap" \in faults
     \/ \A o \in Orders : carOf[o] = c => ~AtWork(o) /\ ~Handled(o)
  /\ req' = [req EXCEPT ![c] = [pc |-> "update", plate |-> p, order |-> NoOrder]]
  /\ page' = [page EXCEPT ![c] = NoOrder]
  /\ UNCHANGED <<faults, vehicle, drawn, orderVars, form, gateVars, wire, backVars, app>>

Free(c, p) == \A d \in Cars \ {c} : vehicle[d] # p

\* idx_vehicles_plate: a plate another vehicle has is refused.
UpdatePlate(c) ==
  /\ req[c].pc = "update"
  /\ IF Free(c, req[c].plate)
     THEN /\ vehicle' = [vehicle EXCEPT ![c] = req[c].plate]
          /\ req' = [req EXCEPT ![c].pc = "save"]
     ELSE req' = [req EXCEPT ![c] = ReqIdle] /\ UNCHANGED vehicle
  /\ UNCHANGED <<faults, drawn, page, orderVars, form, gateVars, wire, backVars, app>>

SaveOrder(c) ==
  /\ req[c].pc = "save"
  /\ drawn < MaxOrders
  /\ drawn' = drawn + 1
  /\ \/ /\ order' = [order EXCEPT ![drawn'] = "pending"]
        /\ carOf' = [carOf EXCEPT ![drawn'] = c]
        /\ req' = [req EXCEPT ![c].pc = "url", ![c].order = drawn']
     \/ /\ "redis" \in faults
        /\ req' = [req EXCEPT ![c] = ReqIdle]
        /\ UNCHANGED <<order, carOf>>
  /\ UNCHANGED <<faults, vehicle, page, lasting, form, gateVars, wire, backVars, app>>

\* The gateway gives the address of its page; when it does not, plate and order stay.
AskUrl(c) ==
  /\ req[c].pc = "url"
  /\ page' \in {[page EXCEPT ![c] = req[c].order]} \cup {q \in {page} : "page" \in faults}
  /\ req' = [req EXCEPT ![c] = ReqIdle]
  /\ UNCHANGED <<faults, vehicle, drawn, orderVars, form, gateVars, wire, backVars, app>>

\* ConfirmVehicleService writes the vehicle with the plate of the provider, if any.
ConfirmVehicle(c) ==
  /\ "confirm" \in faults
  /\ vehicle' \in {[vehicle EXCEPT ![c] = p] : p \in {NoPlate} \cup {q \in Plates : Free(c, q)}}
  /\ UNCHANGED <<faults, req, drawn, page, orderVars, form, gateVars, wire, backVars, app>>

-----------------------------------------------------------------------------
(* POST /pg/card-register: CompleteCardRegistrationService.                *)

To(f, to) == form' = [form EXCEPT ![f].pc = to]
In(f, at) == form[f].pc = at

\* The page's button is off while a submission is at work; a page that is loaded
\* again has another.
Submit(f, c, x) ==
  /\ form[f] = FormNew
  /\ page[c] # NoOrder
  /\ "double" \in faults \/ ~AtWork(page[c])
  /\ form' = [form EXCEPT ![f] = [FormNew EXCEPT !.pc = "look", !.order = page[c], !.card = x]]
  /\ UNCHANGED <<faults, requestVars, orderVars, gateVars, wire, backVars, app>>

\* Mutant: the order is not looked up.
HasKeyNot(o) == o \notin Orders

HasKey(o) == gate[o] # NoKey

\* An order with a key has its webhook sent once more, and no card is asked for.
LookUpKey(f) ==
  /\ In(f, "look")
  /\ IF HasKey(OrderOf(f))
     THEN form' = [form EXCEPT ![f].pc = "send", ![f].key = gate[OrderOf(f)], ![f].again = TRUE]
     ELSE To(f, "token")
  /\ UNCHANGED <<faults, requestVars, orderVars, gateVars, wire, backVars, app>>

\* What becomes of a submission without a token.
Untokenised == IF "fallback" \in faults THEN "save" ELSE "failed"

\* The user at the card company is the order: one token for an order and card.
Token(f) == <<OrderOf(f), form[f].card>>

\* Two requests at once may collide on the unique user or card.
MayCollide(f) == \E g \in FormsOf(OrderOf(f)) \ {f} : In(g, "token")

\* VerifyAndTokenizeCardService.
Tokenise(f) ==
  /\ In(f, "token")
  /\ \/ tokens' = tokens \cup {Token(f)} /\ To(f, "save")
     \/ /\ "cardco" \in faults \/ MayCollide(f)
        /\ tokens' \in {tokens, tokens \cup {Token(f)}}
        /\ To(f, Untokenised)
  /\ UNCHANGED <<faults, requestVars, orderVars, gate, wire, backVars, app>>

\* A new key is drawn.  save_billing_key looks again: the row it finds stays, but
\* the handler goes on with the key it drew.
SaveKey(f) ==
  /\ In(f, "save")
  /\ form' = [form EXCEPT ![f].key = f,
                          ![f].pc = IF gate[OrderOf(f)] # NoKey THEN "send" ELSE "insert"]
  /\ UNCHANGED <<faults, requestVars, orderVars, gateVars, wire, backVars, app>>

\* order_id is unique in billing_keys.
InsertKey(f) ==
  /\ In(f, "insert")
  /\ IF gate[OrderOf(f)] = NoKey
     THEN gate' = [gate EXCEPT ![OrderOf(f)] = form[f].key] /\ To(f, "send")
     ELSE To(f, "failed") /\ UNCHANGED gate
  /\ UNCHANGED <<faults, requestVars, orderVars, tokens, wire, backVars, app>>

\* Mutant: a webhook that is sent once more and fails is only logged.
UnsentNot(f) == IF form[f].again THEN "ok" ELSE "ok"

\* A webhook that fails is logged; sent once more, its failure is the request's.
Unsent(f) == IF form[f].again THEN "failed" ELSE "ok"

SendWebhook(f) ==
  /\ In(f, "send")
  /\ \/ wire' = wire \cup {[form |-> f, key |-> form[f].key]} /\ To(f, "wait")
     \/ "webhook" \in faults /\ To(f, Unsent(f)) /\ UNCHANGED wire
  /\ UNCHANGED <<faults, requestVars, orderVars, gateVars, backVars, app>>

StopWaiting(f) ==
  /\ "timeout" \in faults
  /\ In(f, "wait")
  /\ To(f, Unsent(f))
  /\ UNCHANGED <<faults, requestVars, orderVars, gateVars, wire, backVars, app>>

\* The page has its answer.  After a success the app keeps the last four digits that
\* were entered, and closes the page; otherwise the page may be submitted again.
PageHears(f) ==
  LET o == OrderOf(f) IN
  /\ form[f].pc \in {"ok", "failed"}
  /\ IF In(f, "ok") /\ page[carOf[o]] = o
     THEN \/ /\ app' = [app EXCEPT ![carOf[o]] = form[f].card]
             /\ page' = [page EXCEPT ![carOf[o]] = NoOrder]
          \/ "unheard" \in faults /\ UNCHANGED <<app, page>>
     ELSE UNCHANGED <<app, page>>
  /\ To(f, "over")
  /\ UNCHANGED <<faults, req, vehicle, drawn, orderVars, gateVars, wire, backVars>>

-----------------------------------------------------------------------------
(* POST /card/webhook: HandleCardWebhookService, on an event loop.         *)

ToLoop(h, to) == loop' = [loop EXCEPT ![h].pc = to]
At(h, from)   == loop[h].pc = from
Order(h)      == OrderOf(loop[h].form)

\* The gateway's request, if it still waits, has the answer.
Answer(h, ok) ==
  LET f == loop[h].form IN
  /\ loop' = [loop EXCEPT ![h] = LoopIdle]
  /\ form' = IF In(f, "wait")
             THEN [form EXCEPT ![f].pc = IF ok THEN "ok" ELSE Unsent(f)] ELSE form

TakeWebhook(h, m) ==
  /\ loop[h] = LoopIdle
  /\ m \in wire
  /\ wire' \in {wire \ {m}} \cup {w \in {wire} : "duplicate" \in faults}
  /\ loop' = [loop EXCEPT ![h] = [pc |-> "order", form |-> m.form, key |-> m.key]]
  /\ UNCHANGED <<faults, requestVars, orderVars, form, gateVars, billing, stored, app>>

\* The signature of a webhook older than five minutes is refused.
RefuseOld(h) ==
  /\ "timeout" \in faults
  /\ At(h, "order")
  /\ Answer(h, FALSE)
  /\ UNCHANGED <<faults, requestVars, orderVars, gateVars, wire, billing, stored, app>>

\* "ok" for an order that is complete, an error for one that is gone.
GetOrder(h) ==
  /\ At(h, "order")
  /\ IF order[Order(h)] = "pending"
     THEN ToLoop(h, "upsert") /\ UNCHANGED form
     ELSE Answer(h, order[Order(h)] = "complete")
  /\ UNCHANGED <<faults, requestVars, orderVars, gateVars, wire, billing, stored, app>>

\* Mutant: a new row is left to a commit that is not made.
WithoutRowNot == "mark"

WithoutRow == "add"

LookUpBilling(h) ==
  /\ At(h, "upsert")
  /\ ToLoop(h, IF billing[carOf[Order(h)]] = NoKey THEN WithoutRow ELSE "set")
  /\ UNCHANGED <<faults, requestVars, orderVars, form, gateVars, wire, billing, stored, app>>

StoreKey(h) ==
  LET c == carOf[Order(h)] IN
  /\ loop[h].pc \in {"add", "set"}
  /\ IF At(h, "add") /\ billing[c] # NoKey
     THEN Answer(h, FALSE) /\ UNCHANGED <<billing, stored>>
     ELSE /\ billing' = [billing EXCEPT ![c] = loop[h].key]
          /\ stored' = stored \cup {Order(h)}
          /\ ToLoop(h, "mark")
          /\ UNCHANGED form
  /\ UNCHANGED <<faults, requestVars, orderVars, gateVars, wire, app>>

\* mark_complete reads the record and its time to live; one that is gone is left.
ReadOrder(h) ==
  /\ At(h, "mark")
  /\ \/ order[Order(h)] # "gone" /\ ToLoop(h, "write") /\ UNCHANGED form
     \/ order[Order(h)] = "gone" /\ Answer(h, TRUE)
     \/ "redis" \in faults /\ Answer(h, FALSE)
  /\ UNCHANGED <<faults, requestVars, orderVars, gateVars, wire, billing, stored, app>>

\* Mutant: the status is spelled as that of a parking session.
CompletedAs == "completed"

\* Mutant: a completed order stays pending.
CompletedNot == "pending"

Completed == "complete"

\* A record whose lifetime ended meanwhile is written without one, or with what was left
\* of it when that was read.
WriteOrder(h) ==
  LET o == Order(h) IN
  /\ At(h, "write")
  /\ \/ /\ order' = [order EXCEPT ![o] = Completed]
        /\ lasting' \in {lasting} \cup (IF order[o] = "gone" THEN {lasting \cup {o}} ELSE {})
        /\ Answer(h, TRUE)
     \/ "redis" \in faults /\ Answer(h, FALSE) /\ UNCHANGED <<order, lasting>>
  /\ UNCHANGED <<faults, requestVars, carOf, gateVars, wire, billing, stored, app>>

-----------------------------------------------------------------------------
(* What else may happen.                                                   *)

Expire(o) ==
  /\ "expiry" \in faults
  /\ order[o] \in {"pending", "complete"}
  /\ o \notin lasting
  /\ order' = [order EXCEPT ![o] = "gone"]
  /\ UNCHANGED <<faults, requestVars, carOf, lasting, form, gateVars, wire, backVars, app>>

\* A handler dies, and whoever waits for it gets an error.
Crash ==
  /\ "crash" \in faults
  /\ \/ \E c \in Cars : req' = [req EXCEPT ![c] = ReqIdle] /\ UNCHANGED <<form, loop>>
     \/ \E f \in Forms : form[f].pc \in WorkPcs /\ To(f, "failed") /\ UNCHANGED <<req, loop>>
     \/ \E h \in Loops : loop[h] # LoopIdle /\ Answer(h, FALSE) /\ UNCHANGED req
  /\ UNCHANGED <<faults, vehicle, drawn, page, orderVars, gateVars, wire, billing, stored, app>>

Process(f) ==
  \/ LookUpKey(f) \/ Tokenise(f) \/ SaveKey(f) \/ InsertKey(f) \/ SendWebhook(f)
  \/ StopWaiting(f) \/ PageHears(f)

Handle(h) ==
  \/ RefuseOld(h) \/ GetOrder(h) \/ LookUpBilling(h) \/ StoreKey(h)
  \/ ReadOrder(h) \/ WriteOrder(h)

Next ==
  \/ \E c \in Cars, p \in Plates : RequestOrder(c, p)
  \/ \E c \in Cars : UpdatePlate(c) \/ SaveOrder(c) \/ AskUrl(c) \/ ConfirmVehicle(c)
  \/ \E f \in Forms, c \in Cars, x \in Cards : Submit(f, c, x)
  \/ \E f \in Forms : Process(f)
  \/ \E h \in Loops, m \in wire : TakeWebhook(h, m)
  \/ \E h \in Loops : Handle(h)
  \/ \E o \in Orders : Expire(o)
  \/ Crash

Spec == Init /\ [][Next]_vars

\* Handlers go on, and a webhook that is under way is taken.
FairSpec ==
  /\ Spec
  /\ \A f \in Forms :
       /\ WF_cardVars(Process(f))
       /\ SF_cardVars(\E h \in Loops : \E m \in wire : m.form = f /\ TakeWebhook(h, m))
  /\ \A h \in Loops : WF_cardVars(Handle(h))

-----------------------------------------------------------------------------
(* Properties.                                                             *)

\* The key the back end charges for a car is the gateway's key of an order of that
\* car, and the card company has a token of its card.
KeyIsGateways ==
  \A c \in Cars : billing[c] # NoKey =>
    /\ carOf[OrderOf(billing[c])] = c
    /\ gate[OrderOf(billing[c])] = billing[c]
    /\ <<OrderOf(billing[c]), form[billing[c]].card>> \in tokens

\* So it is, whatever dies, fails or comes twice, as long as a page is not submitted
\* twice at once (SaveKey) and the gateway makes up no token.
KeyIsKnown == faults \cap {"double", "fallback"} = {} => KeyIsGateways

\* A webhook that is sent once more and answered "ok" was not in vain: some key was
\* stored for its order, in this delivery or an earlier one ("ok" for an order that
\* is complete; the raise on the way of an existing key).
OkMeansStored ==
  \A f \in Forms : In(f, "ok") /\ form[f].again => OrderOf(f) \in stored

\* The key of an older order does not replace that of a newer one, if the app does
\* not start over while a card is on its way, no sender of a webhook dies or stops
\* waiting, and a webhook that comes again finds its order complete (not after
\* mark_complete failed).
NewerStands ==
  [][ faults \cap {"overlap", "timeout", "crash"} = {} /\ ~({"duplicate", "redis"} \subseteq faults)
      => \A c \in Cars : billing[c] # NoKey => OrderOf(billing[c]) <= OrderOf(billing'[c]) ]_vars

\* At rest, the card the app shows is the one that is charged, if no webhook is lost or late,
\* no order expires, nothing dies, and the page hears the gateway: a page that is
\* submitted again shows the digits entered last, though the key is that of the first.
AppCardIsCharged ==
  faults \cap {"webhook", "timeout", "expiry", "crash", "redis", "unheard", "double", "overlap"} = {} =>
    \A c \in Cars :
      app[c] # NoCard /\ (\A o \in Orders : carOf[o] = c => ~AtWork(o))
        => billing[c] # NoKey /\ form[billing[c]].card = app[c]

\* A key the gateway stored reaches the back end, or that of a newer order of the car
\* does, if no webhook is lost and nothing dies.
KeyArrives ==
  faults \subseteq {"cardco", "page", "duplicate", "confirm"} =>
    \A o \in Orders :
      gate[o] # NoKey
        ~> \E c \in Cars : carOf[o] = c /\ billing[c] # NoKey /\ OrderOf(billing[c]) >= o
=============================================================================
