----------------------- MODULE CardRegistrationProofs -----------------------
(***************************************************************************)
(* For any cars, cards, submissions, event loops and faults, and any       *)
(* number of orders.  After the types, the course of an order: what was    *)
(* submitted stays what it is, and an order is complete, or a webhook      *)
(* answered "ok", only once some key was stored.  Then the keys: as long   *)
(* as one submission of an order is at work at a time, every key on the    *)
(* way is the gateway's key of its order.                                  *)
(***************************************************************************)
EXTENDS CardRegistration, TLAPS

-----------------------------------------------------------------------------
(* Types.                                                                  *)

ReqType  == {ReqIdle} \cup
              [pc : {"update", "save", "url"}, plate : Plates, order : Orders \cup {NoOrder}]
FormType == {FormNew} \cup
              [pc : WorkPcs \cup {"ok", "failed", "over"}, order : Orders, card : Cards,
               key : Forms \cup {NoKey}, again : BOOLEAN]
LoopType == {LoopIdle} \cup [pc : LoopPcs, form : Forms, key : Forms]

OrderTypes ==
  /\ req \in [Cars -> ReqType]
  /\ vehicle \in [Cars -> Plates \cup {NoPlate}]
  /\ drawn \in 0..MaxOrders
  /\ order \in [Orders -> {"none", "pending", "complete", "gone"}]
  /\ carOf \in [Orders -> Cars \cup {NoCar}]
  /\ lasting \subseteq Orders
  /\ page \in [Cars -> Orders \cup {NoOrder}]

KeyTypes ==
  /\ form \in [Forms -> FormType]
  /\ gate \in [Orders -> Forms \cup {NoKey}]
  /\ tokens \subseteq Orders \X Cards
  /\ wire \subseteq [form : Forms, key : Forms]
  /\ loop \in [Loops -> LoopType]
  /\ billing \in [Cars -> Forms \cup {NoKey}]
  /\ app \in [Cars -> Cards \cup {NoCard}]
  /\ stored \subseteq Orders

\* A key is there once it is drawn, and a webhook is one of a submission.
Keyed == \A f \in Forms : form[f].pc \in {"insert", "send", "wait"} => form[f].key \in Forms
Sent ==
  /\ \A m \in wire : form[m.form] # FormNew
  /\ \A h \in Loops : loop[h] # LoopIdle => form[loop[h].form] # FormNew

Typed == faults \in Scenarios /\ OrderTypes /\ KeyTypes /\ Keyed /\ Sent

LEMMA TypedIsOK == Typed => TypeOK
BY DEF Typed, TypeOK, OrderTypes, KeyTypes, ReqType, FormType, LoopType

LEMMA InitType == Init => Typed
<1> SUFFICES ASSUME Init PROVE Typed
  OBVIOUS
<1>1. OrderTypes
  BY CardAssumption DEF Init, OrderTypes, ReqType
<1>2. KeyTypes
  BY DEF Init, KeyTypes, FormType, LoopType
<1> QED
  BY <1>1, <1>2 DEF Init, Typed, Keyed, Sent, FormNew

\* A submission that is not new.
LEMMA FormFields ==
  ASSUME Typed, NEW f \in Forms, form[f] # FormNew
  PROVE  form[f] \in [pc : WorkPcs \cup {"ok", "failed", "over"}, order : Orders, card : Cards,
                      key : Forms \cup {NoKey}, again : BOOLEAN]
BY DEF Typed, KeyTypes, FormType

\* A step of a submission: where it is, and perhaps its key, and no other one's.
Moves(f) ==
  /\ form[f] # FormNew
  /\ \E pc \in WorkPcs \cup {"ok", "failed", "over"}, k \in Forms \cup {NoKey}, a \in BOOLEAN :
       /\ form' = [form EXCEPT ![f] = [form[f] EXCEPT !.pc = pc, !.key = k, !.again = a]]
       /\ pc \in {"insert", "send", "wait"} => k \in Forms

LEMMA MovesType ==
  ASSUME Typed, NEW f \in Forms, Moves(f)
  PROVE  /\ form' \in [Forms -> FormType]
         /\ Keyed'
         /\ \A g \in Forms : /\ g # f => form'[g] = form[g]
                             /\ form[g] # FormNew <=> form'[g] # FormNew
                             /\ form'[g].order = form[g].order
                             /\ form'[g].card = form[g].card
<1>1. PICK pc \in WorkPcs \cup {"ok", "failed", "over"}, k \in Forms \cup {NoKey}, a \in BOOLEAN :
        /\ form' = [form EXCEPT ![f] = [form[f] EXCEPT !.pc = pc, !.key = k, !.again = a]]
        /\ pc \in {"insert", "send", "wait"} => k \in Forms
  BY DEF Moves
<1>2. form[f] \in [pc : WorkPcs \cup {"ok", "failed", "over"}, order : Orders, card : Cards,
                   key : Forms \cup {NoKey}, again : BOOLEAN]
  BY FormFields DEF Moves
<1>3. form'[f] = [pc |-> pc, order |-> form[f].order, card |-> form[f].card, key |-> k, again |-> a]
  BY <1>1, <1>2 DEF Typed, KeyTypes
<1>4. form'[f] \in FormType /\ form'[f] # FormNew
  BY <1>2, <1>3 DEF FormType, FormNew, WorkPcs
<1>5. \A g \in Forms : g # f => form'[g] = form[g]
  BY <1>1 DEF Typed, KeyTypes
<1>6. form' \in [Forms -> FormType]
  BY <1>1, <1>4, <1>5 DEF Typed, KeyTypes
<1>7. Keyed'
  BY <1>1, <1>3, <1>5 DEF Typed, Keyed
<1> QED
  BY <1>3, <1>4, <1>5, <1>6, <1>7 DEF Moves

\* A step to a place where no key is needed, or where it is there already.
LEMMA ToMoves ==
  ASSUME Typed, NEW f \in Forms, form[f] # FormNew,
         NEW to \in WorkPcs \cup {"ok", "failed", "over"}, To(f, to),
         to \in {"insert", "send", "wait"} => form[f].key \in Forms
  PROVE  Moves(f) /\ form'[f] = [form[f] EXCEPT !.pc = to]
<1>1. form[f] \in [pc : WorkPcs \cup {"ok", "failed", "over"}, order : Orders, card : Cards,
                   key : Forms \cup {NoKey}, again : BOOLEAN]
  BY FormFields
<1>2. [form[f] EXCEPT !.pc = to] =
        [form[f] EXCEPT !.pc = to, !.key = form[f].key, !.again = form[f].again]
  BY <1>1
<1>3. form' = [form EXCEPT ![f] = [form[f] EXCEPT !.pc = to]]
  BY DEF To, Typed, KeyTypes
<1>4. form[f].key \in Forms \cup {NoKey} /\ form[f].again \in BOOLEAN
  BY <1>1
<1>5. Moves(f)
  BY <1>2, <1>3, <1>4 DEF Moves
<1> QED
  BY <1>3, <1>5 DEF Typed, KeyTypes

\* What a submission does at the gateway.
LEMMA ProcessMoves ==
  ASSUME Typed, NEW f \in Forms, Process(f)
  PROVE  Moves(f)
<1>0. form[f] # FormNew
  BY DEF Process, LookUpKey, Tokenise, SaveKey, InsertKey, SendWebhook, StopWaiting, PageHears,
       In, FormNew
<1>1. form[f] \in [pc : WorkPcs \cup {"ok", "failed", "over"}, order : Orders, card : Cards,
                   key : Forms \cup {NoKey}, again : BOOLEAN]
  BY <1>0, FormFields
<1>2. CASE LookUpKey(f)
  <2>1. CASE HasKey(OrderOf(f))
    <3>1. gate[OrderOf(f)] \in Forms
      BY <1>1, <2>1 DEF HasKey, OrderOf, Typed, KeyTypes
    <3>2. form' = [form EXCEPT ![f] = [form[f] EXCEPT !.pc = "send", !.key = gate[OrderOf(f)], !.again = TRUE]]
      BY <1>1, <1>2, <2>1 DEF LookUpKey, Typed, KeyTypes
    <3> QED
      BY <1>0, <3>1, <3>2 DEF Moves, WorkPcs
  <2>2. CASE ~HasKey(OrderOf(f))
    BY <1>0, <1>2, <2>2, ToMoves DEF LookUpKey, WorkPcs
  <2> QED
    BY <2>1, <2>2
<1>3. CASE Tokenise(f)
  <2>1. Untokenised \in {"save", "failed"}
    BY DEF Untokenised
  <2>2. \E to \in {"save", "failed"} : To(f, to)
    BY <1>3, <2>1 DEF Tokenise
  <2> QED
    BY <1>0, <2>2, ToMoves DEF WorkPcs
<1>4. CASE SaveKey(f)
  <2>1. PICK to \in {"send", "insert"} : form' = [form EXCEPT ![f].key = f, ![f].pc = to]
    BY <1>4 DEF SaveKey
  <2>2. form' = [form EXCEPT ![f] = [form[f] EXCEPT !.pc = to, !.key = f, !.again = form[f].again]]
    BY <1>1, <2>1 DEF Typed, KeyTypes
  <2> QED
    BY <1>0, <1>1, <2>2 DEF Moves, WorkPcs
<1>5. CASE InsertKey(f) \/ SendWebhook(f) \/ StopWaiting(f) \/ PageHears(f)
  <2>1. Unsent(f) \in {"ok", "failed"}
    BY DEF Unsent
  <2>2. \/ \E to \in {"ok", "failed", "over"} : To(f, to)
        \/ To(f, "send") /\ form[f].key \in Forms
        \/ To(f, "wait") /\ form[f].key \in Forms
    BY <1>5, <2>1 DEF InsertKey, SendWebhook, StopWaiting, PageHears, In, Typed, Keyed
  <2> QED
    BY <1>0, <2>2, ToMoves DEF WorkPcs
<1> QED
  BY <1>2, <1>3, <1>4, <1>5 DEF Process

\* What an answer does: its submission has it, if it still waits.
LEMMA AnswerMoves ==
  ASSUME Typed, NEW h \in Loops, loop[h] # LoopIdle, NEW ok \in BOOLEAN, Answer(h, ok)
  PROVE  /\ loop[h].form \in Forms
         /\ \/ UNCHANGED form
            \/ /\ Moves(loop[h].form)
               /\ form'[loop[h].form] = [form[loop[h].form] EXCEPT !.pc = IF ok THEN "ok" ELSE Unsent(loop[h].form)]
         /\ loop' = [loop EXCEPT ![h] = LoopIdle]
<1> DEFINE f == loop[h].form
<1>1. f \in Forms /\ form[f] # FormNew
  BY DEF Typed, KeyTypes, LoopType, Sent
<1>2. (IF ok THEN "ok" ELSE Unsent(f)) \in {"ok", "failed"}
  BY DEF Unsent
<1>3. UNCHANGED form \/ To(f, IF ok THEN "ok" ELSE Unsent(f))
  BY DEF Answer, To
<1> QED
  BY ZenonT(60), <1>1, <1>2, <1>3, ToMoves DEF Answer, WorkPcs

\* An order request and its order keep the types.
LEMMA RequestType ==
  ASSUME Typed,
         \/ \E c \in Cars, p \in Plates : RequestOrder(c, p)
         \/ \E c \in Cars : UpdatePlate(c) \/ SaveOrder(c) \/ AskUrl(c) \/ ConfirmVehicle(c)
         \/ \E o \in Orders : Expire(o)
  PROVE  Typed'
<1> USE DEF requestVars, orderVars, gateVars, backVars
<1>1. UNCHANGED <<faults, form, gate, tokens, wire, loop, billing, app, stored>>
  BY DEF RequestOrder, UpdatePlate, SaveOrder, AskUrl, ConfirmVehicle, Expire
<1>2. KeyTypes' /\ Keyed' /\ Sent'
  BY <1>1 DEF Typed, KeyTypes, Keyed, Sent
<1>3. OrderTypes'
  <2>1. ASSUME NEW c \in Cars, NEW p \in Plates, RequestOrder(c, p)
        PROVE  OrderTypes'
    BY <2>1 DEF RequestOrder, Typed, OrderTypes, ReqType
  <2>2. ASSUME NEW c \in Cars, UpdatePlate(c)
        PROVE  OrderTypes'
    <3>1. req[c] \in [pc : {"update", "save", "url"}, plate : Plates, order : Orders \cup {NoOrder}]
      BY <2>2 DEF UpdatePlate, Typed, OrderTypes, ReqType, ReqIdle
    <3>2. req' \in [Cars -> ReqType] /\ vehicle' \in [Cars -> Plates \cup {NoPlate}]
      BY <2>2, <3>1 DEF UpdatePlate, Typed, OrderTypes, ReqType
    <3> QED
      BY <2>2, <3>2 DEF UpdatePlate, Typed, OrderTypes
  <2>3. ASSUME NEW c \in Cars, SaveOrder(c)
        PROVE  OrderTypes'
    <3>1. req[c] \in [pc : {"update", "save", "url"}, plate : Plates, order : Orders \cup {NoOrder}]
      BY <2>3 DEF SaveOrder, Typed, OrderTypes, ReqType, ReqIdle
    <3>2. drawn' = drawn + 1 /\ drawn' \in Orders /\ drawn' \in 0..MaxOrders
      BY <2>3, CardAssumption DEF SaveOrder, Typed, OrderTypes, Orders
    <3>3. req' \in [Cars -> ReqType]
      <4>1. CASE req' = [req EXCEPT ![c] = ReqIdle]
        BY <4>1 DEF Typed, OrderTypes, ReqType
      <4>2. CASE req' = [req EXCEPT ![c].pc = "url", ![c].order = drawn']
        BY <3>1, <3>2, <4>2 DEF Typed, OrderTypes, ReqType
      <4> QED
        BY <2>3, <4>1, <4>2 DEF SaveOrder
    <3>4. order' \in [Orders -> {"none", "pending", "complete", "gone"}]
          /\ carOf' \in [Orders -> Cars \cup {NoCar}]
      BY <2>3 DEF SaveOrder, Typed, OrderTypes
    <3> QED
      BY <2>3, <3>2, <3>3, <3>4 DEF SaveOrder, Typed, OrderTypes
  <2>4. ASSUME NEW c \in Cars, AskUrl(c)
        PROVE  OrderTypes'
    <3>1. req[c].order \in Orders \cup {NoOrder}
      BY DEF Typed, OrderTypes, ReqType, ReqIdle
    <3>2. page' \in [Cars -> Orders \cup {NoOrder}] /\ req' \in [Cars -> ReqType]
      BY <2>4, <3>1 DEF AskUrl, Typed, OrderTypes, ReqType
    <3> QED
      BY <2>4, <3>2 DEF AskUrl, Typed, OrderTypes
  <2>5. ASSUME NEW c \in Cars, ConfirmVehicle(c)
        PROVE  OrderTypes'
    BY <2>5 DEF ConfirmVehicle, Typed, OrderTypes
  <2>6. ASSUME NEW o \in Orders, Expire(o)
        PROVE  OrderTypes'
    BY <2>6 DEF Expire, Typed, OrderTypes
  <2> QED
    BY <2>1, <2>2, <2>3, <2>4, <2>5, <2>6
<1> QED
  BY <1>1, <1>2, <1>3 DEF Typed

\* The gateway's page keeps the types.
LEMMA GateType ==
  ASSUME Typed,
         \/ \E f \in Forms, c \in Cars, x \in Cards : Submit(f, c, x)
         \/ \E f \in Forms : Process(f)
  PROVE  Typed'
<1> USE DEF requestVars, orderVars, gateVars, backVars
<1>1. ASSUME NEW f \in Forms, NEW c \in Cars, NEW x \in Cards, Submit(f, c, x)
      PROVE  Typed'
  <2>1. form' = [form EXCEPT ![f] = [FormNew EXCEPT !.pc = "look", !.order = page[c], !.card = x]]
        /\ page[c] \in Orders
    BY <1>1 DEF Submit, Typed, OrderTypes
  <2>2. /\ [FormNew EXCEPT !.pc = "look", !.order = page[c], !.card = x] \in
               [pc : WorkPcs \cup {"ok", "failed", "over"}, order : Orders, card : Cards,
                key : Forms \cup {NoKey}, again : BOOLEAN]
        /\ [FormNew EXCEPT !.pc = "look", !.order = page[c], !.card = x].pc = "look"
    BY <2>1 DEF FormNew, WorkPcs
  <2>3. /\ form' \in [Forms -> FormType] /\ form'[f].pc = "look" /\ form'[f] # FormNew
        /\ \A g \in Forms : g # f => form'[g] = form[g]
    BY <2>1, <2>2 DEF Typed, KeyTypes, FormType, WorkPcs, FormNew
  <2>4. Keyed'
    BY <2>3 DEF Typed, Keyed
  <2>5. UNCHANGED <<faults, req, vehicle, drawn, page, order, carOf, lasting, gate, tokens, wire, loop,
                    billing, stored, app>>
    BY <1>1 DEF Submit
  <2>6. Sent'
    <3>1. /\ \A m \in wire : m.form \in Forms
          /\ \A h \in Loops : loop[h] # LoopIdle => loop[h].form \in Forms
      BY DEF Typed, KeyTypes, LoopType
    <3> QED
      BY <2>3, <2>5, <3>1 DEF Typed, Sent
  <2> QED
    BY <2>3, <2>4, <2>5, <2>6 DEF Typed, OrderTypes, KeyTypes
<1>2. ASSUME NEW f \in Forms, Process(f)
      PROVE  Typed'
  <2>1. Moves(f) /\ form[f] # FormNew
    BY <1>2, ProcessMoves DEF Moves
  <2>2. form[f] \in [pc : WorkPcs \cup {"ok", "failed", "over"}, order : Orders, card : Cards,
                     key : Forms \cup {NoKey}, again : BOOLEAN]
    BY <2>1, FormFields
  <2>3. gate' \in [Orders -> Forms \cup {NoKey}]
    BY ZenonT(60), <1>2, <2>2 DEF Process, LookUpKey, Tokenise, SaveKey, InsertKey, SendWebhook, StopWaiting,
         PageHears, Typed, KeyTypes
  <2>4. tokens' \subseteq Orders \X Cards
    <3>1. Token(f) \in Orders \X Cards
      BY <2>2 DEF Token, OrderOf
    <3>2. tokens' \in {tokens, tokens \cup {Token(f)}}
      BY <1>2 DEF Process, LookUpKey, Tokenise, SaveKey, InsertKey, SendWebhook, StopWaiting,
           PageHears
    <3> QED
      BY <3>1, <3>2 DEF Typed, KeyTypes
  <2>5. wire' \subseteq [form : Forms, key : Forms]
        /\ \A m \in wire' : m \in wire \/ m.form = f
    <3>1. CASE SendWebhook(f)
      <4>1. form[f].key \in Forms
        BY <3>1 DEF SendWebhook, In, Typed, Keyed
      <4>2. wire' \in {wire, wire \cup {[form |-> f, key |-> form[f].key]}}
        BY <3>1 DEF SendWebhook
      <4> QED
        BY <4>1, <4>2 DEF Typed, KeyTypes
    <3>2. CASE ~SendWebhook(f)
      BY <1>2, <3>2 DEF Process, LookUpKey, Tokenise, SaveKey, InsertKey, StopWaiting,
           PageHears, Typed, KeyTypes
    <3> QED
      BY <3>1, <3>2
  <2>6. app' \in [Cars -> Cards \cup {NoCard}] /\ page' \in [Cars -> Orders \cup {NoOrder}]
    BY ZenonT(60), <1>2, <2>2 DEF Process, LookUpKey, Tokenise, SaveKey, InsertKey, SendWebhook, StopWaiting,
         PageHears, Typed, KeyTypes, OrderTypes
  <2>7. UNCHANGED <<faults, req, vehicle, drawn, order, carOf, lasting, loop, billing, stored>>
    BY <1>2 DEF Process, LookUpKey, Tokenise, SaveKey, InsertKey, SendWebhook, StopWaiting, PageHears
  <2>8. Sent'
    <3>1. /\ \A m \in wire : m.form \in Forms
          /\ \A h \in Loops : loop[h] # LoopIdle => loop[h].form \in Forms
      BY DEF Typed, KeyTypes, LoopType
    <3> QED
      BY <2>1, <2>5, <2>7, <3>1, MovesType DEF Typed, Sent
  <2> QED
    BY <2>1, <2>3, <2>4, <2>5, <2>6, <2>7, <2>8, MovesType DEF Typed, OrderTypes, KeyTypes
<1> QED
  BY <1>1, <1>2

\* A webhook that is handled is about a submission, and its key is a submission's.
LEMMA LoopFields ==
  ASSUME Typed, NEW h \in Loops, loop[h] # LoopIdle
  PROVE  /\ loop[h] \in [pc : LoopPcs, form : Forms, key : Forms]
         /\ form[loop[h].form] # FormNew
         /\ Order(h) \in Orders
<1>1. loop[h] \in [pc : LoopPcs, form : Forms, key : Forms] /\ form[loop[h].form] # FormNew
  BY DEF Typed, KeyTypes, LoopType, Sent
<1> QED
  BY <1>1, FormFields DEF Order, OrderOf

LEMMA ToLoopType ==
  ASSUME Typed, NEW h \in Loops, loop[h] # LoopIdle, NEW to \in LoopPcs, ToLoop(h, to)
  PROVE  /\ loop' \in [Loops -> LoopType]
         /\ loop'[h] = [loop[h] EXCEPT !.pc = to]
         /\ \A g \in Loops : /\ g # h => loop'[g] = loop[g]
                             /\ loop'[g] # LoopIdle => /\ loop[g] # LoopIdle
                                                     /\ loop'[g].form = loop[g].form
                                                     /\ loop'[g].key = loop[g].key
<1>1. loop[h] \in [pc : LoopPcs, form : Forms, key : Forms]
  BY LoopFields
<1>2. loop' = [loop EXCEPT ![h] = [loop[h] EXCEPT !.pc = to]]
  BY DEF ToLoop, Typed, KeyTypes
<1>3. [loop[h] EXCEPT !.pc = to] \in [pc : LoopPcs, form : Forms, key : Forms]
      /\ [loop[h] EXCEPT !.pc = to].form = loop[h].form
      /\ [loop[h] EXCEPT !.pc = to].key = loop[h].key
  BY <1>1
<1> QED
  BY <1>2, <1>3 DEF Typed, KeyTypes, LoopType

\* What a handler of the webhook does to submissions and loops.
LEMMA HandleMoves ==
  ASSUME Typed, NEW h \in Loops, Handle(h)
  PROVE  /\ loop[h] # LoopIdle
         /\ UNCHANGED form \/ Moves(loop[h].form)
         /\ loop' \in [Loops -> LoopType]
         /\ \A g \in Loops : /\ g # h => loop'[g] = loop[g]
                             /\ loop'[g] # LoopIdle => /\ loop[g] # LoopIdle
                                                     /\ loop'[g].form = loop[g].form
                                                     /\ loop'[g].key = loop[g].key
<1>1. loop[h] # LoopIdle
  <2>1. loop[h].pc # "idle"
    BY DEF Handle, RefuseOld, GetOrder, LookUpBilling, StoreKey, ReadOrder, WriteOrder, At
  <2> QED
    BY <2>1 DEF LoopIdle
<1>2. \/ \E to \in LoopPcs : ToLoop(h, to) /\ UNCHANGED form
      \/ \E ok \in BOOLEAN : Answer(h, ok)
  BY DEF Handle, RefuseOld, GetOrder, LookUpBilling, StoreKey, ReadOrder, WriteOrder, WithoutRow,
       LoopPcs
<1>3. CASE \E to \in LoopPcs : ToLoop(h, to) /\ UNCHANGED form
  BY <1>1, <1>3, ToLoopType
<1>4. CASE \E ok \in BOOLEAN : Answer(h, ok)
  BY <1>1, <1>4, AnswerMoves DEF Typed, KeyTypes, LoopType
<1> QED
  BY <1>1, <1>2, <1>3, <1>4

LEMMA HandleType ==
  ASSUME Typed, NEW h \in Loops, Handle(h)
  PROVE  Typed'
<1> USE DEF requestVars, orderVars, gateVars, backVars
<1>1. /\ loop[h] # LoopIdle
      /\ loop[h] \in [pc : LoopPcs, form : Forms, key : Forms]
      /\ form[loop[h].form] # FormNew
      /\ Order(h) \in Orders
  BY HandleMoves, LoopFields
<1>2. UNCHANGED <<faults, req, vehicle, drawn, page, carOf, gate, tokens, wire, app>>
  BY DEF Handle, RefuseOld, GetOrder, LookUpBilling, StoreKey, ReadOrder, WriteOrder
<1>3. order' \in [Orders -> {"none", "pending", "complete", "gone"}] /\ lasting' \subseteq Orders
  <2>1. order \in [Orders -> {"none", "pending", "complete", "gone"}] /\ lasting \subseteq Orders
    BY DEF Typed, OrderTypes
  <2>2. CASE WriteOrder(h)
    <3>1. /\ order' = order \/ order' = [order EXCEPT ![Order(h)] = "complete"]
          /\ lasting' \in {lasting, lasting \cup {Order(h)}}
      BY <2>2 DEF WriteOrder, Completed
    <3> QED
      BY <1>1, <2>1, <3>1
  <2>3. CASE ~WriteOrder(h)
    BY <2>1, <2>3 DEF Handle, RefuseOld, GetOrder, LookUpBilling, StoreKey, ReadOrder
  <2> QED
    BY <2>2, <2>3
<1>4. billing' \in [Cars -> Forms \cup {NoKey}] /\ stored' \subseteq Orders
  BY <1>1 DEF Handle, RefuseOld, GetOrder, LookUpBilling, StoreKey, ReadOrder, WriteOrder,
       Typed, KeyTypes
<1>5. form' \in [Forms -> FormType] /\ Keyed' /\ \A g \in Forms : form[g] # FormNew <=> form'[g] # FormNew
  BY <1>1, HandleMoves, MovesType DEF Typed, KeyTypes, Keyed
<1>6. Sent'
  <2>1. /\ \A m \in wire : m.form \in Forms
        /\ \A g \in Loops : loop[g] # LoopIdle => loop[g].form \in Forms
    BY DEF Typed, KeyTypes, LoopType
  <2> QED
    BY <1>2, <1>5, <2>1, HandleMoves DEF Typed, Sent
<1> QED
  BY <1>2, <1>3, <1>4, <1>5, <1>6, HandleMoves DEF Typed, OrderTypes, KeyTypes

LEMMA TakeType ==
  ASSUME Typed, NEW h \in Loops, NEW m \in wire, TakeWebhook(h, m)
  PROVE  Typed'
<1> USE DEF requestVars, orderVars, gateVars, backVars
<1>1. m \in [form : Forms, key : Forms] /\ form[m.form] # FormNew
  BY DEF Typed, KeyTypes, Sent
<1>2. loop' = [loop EXCEPT ![h] = [pc |-> "order", form |-> m.form, key |-> m.key]] /\ wire' \subseteq wire
  BY DEF TakeWebhook
<1>3. loop' \in [Loops -> LoopType]
  BY <1>1, <1>2 DEF Typed, KeyTypes, LoopType, LoopPcs
<1>4. UNCHANGED <<faults, req, vehicle, drawn, page, order, carOf, lasting, form, gate, tokens, billing,
                  stored, app>>
  BY DEF TakeWebhook
<1>5. Sent'
  <2>1. /\ loop'[h].form = m.form
        /\ \A g \in Loops : g # h => loop'[g] = loop[g]
    BY <1>2 DEF Typed, KeyTypes
  <2> QED
    BY <1>1, <1>2, <1>4, <2>1 DEF Typed, Sent
<1> QED
  BY <1>2, <1>3, <1>4, <1>5 DEF Typed, OrderTypes, KeyTypes, Keyed

\* A death: a request, a submission that fails, or a handler that answers with an error.
LEMMA CrashMoves ==
  ASSUME Typed, Crash
  PROVE  \/ UNCHANGED <<form, loop>>
         \/ UNCHANGED loop /\ \E f \in Forms : Moves(f) /\ form'[f].pc = "failed"
         \/ \E h \in Loops : loop[h] # LoopIdle /\ Answer(h, FALSE)
<1>1. ASSUME NEW f \in Forms, form[f].pc \in WorkPcs, To(f, "failed")
      PROVE  Moves(f) /\ form'[f].pc = "failed"
  <2>1. form[f] # FormNew
    BY <1>1 DEF WorkPcs, FormNew
  <2>2. Moves(f) /\ form'[f] = [form[f] EXCEPT !.pc = "failed"]
    BY <1>1, <2>1, ToMoves
  <2> QED
    BY <2>1, <2>2, FormFields
<1> QED
  BY <1>1 DEF Crash

LEMMA CrashType ==
  ASSUME Typed, Crash
  PROVE  Typed'
<1> USE DEF requestVars, orderVars, gateVars, backVars
<1>1. UNCHANGED <<faults, vehicle, drawn, page, order, carOf, lasting, gate, tokens, wire, billing, stored, app>>
  BY DEF Crash
<1>2. req' \in [Cars -> ReqType]
  BY DEF Crash, Typed, OrderTypes, ReqType
<1>3. \/ UNCHANGED form
      \/ \E f \in Forms : Moves(f)
  BY CrashMoves, AnswerMoves
<1>4. form' \in [Forms -> FormType] /\ Keyed' /\ \A g \in Forms : form[g] # FormNew <=> form'[g] # FormNew
  BY <1>3, MovesType DEF Typed, KeyTypes, Keyed
<1>5. /\ loop' \in [Loops -> LoopType]
      /\ \A g \in Loops : loop'[g] \in {loop[g], LoopIdle}
  <2>1. UNCHANGED loop \/ \E h \in Loops : loop' = [loop EXCEPT ![h] = LoopIdle]
    BY CrashMoves, AnswerMoves
  <2> QED
    BY <2>1 DEF Typed, KeyTypes, LoopType
<1>6. Sent'
  <2>1. /\ \A m \in wire : m.form \in Forms
        /\ \A g \in Loops : loop[g] # LoopIdle => loop[g].form \in Forms
    BY DEF Typed, KeyTypes, LoopType
  <2> QED
    BY <1>1, <1>4, <1>5, <2>1 DEF Typed, Sent
<1> QED
  BY <1>1, <1>2, <1>4, <1>5, <1>6 DEF Typed, OrderTypes, KeyTypes

LEMMA NextType == Typed /\ [Next]_vars => Typed'
<1> SUFFICES ASSUME Typed, [Next]_vars PROVE Typed'
  OBVIOUS
<1>1. CASE UNCHANGED vars
  BY <1>1 DEF vars, cardVars, requestVars, orderVars, gateVars, backVars, Typed, OrderTypes, KeyTypes,
       Keyed, Sent
<1>2. CASE Next
  BY <1>2, RequestType, GateType, HandleType, TakeType, CrashType DEF Next
<1> QED
  BY <1>1, <1>2

LEMMA TypedHolds == Spec => []Typed
BY InitType, NextType, PTL DEF Spec

\* The variables of CardRegistration keep their types.
THEOREM TypeCorrect == Spec => []TypeOK
BY TypedIsOK, TypedHolds, PTL

-----------------------------------------------------------------------------
(* The course of an order.                                                 *)

\* What was submitted stays what it is.
LEMMA FormsStay ==
  ASSUME Typed, [Next]_vars
  PROVE  \A f \in Forms : form[f] # FormNew =>
           form'[f] # FormNew /\ form'[f].order = form[f].order /\ form'[f].card = form[f].card
<1> USE DEF requestVars, orderVars, gateVars, backVars
<1>1. ASSUME NEW f \in Forms, NEW c \in Cars, NEW x \in Cards, Submit(f, c, x)
      PROVE  \A g \in Forms : form[g] # FormNew => form'[g] = form[g]
  BY <1>1 DEF Submit, Typed, KeyTypes
<1>2. CASE \E f \in Forms : Moves(f)
  BY <1>2, MovesType
<1>3. \/ UNCHANGED form
      \/ \E f \in Forms, c \in Cars, x \in Cards : Submit(f, c, x)
      \/ \E f \in Forms : Moves(f)
  <2>1. CASE \/ UNCHANGED vars
             \/ \E c \in Cars, p \in Plates : RequestOrder(c, p)
             \/ \E c \in Cars : UpdatePlate(c) \/ SaveOrder(c) \/ AskUrl(c) \/ ConfirmVehicle(c)
             \/ \E o \in Orders : Expire(o)
             \/ \E h \in Loops, m \in wire : TakeWebhook(h, m)
    BY <2>1 DEF vars, cardVars, RequestOrder, UpdatePlate, SaveOrder, AskUrl, ConfirmVehicle, Expire,
         TakeWebhook
  <2>2. CASE Crash
    BY <2>2, CrashMoves, AnswerMoves
  <2>3. CASE \E h \in Loops : Handle(h)
    BY <2>3, HandleMoves, LoopFields
  <2> QED
    BY <2>1, <2>2, <2>3, ProcessMoves DEF Next
<1> QED
  BY <1>1, <1>2, <1>3

\* Some key was stored for an order that is complete, that is being marked so, or
\* whose webhook was sent once more and answered "ok".
CompleteStored == \A o \in Orders : order[o] = "complete" => o \in stored
MarkingStored  == \A h \in Loops : loop[h].pc \in {"mark", "write"} => Order(h) \in stored

Course == CompleteStored /\ MarkingStored /\ OkMeansStored

LEMMA InitCourse == Init => Course
BY DEF Init, Course, CompleteStored, MarkingStored, OkMeansStored, LoopIdle, FormNew, In

\* An answer "ok" for an order that some key was stored for.
LEMMA AnswerCourse ==
  ASSUME Typed, Course, NEW h \in Loops, loop[h] # LoopIdle, NEW ok \in BOOLEAN, Answer(h, ok),
         ok => Order(h) \in stored, stored \subseteq stored'
  PROVE  MarkingStored' /\ OkMeansStored'
<1> DEFINE f == loop[h].form
<1>1. f \in Forms /\ form[f] # FormNew
  BY LoopFields
<1>2. loop' = [loop EXCEPT ![h] = LoopIdle]
  BY AnswerMoves
<1>3. CASE UNCHANGED form
  BY <1>2, <1>3 DEF Course, MarkingStored, OkMeansStored, In, Order, OrderOf, LoopIdle, Typed, KeyTypes
<1>4. CASE ~UNCHANGED form
  <2>1. Moves(f) /\ form'[f] = [form[f] EXCEPT !.pc = IF ok THEN "ok" ELSE Unsent(f)]
    BY <1>4, AnswerMoves
  <2>2. form'[f].again = form[f].again
        /\ form'[f].pc = IF ok THEN "ok" ELSE Unsent(f)
    BY <1>1, <2>1, FormFields
  <2>3. \A g \in Forms : form'[g].order = form[g].order /\ (g # f => form'[g] = form[g])
    BY <1>1, <2>1, MovesType
  <2>4. form'[f].pc = "ok" /\ form'[f].again => ok
    BY <2>2 DEF Unsent
  <2>5. OkMeansStored'
    BY <2>3, <2>4 DEF Course, OkMeansStored, In, Order, OrderOf
  <2>6. MarkingStored'
    <3>1. \A g \in Loops : loop'[g].pc \in {"mark", "write"} =>
            g # h /\ loop'[g] = loop[g] /\ loop[g].form \in Forms
      BY <1>2, LoopFields DEF Typed, KeyTypes, LoopIdle
    <3> QED
      BY <2>3, <3>1 DEF Course, MarkingStored, Order, OrderOf
  <2> QED
    BY <2>5, <2>6
<1> QED
  BY <1>3, <1>4

LEMMA HandleCourse ==
  ASSUME Typed, Course, NEW h \in Loops, Handle(h)
  PROVE  Course'
<1> USE DEF requestVars, orderVars, gateVars, backVars
<1>1. loop[h] # LoopIdle /\ Order(h) \in Orders
  BY HandleMoves, LoopFields
<1>2. ASSUME NEW to \in LoopPcs, ToLoop(h, to), UNCHANGED form, stored \subseteq stored',
             to \in {"mark", "write"} => Order(h) \in stored'
      PROVE  MarkingStored' /\ OkMeansStored'
  <2>1. /\ \A g \in Loops : g # h => loop'[g] = loop[g]
        /\ loop'[h] = [loop[h] EXCEPT !.pc = to]
    BY <1>1, <1>2, ToLoopType
  <2>2. loop'[h].pc = to /\ loop'[h].form = loop[h].form
    BY <1>1, <2>1, LoopFields
  <2> QED
    BY <1>2, <2>1, <2>2 DEF Course, MarkingStored, OkMeansStored, In, Order, OrderOf
<1>3. CASE RefuseOld(h)
  <2>1. Answer(h, FALSE) /\ UNCHANGED <<stored, order>>
    BY <1>3 DEF RefuseOld
  <2> QED
    BY <1>1, <2>1, AnswerCourse DEF Course, CompleteStored
<1>4. CASE GetOrder(h)
  <2>1. UNCHANGED <<stored, order>>
        /\ \/ ToLoop(h, "upsert") /\ UNCHANGED form
           \/ Answer(h, order[Order(h)] = "complete")
    BY <1>4 DEF GetOrder
  <2>2. order[Order(h)] = "complete" => Order(h) \in stored
    BY <1>1 DEF Course, CompleteStored
  <2>3. "upsert" \in LoopPcs /\ (order[Order(h)] = "complete") \in BOOLEAN
    BY DEF LoopPcs
  <2>4. MarkingStored' /\ OkMeansStored'
    BY <1>1, <1>2, <2>1, <2>2, <2>3, AnswerCourse
  <2> QED
    BY <2>1, <2>4 DEF Course, CompleteStored
<1>5. CASE LookUpBilling(h)
  <2>1. PICK to \in {"add", "set"} : ToLoop(h, to) /\ UNCHANGED <<stored, order, form>>
    BY <1>5 DEF LookUpBilling, WithoutRow
  <2>2. MarkingStored' /\ OkMeansStored'
    BY <1>2, <2>1 DEF LoopPcs
  <2> QED
    BY <2>1, <2>2 DEF Course, CompleteStored
<1>6. CASE StoreKey(h)
  <2>1. UNCHANGED order /\ stored \subseteq stored'
        /\ \/ Answer(h, FALSE)
           \/ ToLoop(h, "mark") /\ UNCHANGED form /\ Order(h) \in stored'
    BY <1>6 DEF StoreKey
  <2>2. MarkingStored' /\ OkMeansStored'
    BY <1>1, <1>2, <2>1, AnswerCourse DEF LoopPcs
  <2> QED
    BY <2>1, <2>2 DEF Course, CompleteStored
<1>7. CASE ReadOrder(h)
  <2>1. UNCHANGED <<stored, order>> /\ Order(h) \in stored
    BY <1>7 DEF ReadOrder, At, Course, MarkingStored
  <2>2. \/ ToLoop(h, "write") /\ UNCHANGED form
        \/ \E ok \in BOOLEAN : Answer(h, ok)
    BY <1>7 DEF ReadOrder
  <2>3. MarkingStored' /\ OkMeansStored'
    BY <1>1, <1>2, <2>1, <2>2, AnswerCourse DEF LoopPcs
  <2> QED
    BY <2>1, <2>3 DEF Course, CompleteStored
<1>8. CASE WriteOrder(h)
  <2>1. UNCHANGED stored /\ Order(h) \in stored
    BY <1>8 DEF WriteOrder, At, Course, MarkingStored
  <2>2. \E ok \in BOOLEAN : Answer(h, ok)
    BY <1>8 DEF WriteOrder
  <2>3. MarkingStored' /\ OkMeansStored'
    BY <1>1, <2>1, <2>2, AnswerCourse
  <2>4. CompleteStored'
    BY <1>8, <2>1 DEF WriteOrder, Course, CompleteStored, Typed, OrderTypes
  <2> QED
    BY <2>3, <2>4 DEF Course
<1> QED
  BY <1>3, <1>4, <1>5, <1>6, <1>7, <1>8 DEF Handle

\* A submission that is sent once more is not answered "ok" for want of an answer.
LEMMA ProcessCourse ==
  ASSUME Typed, Course, NEW f \in Forms, Process(f)
  PROVE  Course'
<1> USE DEF requestVars, orderVars, gateVars, backVars
<1>1. UNCHANGED <<order, loop, stored>>
  BY DEF Process, LookUpKey, Tokenise, SaveKey, InsertKey, SendWebhook, StopWaiting, PageHears
<1>2. form[f] # FormNew
  BY DEF Process, LookUpKey, Tokenise, SaveKey, InsertKey, SendWebhook, StopWaiting, PageHears,
       In, FormNew
<1>3. \A g \in Forms : form'[g].order = form[g].order /\ (g # f => form'[g] = form[g])
  BY ProcessMoves, MovesType
<1>4. form[f] \in [pc : WorkPcs \cup {"ok", "failed", "over"}, order : Orders, card : Cards,
                   key : Forms \cup {NoKey}, again : BOOLEAN]
  BY <1>2, FormFields
<1>5. ~(form'[f].pc = "ok" /\ form'[f].again)
  <2>1. CASE LookUpKey(f) \/ SaveKey(f)
    BY <1>4, <2>1 DEF LookUpKey, SaveKey, To, Typed, KeyTypes
  <2>2. CASE Tokenise(f) \/ InsertKey(f) \/ SendWebhook(f) \/ StopWaiting(f) \/ PageHears(f)
    <3>1. PICK to \in {"save", "send", "wait", "failed", "over", Unsent(f)} : To(f, to)
      BY <2>2 DEF Tokenise, Untokenised, InsertKey, SendWebhook, StopWaiting, PageHears
    <3>2. form'[f].pc = to /\ form'[f].again = form[f].again
      BY <1>4, <3>1 DEF To, Typed, KeyTypes
    <3> QED
      BY <3>1, <3>2 DEF Unsent
  <2> QED
    BY <2>1, <2>2 DEF Process
<1>6. OkMeansStored'
  BY <1>1, <1>3, <1>5 DEF Course, OkMeansStored, In, OrderOf
<1>7. MarkingStored'
  <2>1. \A g \in Loops : loop[g].pc \in {"mark", "write"} => loop[g].form \in Forms
    BY LoopFields DEF LoopIdle
  <2> QED
    BY <1>1, <1>3, <2>1 DEF Course, MarkingStored, Order, OrderOf
<1> QED
  BY <1>1, <1>6, <1>7 DEF Course, CompleteStored

LEMMA OtherCourse ==
  ASSUME Typed, Course,
         \/ \E c \in Cars, p \in Plates : RequestOrder(c, p)
         \/ \E c \in Cars : UpdatePlate(c) \/ SaveOrder(c) \/ AskUrl(c) \/ ConfirmVehicle(c)
         \/ \E o \in Orders : Expire(o)
         \/ \E f \in Forms, c \in Cars, x \in Cards : Submit(f, c, x)
         \/ \E h \in Loops, m \in wire : TakeWebhook(h, m)
         \/ Crash
  PROVE  Course'
<1> USE DEF requestVars, orderVars, gateVars, backVars
<1>0. UNCHANGED stored
  BY DEF RequestOrder, UpdatePlate, SaveOrder, AskUrl, ConfirmVehicle, Expire, Submit, TakeWebhook, Crash
<1>1. CompleteStored'
  BY <1>0 DEF RequestOrder, UpdatePlate, SaveOrder, AskUrl, ConfirmVehicle, Expire, Submit,
       TakeWebhook, Crash, Course, CompleteStored, Typed, OrderTypes
<1>2. CASE UNCHANGED <<form, loop>>
  BY <1>0, <1>1, <1>2 DEF Course, MarkingStored, OkMeansStored, In, Order, OrderOf
<1>3. CASE \E f \in Forms, c \in Cars, x \in Cards : Submit(f, c, x)
  <2>1. PICK f \in Forms, c \in Cars, x \in Cards : Submit(f, c, x)
    BY <1>3
  <2>2. /\ form'[f].pc = "look" /\ UNCHANGED loop
        /\ \A g \in Forms : g # f => form'[g] = form[g]
        /\ form[f] = FormNew
    BY <2>1 DEF Submit, FormNew, Typed, KeyTypes
  <2>3. \A h \in Loops : loop[h].pc \in {"mark", "write"} =>
          loop[h].form \in Forms /\ loop[h].form # f
    BY <2>2, LoopFields DEF LoopIdle
  <2> QED
    BY <1>0, <1>1, <2>2, <2>3 DEF Course, MarkingStored, OkMeansStored, In, Order, OrderOf
<1>4. CASE \E h \in Loops, m \in wire : TakeWebhook(h, m)
  <2>1. PICK h \in Loops, m \in wire : TakeWebhook(h, m)
    BY <1>4
  <2>2. /\ UNCHANGED form /\ loop'[h].pc = "order"
        /\ \A g \in Loops : g # h => loop'[g] = loop[g]
    BY <2>1 DEF TakeWebhook, Typed, KeyTypes
  <2> QED
    BY <1>0, <1>1, <2>2 DEF Course, MarkingStored, OkMeansStored, In, Order, OrderOf
<1>5. CASE Crash
  <2>1. ASSUME NEW f \in Forms, Moves(f), form'[f].pc = "failed", UNCHANGED loop
        PROVE  Course'
    <3>1. \A g \in Forms : form'[g].order = form[g].order /\ (g # f => form'[g] = form[g])
      BY <2>1, MovesType
    <3>2. \A h \in Loops : loop[h].pc \in {"mark", "write"} => loop[h].form \in Forms
      BY LoopFields DEF LoopIdle
    <3> QED
      BY <1>0, <1>1, <2>1, <3>1, <3>2 DEF Course, MarkingStored, OkMeansStored, In, Order, OrderOf
  <2>2. ASSUME NEW h \in Loops, loop[h] # LoopIdle, Answer(h, FALSE)
        PROVE  Course'
    BY <1>0, <1>1, <2>2, AnswerCourse DEF Course
  <2> QED
    BY <1>2, <1>5, <2>1, <2>2, CrashMoves
<1>6. \/ UNCHANGED <<form, loop>>
      \/ \E f \in Forms, c \in Cars, x \in Cards : Submit(f, c, x)
      \/ \E h \in Loops, m \in wire : TakeWebhook(h, m)
      \/ Crash
  BY DEF RequestOrder, UpdatePlate, SaveOrder, AskUrl, ConfirmVehicle, Expire
<1> QED
  BY <1>2, <1>3, <1>4, <1>5, <1>6

LEMMA NextCourse == Typed /\ Course /\ [Next]_vars => Course'
<1> SUFFICES ASSUME Typed, Course, [Next]_vars PROVE Course'
  OBVIOUS
<1>1. CASE UNCHANGED vars
  BY <1>1 DEF vars, cardVars, requestVars, orderVars, gateVars, backVars, Course, CompleteStored,
       MarkingStored, OkMeansStored, In, Order, OrderOf
<1>2. CASE Next
  BY <1>2, HandleCourse, ProcessCourse, OtherCourse DEF Next
<1> QED
  BY <1>1, <1>2

LEMMA CourseHolds == Spec => []Course
BY InitCourse, NextCourse, TypedHolds, PTL DEF Spec

\* A card that is submitted again for an order that has a key is answered "ok" only if
\* some key was stored for the order, whatever dies, is lost or comes twice
\* (CompleteCardRegistrationService, HandleCardWebhookService).
THEOREM AnsweredIsStored == Spec => []OkMeansStored
BY CourseHolds, PTL DEF Course

-----------------------------------------------------------------------------
(* The numbers of the orders.                                              *)

\* A number that is not drawn yet is nowhere.
Numbered ==
  /\ \A c \in Cars : req[c].order <= drawn /\ page[c] <= drawn
  /\ \A f \in Forms : form[f].order <= drawn

LEMMA InitNumbered == Init => Numbered
BY DEF Init, Numbered, ReqIdle, FormNew, NoOrder

LEMMA NextNumbered ==
  ASSUME Typed, Numbered, [Next]_vars
  PROVE  Numbered'
<1> USE DEF requestVars, orderVars, gateVars, backVars
<1>0. /\ drawn \in Nat /\ drawn' \in Nat /\ drawn <= drawn'
      /\ \A c \in Cars : req[c].order \in Nat /\ page[c] \in Nat
      /\ \A f \in Forms : form[f].order \in Nat
  <2>1. drawn' = drawn \/ drawn' = drawn + 1
    BY DEF Next, vars, cardVars, RequestOrder, UpdatePlate, SaveOrder, AskUrl, ConfirmVehicle, Expire,
         Submit, TakeWebhook, Process, LookUpKey, Tokenise, SaveKey, InsertKey, SendWebhook, StopWaiting,
         PageHears, Handle, RefuseOld, GetOrder, LookUpBilling, StoreKey, ReadOrder, WriteOrder, Crash
  <2>2. drawn \in Nat
    BY CardAssumption DEF Typed, OrderTypes
  <2>3. \A c \in Cars : req[c].order \in Nat /\ page[c] \in Nat
    BY CardAssumption DEF Typed, OrderTypes, ReqType, ReqIdle, Orders, NoOrder
  <2>4. \A f \in Forms : form[f].order \in Nat
    BY CardAssumption DEF Typed, KeyTypes, FormType, FormNew, Orders, NoOrder
  <2> QED
    BY <2>1, <2>2, <2>3, <2>4
<1>1. \A c \in Cars : req'[c].order <= drawn' /\ page'[c] <= drawn'
  <2>1. CASE UNCHANGED <<req, page>>
    BY <1>0, <2>1 DEF Numbered
  <2>2. ASSUME NEW c \in Cars, NEW p \in Plates, RequestOrder(c, p)
        PROVE  \A d \in Cars : req'[d].order <= drawn' /\ page'[d] <= drawn'
    BY <1>0, <2>2 DEF RequestOrder, Numbered, Typed, OrderTypes, NoOrder
  <2>3. ASSUME NEW c \in Cars, UpdatePlate(c) \/ AskUrl(c)
        PROVE  \A d \in Cars : req'[d].order <= drawn' /\ page'[d] <= drawn'
    <3>1. \A d \in Cars : req'[d].order \in {req[d].order, NoOrder}
      BY <2>3 DEF UpdatePlate, AskUrl, Typed, OrderTypes, ReqType, ReqIdle
    <3>2. \A d \in Cars : page'[d] \in {page[d], req[d].order}
      BY <2>3 DEF UpdatePlate, AskUrl, Typed, OrderTypes
    <3>3. drawn' = drawn
      BY <2>3 DEF UpdatePlate, AskUrl
    <3> QED
      BY <1>0, <3>1, <3>2, <3>3 DEF Numbered, NoOrder
  <2>4. ASSUME NEW c \in Cars, SaveOrder(c)
        PROVE  \A d \in Cars : req'[d].order <= drawn' /\ page'[d] <= drawn'
    <3>1. req[c] \in [pc : {"update", "save", "url"}, plate : Plates, order : Orders \cup {NoOrder}]
      BY <2>4 DEF SaveOrder, Typed, OrderTypes, ReqType, ReqIdle
    <3>2. \A d \in Cars : req'[d].order \in {req[d].order, drawn', NoOrder}
      BY <2>4, <3>1 DEF SaveOrder, Typed, OrderTypes, ReqIdle
    <3> QED
      BY <1>0, <2>4, <3>2 DEF SaveOrder, Numbered, NoOrder
  <2>5. CASE Crash
    <3>1. req' = req \/ \E c \in Cars : req' = [req EXCEPT ![c] = ReqIdle]
      BY <2>5 DEF Crash
    <3>2. ASSUME NEW c \in Cars, req' = [req EXCEPT ![c] = ReqIdle]
          PROVE  \A d \in Cars : req'[d].order \in {req[d].order, NoOrder}
      BY <3>2 DEF Typed, OrderTypes, ReqIdle
    <3>3. \A d \in Cars : req'[d].order \in {req[d].order, NoOrder}
      BY <3>1, <3>2
    <3> QED
      BY <1>0, <2>5, <3>3 DEF Crash, Numbered, NoOrder
  <2>6. ASSUME NEW f \in Forms, PageHears(f)
        PROVE  \A d \in Cars : req'[d].order <= drawn' /\ page'[d] <= drawn'
    <3>1. \A d \in Cars : page'[d] \in {page[d], NoOrder}
      BY <2>6 DEF PageHears, Typed, OrderTypes
    <3> QED
      BY <1>0, <2>6, <3>1 DEF PageHears, Numbered, NoOrder
  <2>7. \/ UNCHANGED <<req, page>> \/ Crash
        \/ \E c \in Cars : UpdatePlate(c) \/ AskUrl(c) \/ SaveOrder(c) \/ \E p \in Plates : RequestOrder(c, p)
        \/ \E f \in Forms : PageHears(f)
    BY DEF Next, vars, cardVars, ConfirmVehicle, Expire,
         Submit, TakeWebhook, Process, LookUpKey, Tokenise, SaveKey, InsertKey, SendWebhook, StopWaiting,
         Handle, RefuseOld, GetOrder, LookUpBilling, StoreKey, ReadOrder, WriteOrder
  <2> QED
    BY <2>1, <2>2, <2>3, <2>4, <2>5, <2>6, <2>7
<1>2. \A f \in Forms : form'[f].order <= drawn'
  <2>1. \A f \in Forms : form[f] # FormNew => form'[f].order = form[f].order
    BY FormsStay
  <2>2. \A f \in Forms : form[f] = FormNew =>
          form'[f] = FormNew \/ \E c \in Cars : form'[f].order = page[c]
    <3>1. CASE \E f \in Forms, c \in Cars, x \in Cards : Submit(f, c, x)
      <4>1. PICK f \in Forms, c \in Cars, x \in Cards : Submit(f, c, x)
        BY <3>1
      <4>2. form'[f].order = page[c] /\ \A g \in Forms : g # f => form'[g] = form[g]
        BY <4>1 DEF Submit, Typed, KeyTypes, FormNew
      <4> QED
        BY <4>2
    <3>2. CASE ~\E f \in Forms, c \in Cars, x \in Cards : Submit(f, c, x)
      <4>1. CASE \E f \in Forms : Process(f)
        BY <4>1, ProcessMoves, MovesType
      <4>2. CASE \E h \in Loops : Handle(h)
        BY <4>2, HandleMoves, LoopFields, MovesType
      <4>3. CASE Crash
        BY <4>3, CrashMoves, AnswerMoves, MovesType
      <4>4. CASE UNCHANGED form
        BY <4>4
      <4>5. \/ UNCHANGED form \/ Crash
            \/ \E f \in Forms : Process(f)
            \/ \E h \in Loops : Handle(h)
        BY <3>2 DEF Next, vars, cardVars, RequestOrder, UpdatePlate, SaveOrder, AskUrl, ConfirmVehicle,
             Expire, TakeWebhook
      <4> QED
        BY <4>1, <4>2, <4>3, <4>4, <4>5
    <3> QED
      BY <3>1, <3>2
  <2>3. \A c \in Cars : page[c] <= drawn'
    BY <1>0 DEF Numbered
  <2>4. \A f \in Forms : form[f].order <= drawn'
    BY <1>0 DEF Numbered
  <2> QED
    BY <2>1, <2>2, <2>3, <2>4
<1> QED
  BY <1>1, <1>2 DEF Numbered

-----------------------------------------------------------------------------
(* The keys.                                                               *)

Working == WorkPcs \cup {"ok"}

\* Of two submissions of an order, one is over.
OneAtWork ==
  \A f, g \in Forms :
    f # g /\ form[f].pc \in Working /\ form[g].pc \in Working => form[f].order # form[g].order

\* The card company has a token, or the gateway is one that makes them up.
HasToken(f) == Token(f) \in tokens \/ "fallback" \in faults

\* A submission that draws a key does so for an order without one, and one that sends
\* its webhook has the gateway's.
DrawingOf(f) ==
  /\ form[f].pc \in {"token", "save", "insert"} => gate[form[f].order] = NoKey
  /\ form[f].pc \in {"save", "insert"} => HasToken(f)
  /\ form[f].pc = "insert" => form[f].key = f
  /\ form[f].pc \in {"send", "wait"} =>
       gate[form[f].order] # NoKey /\ form[f].key = gate[form[f].order]

Drawing == \A f \in Forms : DrawingOf(f)

\* The gateway's key of an order, and the one a webhook brings or a car has.
Keeps(o, k) == k # NoKey /\ gate[o] = k
GateKeys ==
  \A o \in Orders : gate[o] # NoKey =>
    form[gate[o]] # FormNew /\ form[gate[o]].order = o /\ HasToken(gate[o])
WireKeys ==
  /\ \A m \in wire : Keeps(form[m.form].order, m.key)
  /\ \A h \in Loops : loop[h] # LoopIdle => Keeps(form[loop[h].form].order, loop[h].key)
BilledKeys ==
  \A c \in Cars : billing[c] # NoKey =>
    /\ form[billing[c]] # FormNew
    /\ carOf[form[billing[c]].order] = c
    /\ Keeps(form[billing[c]].order, billing[c])

Clean == "double" \notin faults
Keys  == Clean => OneAtWork /\ Drawing /\ GateKeys /\ WireKeys /\ BilledKeys

LEMMA InitKeys == Init => Keys
BY DEF Init, Keys, OneAtWork, Drawing, DrawingOf, GateKeys, WireKeys, BilledKeys, Working, WorkPcs,
   FormNew, LoopIdle

LEMMA KeysGiveKnown == Typed /\ Keys => KeyIsKnown
BY DEF Typed, KeyTypes, Keys, Clean, GateKeys, BilledKeys, Keeps, KeyIsKnown, KeyIsGateways, OrderOf, HasToken, Token,
   FormType

\* A submission goes on: if it saves a key, there was none; if it sends a webhook, it
\* is of the gateway's key.
LEMMA MoveKeys ==
  ASSUME Typed, Keys, Clean, UNCHANGED <<faults, carOf, billing>>,
         NEW f \in Forms, Moves(f),
         form'[f].pc \in Working => form[f].pc \in Working,
         DrawingOf(f)',
         \/ gate' = gate
         \/ /\ form[f].pc = "insert" /\ gate[form[f].order] = NoKey
            /\ gate' = [gate EXCEPT ![form[f].order] = f],
         tokens \subseteq tokens',
         \A m \in wire' : m \in wire \/ (m.form = f /\ m.key = form[f].key /\ form[f].pc = "send"),
         \A h \in Loops : loop'[h] # LoopIdle =>
           loop[h] # LoopIdle /\ loop'[h].form = loop[h].form /\ loop'[h].key = loop[h].key
  PROVE  Keys'
<1>1. OneAtWork /\ Drawing /\ GateKeys /\ WireKeys /\ BilledKeys
  BY DEF Keys
<1>2. /\ \A g \in Forms : /\ g # f => form'[g] = form[g]
                          /\ form[g] # FormNew <=> form'[g] # FormNew
                          /\ form'[g].order = form[g].order
                          /\ form'[g].card = form[g].card
      /\ form[f] # FormNew
      /\ form[f].order \in Orders
  BY MovesType, FormFields DEF Moves
<1>3. \A o \in Orders : \/ gate'[o] = gate[o]
                        \/ /\ o = form[f].order /\ gate[o] = NoKey /\ gate'[o] = f
                           /\ form[f].pc = "insert"
  BY DEF Typed, KeyTypes
<1>4. \A g \in Forms : HasToken(g) => HasToken(g)'
  BY <1>2 DEF HasToken, Token, OrderOf
<1>5. OneAtWork'
  BY <1>1, <1>2 DEF OneAtWork
<1>6. Drawing'
  <2>1. ASSUME NEW g \in Forms, g # f
        PROVE  DrawingOf(g)'
    <3>1. form'[g] = form[g]
      BY <1>2, <2>1
    <3>2. CASE form[g].pc \in Working
      <4>1. form[g].order \in Orders
        BY <3>2, FormFields DEF Working, WorkPcs, FormNew
      <4>2. gate'[form[g].order] = gate[form[g].order]
        BY <1>1, <1>3, <2>1, <3>2, <4>1 DEF OneAtWork, Working, WorkPcs
      <4> QED
        BY <1>1, <1>4, <3>1, <4>2 DEF Drawing, DrawingOf
    <3>3. CASE form[g].pc \notin Working
      BY <3>1, <3>3 DEF DrawingOf, Working, WorkPcs
    <3> QED
      BY <3>2, <3>3
  <2> QED
    BY <2>1 DEF Drawing
<1>7. GateKeys'
  <2>1. ASSUME NEW o \in Orders, gate'[o] # NoKey, NEW k, k = gate'[o]
        PROVE  form'[k] # FormNew /\ form'[k].order = o /\ HasToken(k)'
    <3>1. CASE gate[o] = k
      <4>1. k \in Forms
        BY <2>1, <3>1 DEF Typed, KeyTypes
      <4>2. form[k] # FormNew /\ form[k].order = o /\ HasToken(k)
        BY <1>1, <2>1, <3>1 DEF GateKeys
      <4> QED
        BY <1>2, <1>4, <4>1, <4>2
    <3>2. CASE gate[o] # k
      <4>1. o = form[f].order /\ k = f /\ form[f].pc = "insert"
        BY <1>3, <2>1, <3>2
      <4>2. HasToken(f)
        BY <1>1, <4>1 DEF Drawing, DrawingOf
      <4> QED
        BY <1>2, <1>4, <4>1, <4>2
    <3> QED
      BY <3>1, <3>2
  <2> QED
    BY <2>1 DEF GateKeys, HasToken, Token, OrderOf
<1>8. \A o \in Orders : \A k : Keeps(o, k) => Keeps(o, k)'
  BY <1>3 DEF Keeps
<1>9. WireKeys'
  <2>1. ASSUME NEW m \in wire'
        PROVE  Keeps(form[m.form].order, m.key)' /\ m.form \in Forms
    <3>1. CASE m \in wire
      <4>1. m.form \in Forms /\ form[m.form].order \in Orders
        BY <3>1, FormFields DEF Typed, KeyTypes, Sent
      <4> QED
        BY <1>1, <1>2, <1>8, <3>1, <4>1 DEF WireKeys, Keeps
    <3>2. CASE m.form = f /\ m.key = form[f].key /\ form[f].pc = "send"
      <4>1. Keeps(form[f].order, m.key)
        BY <1>1, <3>2 DEF Drawing, DrawingOf, Keeps
      <4> QED
        BY <1>2, <1>8, <3>2, <4>1 DEF Keeps
    <3> QED
      BY <3>1, <3>2
  <2>2. ASSUME NEW h \in Loops, loop'[h] # LoopIdle
        PROVE  Keeps(form[loop[h].form].order, loop[h].key)'
    <3>1. loop[h].form \in Forms /\ form[loop[h].form].order \in Orders
      BY <2>2, LoopFields DEF Order, OrderOf
    <3>2. Keeps(form[loop[h].form].order, loop[h].key)
      BY <1>1, <2>2 DEF WireKeys
    <3> QED
      BY <1>2, <1>8, <2>2, <3>1, <3>2 DEF Keeps
  <2> QED
    BY <2>1, <2>2 DEF WireKeys
<1>10. BilledKeys'
  <2>1. ASSUME NEW c \in Cars, billing[c] # NoKey
        PROVE  /\ billing[c] \in Forms /\ form[billing[c]].order \in Orders
    BY <1>1, <2>1, FormFields DEF BilledKeys, Typed, KeyTypes
  <2> QED
    BY <1>1, <1>2, <1>8, <2>1 DEF BilledKeys, Keeps
<1> QED
  BY <1>5, <1>6, <1>7, <1>9, <1>10 DEF Keys

LEMMA ProcessKeys ==
  ASSUME Typed, Keys, Clean, NEW f \in Forms, Process(f)
  PROVE  Keys'
<1> USE DEF requestVars, orderVars, gateVars, backVars
<1>1. UNCHANGED <<faults, carOf, billing, loop>>
  BY DEF Process, LookUpKey, Tokenise, SaveKey, InsertKey, SendWebhook, StopWaiting, PageHears
<1>2. Moves(f) /\ form[f] # FormNew
  BY ProcessMoves DEF Moves
<1>3. /\ form[f] \in [pc : WorkPcs \cup {"ok", "failed", "over"}, order : Orders, card : Cards,
                      key : Forms \cup {NoKey}, again : BOOLEAN]
      /\ form'[f].order = form[f].order /\ Token(f)' = Token(f) /\ faults' = faults
  BY <1>1, <1>2, FormFields, MovesType DEF Token, OrderOf
<1>4. DrawingOf(f)
  BY DEF Keys, Drawing
<1>5. CASE LookUpKey(f)
  <2>1. /\ form[f].pc = "look" /\ UNCHANGED <<gate, tokens, wire>>
        /\ \/ /\ gate[form[f].order] # NoKey
              /\ form'[f].pc = "send" /\ form'[f].key = gate[form[f].order]
           \/ gate[form[f].order] = NoKey /\ form'[f].pc = "token"
    BY <1>3, <1>5 DEF LookUpKey, HasKey, OrderOf, In, To, Typed, KeyTypes
  <2>2. DrawingOf(f)'
    BY <1>3, <2>1 DEF DrawingOf
  <2> QED
    BY <1>1, <1>2, <2>1, <2>2, MoveKeys DEF Working, WorkPcs
<1>6. CASE Tokenise(f)
  <2>1. /\ form[f].pc = "token" /\ UNCHANGED <<gate, wire>> /\ tokens \subseteq tokens'
        /\ \/ form'[f].pc = "save" /\ HasToken(f)'
           \/ form'[f].pc = "failed"
    BY <1>3, <1>6 DEF Tokenise, Untokenised, HasToken, In, To, Typed, KeyTypes
  <2>2. DrawingOf(f)'
    BY <1>3, <1>4, <2>1 DEF DrawingOf, HasToken
  <2> QED
    BY <1>1, <1>2, <2>1, <2>2, MoveKeys DEF Working, WorkPcs
<1>7. CASE SaveKey(f)
  <2>1. /\ form[f].pc = "save" /\ UNCHANGED <<gate, tokens, wire>>
        /\ gate[form[f].order] = NoKey => form'[f].pc = "insert" /\ form'[f].key = f
        /\ form'[f].pc \in {"send", "insert"}
    BY <1>3, <1>7 DEF SaveKey, OrderOf, In, Typed, KeyTypes
  <2>2. DrawingOf(f)'
    BY <1>3, <1>4, <2>1 DEF DrawingOf, HasToken
  <2> QED
    BY <1>1, <1>2, <2>1, <2>2, MoveKeys DEF Working, WorkPcs
<1>8. CASE InsertKey(f)
  <2>1. /\ form[f].pc = "insert" /\ UNCHANGED <<tokens, wire>>
        /\ form[f].key = f /\ gate[form[f].order] = NoKey
    BY <1>4, <1>8 DEF InsertKey, In, DrawingOf
  <2>2. /\ gate' = [gate EXCEPT ![form[f].order] = f]
        /\ form'[f].pc = "send" /\ form'[f].key = f
    BY <1>3, <1>8, <2>1 DEF InsertKey, OrderOf, To, Typed, KeyTypes
  <2>3. DrawingOf(f)'
    BY <1>3, <2>2, CardAssumption DEF DrawingOf, Typed, KeyTypes
  <2> QED
    BY <1>1, <1>2, <2>1, <2>2, <2>3, MoveKeys DEF Working, WorkPcs
<1>9. CASE SendWebhook(f)
  <2>1. /\ form[f].pc = "send" /\ UNCHANGED <<gate, tokens>>
        /\ wire' \in {wire, wire \cup {[form |-> f, key |-> form[f].key]}}
        /\ form'[f].pc \in {"wait", "ok", "failed"} /\ form'[f].key = form[f].key
    BY <1>3, <1>9 DEF SendWebhook, Unsent, In, To, Typed, KeyTypes
  <2>2. DrawingOf(f)'
    BY <1>3, <1>4, <2>1 DEF DrawingOf, HasToken
  <2> QED
    BY <1>1, <1>2, <2>1, <2>2, MoveKeys DEF Working, WorkPcs
<1>10. CASE StopWaiting(f) \/ PageHears(f)
  <2>1. /\ UNCHANGED <<gate, tokens, wire>>
        /\ \/ form[f].pc = "wait" /\ form'[f].pc \in {"ok", "failed"}
           \/ form'[f].pc = "over"
    BY <1>3, <1>10 DEF StopWaiting, PageHears, Unsent, In, To, Typed, KeyTypes
  <2>2. DrawingOf(f)'
    BY <2>1 DEF DrawingOf
  <2> QED
    BY <1>1, <1>2, <2>1, <2>2, MoveKeys DEF Working, WorkPcs
<1> QED
  BY <1>5, <1>6, <1>7, <1>8, <1>9, <1>10 DEF Process

\* An answer, whatever else its handler did.
LEMMA AnswerKeys ==
  ASSUME Typed, Keys, Clean, NEW h \in Loops, loop[h] # LoopIdle, NEW ok \in BOOLEAN, Answer(h, ok),
         UNCHANGED <<faults, carOf, billing, gate, tokens, wire>>
  PROVE  Keys'
<1>0. PICK f \in Forms : f = loop[h].form
  BY AnswerMoves
<1>1. loop' = [loop EXCEPT ![h] = LoopIdle]
  BY AnswerMoves
<1>2. \A g \in Loops : loop'[g] # LoopIdle => loop'[g] = loop[g]
  BY <1>1 DEF Typed, KeyTypes
<1>3. CASE UNCHANGED form
  BY <1>2, <1>3 DEF Keys, Clean, OneAtWork, Drawing, DrawingOf, GateKeys, WireKeys, BilledKeys, Keeps, HasToken, Token,
       OrderOf
<1>4. CASE ~UNCHANGED form
  <2>1. Moves(f) /\ form'[f] = [form[f] EXCEPT !.pc = IF ok THEN "ok" ELSE Unsent(f)] /\ form[f].pc = "wait"
    BY <1>0, <1>4, AnswerMoves DEF Answer, In
  <2>2. form'[f].pc \in {"ok", "failed"}
    BY <1>1, <2>1, FormFields DEF Moves, Unsent
  <2>3. DrawingOf(f)'
    BY <2>2 DEF DrawingOf
  <2> QED
    BY <1>1, <1>2, <2>1, <2>3, MoveKeys DEF Working, WorkPcs
<1> QED
  BY <1>3, <1>4

\* Nothing but the loops' place changes.
LEMMA StillKeys ==
  ASSUME Typed, Keys, UNCHANGED <<faults, carOf, billing, gate, tokens, form>>,
         wire' \subseteq wire,
         \A h \in Loops : loop'[h] # LoopIdle =>
           \/ loop[h] # LoopIdle /\ loop'[h].form = loop[h].form /\ loop'[h].key = loop[h].key
           \/ \E m \in wire : loop'[h].form = m.form /\ loop'[h].key = m.key
  PROVE  Keys'
<1> SUFFICES ASSUME Clean PROVE OneAtWork' /\ Drawing' /\ GateKeys' /\ WireKeys' /\ BilledKeys'
  BY DEF Keys, Clean
<1>1. OneAtWork' /\ Drawing' /\ GateKeys' /\ BilledKeys'
  BY DEF Keys, OneAtWork, Drawing, DrawingOf, GateKeys, BilledKeys, Keeps, HasToken, Token, OrderOf
<1>2. WireKeys'
  BY DEF Keys, WireKeys, Keeps
<1> QED
  BY <1>1, <1>2

LEMMA HandleKeys ==
  ASSUME Typed, Keys, Clean, NEW h \in Loops, Handle(h)
  PROVE  Keys'
<1> USE DEF requestVars, orderVars, gateVars, backVars
<1>0. loop[h] # LoopIdle
  BY HandleMoves
<1>1. UNCHANGED <<faults, carOf, gate, tokens, wire>>
  BY DEF Handle, RefuseOld, GetOrder, LookUpBilling, StoreKey, ReadOrder, WriteOrder
<1>2. CASE UNCHANGED billing
  <2>1. \/ \E ok \in BOOLEAN : Answer(h, ok)
        \/ UNCHANGED form
    BY DEF Handle, RefuseOld, GetOrder, LookUpBilling, StoreKey, ReadOrder, WriteOrder
  <2> QED
    BY <1>0, <1>1, <1>2, <2>1, AnswerKeys, StillKeys, HandleMoves
<1>3. CASE ~UNCHANGED billing
  <2> DEFINE k == loop[h].key
  <2>1. /\ billing' = [billing EXCEPT ![carOf[Order(h)]] = k] /\ UNCHANGED form
    BY <1>3 DEF Handle, RefuseOld, GetOrder, LookUpBilling, StoreKey, ReadOrder, WriteOrder
  <2>2. OneAtWork' /\ Drawing' /\ GateKeys'
    BY <1>1, <2>1 DEF Keys, OneAtWork, Drawing, DrawingOf, GateKeys, HasToken, Token, OrderOf
  <2>3. WireKeys'
    BY <1>1, <2>1, HandleMoves DEF Keys, WireKeys, Keeps
  <2>4. /\ Order(h) \in Orders /\ Keeps(Order(h), k)
    BY <1>0, LoopFields DEF Keys, WireKeys, Order, OrderOf
  <2>5. form[k] # FormNew /\ form[k].order = Order(h)
    BY <2>4 DEF Keys, GateKeys, Keeps
  <2>6. ASSUME NEW c \in Cars, billing'[c] # NoKey
        PROVE  /\ form[billing'[c]] # FormNew
               /\ carOf[form[billing'[c]].order] = c
               /\ Keeps(form[billing'[c]].order, billing'[c])
    <3>1. CASE c = carOf[Order(h)]
      BY <2>1, <2>4, <2>5, <3>1 DEF Typed, KeyTypes
    <3>2. CASE c # carOf[Order(h)]
      BY <2>1, <2>6, <3>2 DEF Keys, BilledKeys, Typed, KeyTypes
    <3> QED
      BY <3>1, <3>2
  <2>7. BilledKeys'
    BY <1>1, <2>1, <2>6 DEF BilledKeys, Keeps
  <2> QED
    BY <2>2, <2>3, <2>7 DEF Keys
<1> QED
  BY <1>2, <1>3

\* A page is not submitted while a submission of its order is at work.
LEMMA SubmitKeys ==
  ASSUME Typed, Keys, Clean, NEW f \in Forms, NEW c \in Cars, NEW x \in Cards, Submit(f, c, x)
  PROVE  Keys'
<1> USE DEF requestVars, orderVars, gateVars, backVars
<1>1. UNCHANGED <<faults, carOf, billing, gate, tokens, wire, loop>>
  BY DEF Submit
<1>2. /\ form[f] = FormNew /\ form'[f].pc = "look" /\ form'[f].order = page[c]
      /\ \A g \in Forms : g # f => form'[g] = form[g]
  BY DEF Submit, FormNew, Typed, KeyTypes
<1>3. \A g \in Forms : form[g].pc \in Working => form[g].order # page[c]
  BY DEF Submit, Clean, AtWork, FormsOf, Working
<1>4. \A g \in Forms : g # f => (HasToken(g) <=> HasToken(g)')
  BY <1>1, <1>2 DEF HasToken, Token, OrderOf
<1>5. OneAtWork' /\ Drawing'
  BY <1>1, <1>2, <1>3, <1>4 DEF Keys, OneAtWork, Drawing, DrawingOf
<1>6. GateKeys'
  <2>1. \A o \in Orders : gate[o] # NoKey => gate[o] \in Forms /\ gate[o] # f
    BY <1>2 DEF Keys, GateKeys, Typed, KeyTypes
  <2> QED
    BY <1>1, <1>2, <2>1 DEF Keys, GateKeys, HasToken, Token, OrderOf
<1>7. WireKeys'
  <2>1. /\ \A m \in wire : m.form \in Forms /\ m.form # f
        /\ \A h \in Loops : loop[h] # LoopIdle => loop[h].form \in Forms /\ loop[h].form # f
    BY <1>2 DEF Typed, KeyTypes, LoopType, Sent
  <2> QED
    BY <1>1, <1>2, <2>1 DEF Keys, WireKeys, Keeps
<1>8. BilledKeys'
  <2>1. \A d \in Cars : billing[d] # NoKey => billing[d] \in Forms /\ billing[d] # f
    BY <1>2 DEF Keys, BilledKeys, Typed, KeyTypes
  <2> QED
    BY <1>1, <1>2, <2>1 DEF Keys, BilledKeys, Keeps
<1> QED
  BY <1>5, <1>6, <1>7, <1>8 DEF Keys

LEMMA SaveOrderKeys ==
  ASSUME Typed, Numbered, Keys, Clean, NEW c \in Cars, SaveOrder(c)
  PROVE  Keys'
<1> USE DEF requestVars, orderVars, gateVars, backVars
<1>1. UNCHANGED <<faults, billing, gate, tokens, wire, loop, form>>
  BY DEF SaveOrder
<1>2. \A k \in Forms : form[k] # FormNew => carOf'[form[k].order] = carOf[form[k].order]
  <2>1. \A k \in Forms : form[k] # FormNew => form[k].order \in Orders /\ form[k].order <= drawn
    BY FormFields DEF Numbered
  <2>2. drawn \in Nat /\ \A o \in Orders : o \in Nat
    BY CardAssumption DEF Typed, OrderTypes, Orders
  <2>3. \A o \in Orders : o # drawn + 1 => carOf'[o] = carOf[o]
    BY DEF SaveOrder, Typed, OrderTypes
  <2> QED
    BY <2>1, <2>2, <2>3
<1>3. OneAtWork' /\ Drawing' /\ GateKeys' /\ WireKeys'
  BY <1>1 DEF Keys, OneAtWork, Drawing, DrawingOf, GateKeys, WireKeys, Keeps, HasToken, Token, OrderOf
<1>4. BilledKeys'
  BY <1>1, <1>2 DEF Keys, BilledKeys, Keeps, Typed, KeyTypes
<1> QED
  BY <1>3, <1>4 DEF Keys

\* What may go wrong is fixed from the start.
LEMMA FaultsStay == [Next]_vars => UNCHANGED faults
<1> SUFFICES ASSUME [Next]_vars PROVE UNCHANGED faults
  OBVIOUS
<1>1. ASSUME NEW f \in Forms, Process(f)
      PROVE  UNCHANGED faults
  BY <1>1 DEF Process, LookUpKey, Tokenise, SaveKey, InsertKey, SendWebhook, StopWaiting, PageHears
<1>2. ASSUME NEW h \in Loops, Handle(h)
      PROVE  UNCHANGED faults
  BY <1>2 DEF Handle, RefuseOld, GetOrder, LookUpBilling, StoreKey, ReadOrder, WriteOrder
<1>3. ASSUME NEW c \in Cars, UpdatePlate(c) \/ SaveOrder(c) \/ AskUrl(c) \/ ConfirmVehicle(c)
      PROVE  UNCHANGED faults
  BY <1>3 DEF UpdatePlate, SaveOrder, AskUrl, ConfirmVehicle
<1>4. ASSUME NEW c \in Cars, NEW p \in Plates, RequestOrder(c, p)
      PROVE  UNCHANGED faults
  BY <1>4 DEF RequestOrder
<1>5. ASSUME NEW f \in Forms, NEW c \in Cars, NEW x \in Cards, Submit(f, c, x)
      PROVE  UNCHANGED faults
  BY <1>5 DEF Submit
<1>6. ASSUME NEW h \in Loops, NEW m \in wire, TakeWebhook(h, m)
      PROVE  UNCHANGED faults
  BY <1>6 DEF TakeWebhook
<1>7. ASSUME NEW o \in Orders, Expire(o)
      PROVE  UNCHANGED faults
  BY <1>7 DEF Expire
<1>8. (UNCHANGED vars => UNCHANGED faults) /\ (Crash => UNCHANGED faults)
  BY DEF vars, Crash
<1>9. CASE UNCHANGED vars
  BY <1>8, <1>9
<1>10. CASE Next
  BY <1>1, <1>2, <1>3, <1>4, <1>5, <1>6, <1>7, <1>8, <1>10 DEF Next
<1> QED
  BY <1>9, <1>10

LEMMA NextKeys == Typed /\ Numbered /\ Keys /\ [Next]_vars => Keys'
<1> SUFFICES ASSUME Typed, Numbered, Keys, [Next]_vars PROVE Keys'
  OBVIOUS
<1> SUFFICES ASSUME Clean PROVE Keys'
  BY FaultsStay DEF Keys, Clean
<1> USE DEF requestVars, orderVars, gateVars, backVars
<1>1. CASE \/ UNCHANGED vars
           \/ \E c \in Cars, p \in Plates : RequestOrder(c, p)
           \/ \E c \in Cars : UpdatePlate(c) \/ AskUrl(c) \/ ConfirmVehicle(c)
           \/ \E o \in Orders : Expire(o)
  <2>1. UNCHANGED <<faults, carOf, billing, gate, tokens, form, wire, loop>>
    BY <1>1 DEF vars, cardVars, RequestOrder, UpdatePlate, AskUrl, ConfirmVehicle, Expire
  <2> QED
    BY <2>1, StillKeys
<1>2. CASE \E h \in Loops, m \in wire : TakeWebhook(h, m)
  <2>1. PICK h \in Loops, m \in wire : TakeWebhook(h, m)
    BY <1>2
  <2>2. /\ UNCHANGED <<faults, carOf, billing, gate, tokens, form>> /\ wire' \subseteq wire
        /\ loop'[h].form = m.form /\ loop'[h].key = m.key
        /\ \A g \in Loops : g # h => loop'[g] = loop[g]
    BY <2>1 DEF TakeWebhook, Typed, KeyTypes
  <2> QED
    BY <2>2, StillKeys
<1>3. CASE Crash
  <2>1. UNCHANGED <<faults, carOf, billing, gate, tokens, wire>>
    BY <1>3 DEF Crash
  <2>2. ASSUME NEW f \in Forms, Moves(f), form'[f].pc = "failed", UNCHANGED loop
        PROVE  Keys'
    <3>1. DrawingOf(f)'
      BY <2>2 DEF DrawingOf
    <3> QED
      BY <2>1, <2>2, <3>1, MoveKeys DEF Working, WorkPcs
  <2> QED
    BY <1>3, <2>1, <2>2, CrashMoves, AnswerKeys, StillKeys
<1> QED
  BY <1>1, <1>2, <1>3, ProcessKeys, HandleKeys, SubmitKeys, SaveOrderKeys DEF Next

LEMMA KeysHold == Spec => [](Numbered /\ Keys)
<1>1. Spec => []Numbered
  BY InitNumbered, NextNumbered, TypedHolds, PTL DEF Spec
<1> QED
  BY <1>1, InitKeys, NextKeys, TypedHolds, PTL DEF Spec

\* The key that is charged for a car is the gateway's key of an order of that car, and
\* the card company has a token of its card, whatever dies, is lost or comes twice, as
\* long as a page is not submitted twice at once and the gateway makes up no token.
THEOREM ChargedKeyIsKnown == Spec => []KeyIsKnown
BY KeysHold, KeysGiveKnown, TypedHolds, PTL
=============================================================================
