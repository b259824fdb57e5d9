-------------------------- MODULE CardOrderProofs --------------------------
(***************************************************************************)
(* The orders of a car, one after the other: the key of an older order     *)
(* does not replace that of a newer one, and the card the app shows is the *)
(* one that is charged.                                                    *)
(*                                                                         *)
(* Both rest on one invariant: of the orders of a car, only the last may   *)
(* still have a key stored for it.  An order before it is settled, which   *)
(* means that nobody is at work on it and that a webhook for it, if one is *)
(* still under way, does not find it pending.                              *)
(***************************************************************************)
EXTENDS CardRegistrationProofs

-----------------------------------------------------------------------------
(* The steps, one by one.                                                  *)

\* A submission goes from one place to another.
Goes(f, from, to) == form[f].pc = from /\ form'[f].pc = to
\* It keeps its key.
Keeping(f) == form'[f].key = form[f].key /\ form'[f].again = form[f].again

\* Where a submission goes on its own.
Draws(f) ==
  LET o == form[f].order IN
  \/ /\ Goes(f, "look", "send") /\ gate[o] # NoKey /\ form'[f].key = gate[o]
  \/ Goes(f, "look", "token") /\ gate[o] = NoKey /\ Keeping(f)
  \/ form[f].pc = "token" /\ form'[f].pc \in {"save", "failed"} /\ Keeping(f)
  \/ Goes(f, "save", "send") /\ gate[o] # NoKey /\ form'[f].key = f /\ form'[f].again = form[f].again
  \/ Goes(f, "save", "insert") /\ form'[f].key = f /\ form'[f].again = form[f].again
  \/ Goes(f, "insert", "failed") /\ gate[o] # NoKey /\ Keeping(f)
  \/ Goes(f, "send", Unsent(f)) /\ "webhook" \in faults /\ Keeping(f)
  \/ Goes(f, "wait", Unsent(f)) /\ "timeout" \in faults /\ Keeping(f)

Saves(f) ==
  /\ Goes(f, "insert", "send") /\ Keeping(f)
  /\ gate[form[f].order] = NoKey
  /\ gate' = [gate EXCEPT ![form[f].order] = form[f].key]

Sends(f) ==
  /\ Goes(f, "send", "wait") /\ Keeping(f)
  /\ wire' = wire \cup {[form |-> f, key |-> form[f].key]}

Ends(f) ==
  LET c == carOf[form[f].order] IN
  /\ form[f].pc \in {"ok", "failed"} /\ form'[f].pc = "over" /\ Keeping(f)
  /\ \/ form[f].pc = "ok" /\ page[c] = form[f].order
        /\ app' = [app EXCEPT ![c] = form[f].card] /\ page' = [page EXCEPT ![c] = NoOrder]
     \/ /\ UNCHANGED <<app, page>>
        /\ form[f].pc = "ok" /\ page[c] = form[f].order => "unheard" \in faults

LEMMA ProcessSteps ==
  ASSUME Typed, NEW f \in Forms, Process(f)
  PROVE  /\ form[f] # FormNew /\ form[f].order \in Orders
         /\ UNCHANGED <<faults, req, vehicle, drawn, order, carOf, lasting, loop, billing, stored>>
         /\ \A g \in Forms : /\ g # f => form'[g] = form[g]
                             /\ form[g] # FormNew <=> form'[g] # FormNew
                             /\ form'[g].order = form[g].order
                             /\ form'[g].card = form[g].card
         /\ \/ Draws(f) /\ UNCHANGED <<gate, wire, page, app>>
            \/ Saves(f) /\ UNCHANGED <<wire, page, app>>
            \/ Sends(f) /\ UNCHANGED <<gate, page, app>>
            \/ Ends(f) /\ UNCHANGED <<gate, wire>>
<1> USE DEF requestVars, orderVars, gateVars, backVars
<1>1. Moves(f) /\ form[f] # FormNew
  BY ProcessMoves DEF Moves
<1>2. form[f] \in [pc : WorkPcs \cup {"ok", "failed", "over"}, order : Orders, card : Cards,
                   key : Forms \cup {NoKey}, again : BOOLEAN]
  BY <1>1, FormFields
<1>3. UNCHANGED <<faults, req, vehicle, drawn, order, carOf, lasting, loop, billing, stored>>
  BY DEF Process, LookUpKey, Tokenise, SaveKey, InsertKey, SendWebhook, StopWaiting, PageHears
<1> SUFFICES \/ Draws(f) /\ UNCHANGED <<gate, wire, page, app>>
             \/ Saves(f) /\ UNCHANGED <<wire, page, app>>
             \/ Sends(f) /\ UNCHANGED <<gate, page, app>>
             \/ Ends(f) /\ UNCHANGED <<gate, wire>>
  BY <1>1, <1>2, <1>3, MovesType
<1>4. ASSUME NEW to, To(f, to)
      PROVE  form'[f].pc = to /\ Keeping(f)
  BY <1>2, <1>4 DEF To, Keeping, Typed, KeyTypes
<1>5. CASE LookUpKey(f)
  <2>1. CASE HasKey(OrderOf(f))
    BY <1>2, <1>5, <2>1 DEF LookUpKey, HasKey, OrderOf, In, Draws, Goes, Typed, KeyTypes
  <2>2. CASE ~HasKey(OrderOf(f))
    <3>1. To(f, "token") /\ gate[form[f].order] = NoKey /\ form[f].pc = "look"
          /\ UNCHANGED <<gate, wire, page, app>>
      BY <1>5, <2>2 DEF LookUpKey, HasKey, OrderOf, In
    <3>2. Draws(f)
      BY <1>4, <3>1 DEF Draws, Goes
    <3> QED
      BY <3>1, <3>2
  <2> QED
    BY <2>1, <2>2
<1>6. CASE Tokenise(f)
  <2>1. form[f].pc = "token" /\ UNCHANGED <<gate, wire, page, app>>
        /\ (To(f, "save") \/ To(f, "failed"))
    BY <1>6 DEF Tokenise, Untokenised, In
  <2>2. Draws(f)
    BY <1>4, <2>1 DEF Draws
  <2> QED
    BY <2>1, <2>2
<1>7. CASE SaveKey(f)
  <2>1. form[f].pc = "save" /\ UNCHANGED <<gate, wire, page, app>>
        /\ form'[f].key = f /\ form'[f].again = form[f].again
        /\ \/ gate[form[f].order] # NoKey /\ form'[f].pc = "send"
           \/ form'[f].pc = "insert"
    BY <1>2, <1>7 DEF SaveKey, In, OrderOf, Typed, KeyTypes
  <2> QED
    BY <2>1 DEF Draws, Goes
<1>8. CASE InsertKey(f)
  <2>1. /\ form[f].pc = "insert" /\ UNCHANGED <<wire, page, app>>
        /\ \/ /\ gate[form[f].order] = NoKey /\ To(f, "send")
              /\ gate' = [gate EXCEPT ![form[f].order] = form[f].key]
           \/ gate[form[f].order] # NoKey /\ To(f, "failed") /\ UNCHANGED gate
    BY <1>8 DEF InsertKey, In, OrderOf
  <2> QED
    BY <1>4, <2>1 DEF Draws, Saves, Goes
<1>9. CASE SendWebhook(f)
  <2>1. /\ form[f].pc = "send" /\ UNCHANGED <<gate, page, app>>
        /\ \/ To(f, "wait") /\ wire' = wire \cup {[form |-> f, key |-> form[f].key]}
           \/ "webhook" \in faults /\ To(f, Unsent(f)) /\ UNCHANGED wire
    BY <1>9 DEF SendWebhook, In
  <2> QED
    BY <1>4, <2>1 DEF Draws, Sends, Goes
<1>10. CASE StopWaiting(f)
  <2>1. form[f].pc = "wait" /\ "timeout" \in faults /\ To(f, Unsent(f)) /\ UNCHANGED <<gate, wire, page, app>>
    BY <1>10 DEF StopWaiting, In
  <2> QED
    BY <1>4, <2>1 DEF Draws, Goes
<1>11. CASE PageHears(f)
  <2>1. Ends(f) /\ UNCHANGED <<gate, wire>>
    BY <1>4, <1>11 DEF PageHears, In, OrderOf, Ends
  <2> QED
    BY <2>1
<1> QED
  BY <1>5, <1>6, <1>7, <1>8, <1>9, <1>10, <1>11 DEF Process

\* A handler goes on to another place.
Passes(h, from, to) ==
  loop[h].pc = from /\ loop'[h] = [loop[h] EXCEPT !.pc = to] /\ UNCHANGED form

Finds(h) ==
  LET o == Order(h) IN
  \/ Passes(h, "order", "upsert") /\ order[o] = "pending"
  \/ Passes(h, "upsert", "add") /\ billing[carOf[o]] = NoKey
  \/ Passes(h, "upsert", "set")
  \/ Passes(h, "mark", "write") /\ order[o] # "gone"

Stores(h) ==
  /\ Passes(h, "add", "mark") \/ Passes(h, "set", "mark")
  /\ billing' = [billing EXCEPT ![carOf[Order(h)]] = loop[h].key]
  /\ stored' = stored \cup {Order(h)}

\* It is done, and its submission has its answer if it waits.
Tells(h) ==
  LET f == loop[h].form IN
  /\ loop'[h] = LoopIdle
  /\ \/ form[f].pc # "wait" /\ UNCHANGED form
     \/ Goes(f, "wait", "ok") /\ Keeping(f)
     \/ Goes(f, "wait", Unsent(f)) /\ Keeping(f)

Answers(h) ==
  LET o == Order(h) IN
  /\ Tells(h)
  /\ \/ loop[h].pc = "order" /\ "timeout" \in faults /\ UNCHANGED order
     \/ loop[h].pc = "order" /\ order[o] # "pending" /\ UNCHANGED order
     \/ loop[h].pc = "add" /\ billing[carOf[o]] # NoKey /\ UNCHANGED order
     \/ loop[h].pc = "mark" /\ order[o] = "gone" /\ UNCHANGED order
     \/ loop[h].pc \in {"mark", "write"} /\ "redis" \in faults /\ UNCHANGED order
     \/ loop[h].pc = "write" /\ order' = [order EXCEPT ![o] = "complete"]

LEMMA HandleSteps ==
  ASSUME Typed, NEW h \in Loops, Handle(h)
  PROVE  /\ loop[h] # LoopIdle /\ loop[h].form \in Forms /\ loop[h].key \in Forms
         /\ form[loop[h].form] # FormNew /\ Order(h) \in Orders
         /\ UNCHANGED <<faults, req, vehicle, drawn, page, carOf, gate, tokens, wire, app>>
         /\ \A g \in Loops \ {h} : loop'[g] = loop[g]
         /\ \A g \in Forms : /\ g # loop[h].form => form'[g] = form[g]
                             /\ form[g] # FormNew <=> form'[g] # FormNew
                             /\ form'[g].order = form[g].order
                             /\ form'[g].card = form[g].card
         /\ \/ Finds(h) /\ UNCHANGED <<order, billing, stored>>
            \/ Stores(h) /\ UNCHANGED order
            \/ Answers(h) /\ UNCHANGED <<billing, stored>>
<1> USE DEF requestVars, orderVars, gateVars, backVars
<1> DEFINE f == loop[h].form
           o == Order(h)
<1>1. /\ loop[h] # LoopIdle
      /\ loop[h] \in [pc : LoopPcs, form : Forms, key : Forms]
      /\ form[f] # FormNew /\ o \in Orders
  BY HandleMoves, LoopFields
<1>2. UNCHANGED <<faults, req, vehicle, drawn, page, carOf, gate, tokens, wire, app>>
  BY DEF Handle, RefuseOld, GetOrder, LookUpBilling, StoreKey, ReadOrder, WriteOrder
<1>3. /\ \A g \in Loops \ {h} : loop'[g] = loop[g]
      /\ \A g \in Forms : /\ g # f => form'[g] = form[g]
                          /\ form[g] # FormNew <=> form'[g] # FormNew
                          /\ form'[g].order = form[g].order
                          /\ form'[g].card = form[g].card
  BY <1>1, HandleMoves, MovesType
<1> SUFFICES \/ Finds(h) /\ UNCHANGED <<order, billing, stored>>
             \/ Stores(h) /\ UNCHANGED order
             \/ Answers(h) /\ UNCHANGED <<billing, stored>>
  BY <1>1, <1>2, <1>3
<1>4. ASSUME NEW to \in LoopPcs, ToLoop(h, to), UNCHANGED form
      PROVE  Passes(h, loop[h].pc, to)
  BY <1>1, <1>4, ToLoopType DEF Passes
<1>5. ASSUME NEW ok \in BOOLEAN, Answer(h, ok)
      PROVE  Tells(h)
  <2>1. loop'[h] = LoopIdle
    BY <1>5 DEF Answer, Typed, KeyTypes
  <2>2. CASE form[f].pc # "wait"
    BY <1>5, <2>1, <2>2 DEF Answer, In, Tells
  <2>3. CASE form[f].pc = "wait"
    <3>1. form' = [form EXCEPT ![f].pc = IF ok THEN "ok" ELSE Unsent(f)]
      BY <1>5, <2>3 DEF Answer, In
    <3>2. form[f] \in [pc : WorkPcs \cup {"ok", "failed", "over"}, order : Orders, card : Cards,
                       key : Forms \cup {NoKey}, again : BOOLEAN]
      BY <1>1, FormFields
    <3>3. form'[f].pc = (IF ok THEN "ok" ELSE Unsent(f)) /\ Keeping(f)
      BY <1>1, <3>1, <3>2 DEF Keeping, Typed, KeyTypes
    <3> QED
      BY <2>1, <2>3, <3>3 DEF Tells, Goes
  <2> QED
    BY <2>2, <2>3
<1>6. CASE RefuseOld(h)
  BY <1>5, <1>6 DEF RefuseOld, At, Answers
<1>7. CASE GetOrder(h)
  <2>1. /\ loop[h].pc = "order" /\ UNCHANGED <<order, billing, stored>>
        /\ \/ order[o] = "pending" /\ ToLoop(h, "upsert") /\ UNCHANGED form
           \/ order[o] # "pending" /\ \E ok \in BOOLEAN : Answer(h, ok)
    BY <1>7 DEF GetOrder, At
  <2> QED
    BY <1>4, <1>5, <2>1 DEF LoopPcs, Finds, Answers
<1>8. CASE LookUpBilling(h)
  <2>1. /\ loop[h].pc = "upsert" /\ UNCHANGED <<order, billing, stored, form>>
        /\ \/ billing[carOf[o]] = NoKey /\ ToLoop(h, "add")
           \/ ToLoop(h, "set")
    BY <1>8 DEF LookUpBilling, WithoutRow, At
  <2> QED
    BY <1>4, <2>1 DEF LoopPcs, Finds
<1>9. CASE StoreKey(h)
  <2>1. /\ loop[h].pc \in {"add", "set"} /\ UNCHANGED order
        /\ \/ /\ loop[h].pc = "add" /\ billing[carOf[o]] # NoKey /\ Answer(h, FALSE)
              /\ UNCHANGED <<billing, stored>>
           \/ /\ billing' = [billing EXCEPT ![carOf[o]] = loop[h].key] /\ stored' = stored \cup {o}
              /\ ToLoop(h, "mark") /\ UNCHANGED form
    BY <1>9 DEF StoreKey, At
  <2> QED
    BY <1>4, <1>5, <2>1 DEF LoopPcs, Stores, Answers
<1>10. CASE ReadOrder(h)
  <2>1. /\ loop[h].pc = "mark" /\ UNCHANGED <<order, billing, stored>>
        /\ \/ order[o] # "gone" /\ ToLoop(h, "write") /\ UNCHANGED form
           \/ order[o] = "gone" /\ Answer(h, TRUE)
           \/ "redis" \in faults /\ Answer(h, FALSE)
    BY <1>10 DEF ReadOrder, At
  <2> QED
    BY <1>4, <1>5, <2>1 DEF LoopPcs, Finds, Answers
<1>11. CASE WriteOrder(h)
  <2>1. /\ loop[h].pc = "write" /\ UNCHANGED <<billing, stored>>
        /\ \/ order' = [order EXCEPT ![o] = "complete"] /\ Answer(h, TRUE)
           \/ "redis" \in faults /\ Answer(h, FALSE) /\ UNCHANGED order
    BY <1>11 DEF WriteOrder, At, Completed
  <2> QED
    BY <1>5, <2>1 DEF Answers
<1> QED
  BY <1>6, <1>7, <1>8, <1>9, <1>10, <1>11 DEF Handle

LEMMA SubmitSteps ==
  ASSUME Typed, NEW f \in Forms, NEW c \in Cars, NEW x \in Cards, Submit(f, c, x)
  PROVE  /\ form[f] = FormNew /\ page[c] \in Orders
         /\ "double" \in faults \/ ~AtWork(page[c])
         /\ form'[f].pc = "look" /\ form'[f].order = page[c] /\ form'[f].card = x /\ form'[f].again = FALSE
         /\ \A g \in Forms \ {f} : form'[g] = form[g]
         /\ UNCHANGED <<faults, req, vehicle, drawn, page, order, carOf, lasting, gate, tokens, wire,
                        loop, billing, stored, app>>
         /\ \A m \in wire : m.form \in Forms \ {f}
         /\ \A h \in Loops : loop[h] # LoopIdle => loop[h].form \in Forms \ {f}
<1> USE DEF requestVars, orderVars, gateVars, backVars
<1>1. form[f] = FormNew
  BY DEF Submit
<1>2. /\ \A m \in wire : m.form \in Forms \ {f}
      /\ \A h \in Loops : loop[h] # LoopIdle => loop[h].form \in Forms \ {f}
  BY <1>1 DEF Typed, KeyTypes, LoopType, Sent
<1>3. page[c] \in Orders
  BY DEF Submit, Typed, OrderTypes
<1>4. form'[f] = [FormNew EXCEPT !.pc = "look", !.order = page[c], !.card = x]
      /\ \A g \in Forms \ {f} : form'[g] = form[g]
  BY DEF Submit, Typed, KeyTypes
<1>5. form'[f].pc = "look" /\ form'[f].order = page[c] /\ form'[f].card = x /\ form'[f].again = FALSE
  BY <1>4 DEF FormNew
<1>6. /\ "double" \in faults \/ ~AtWork(page[c])
      /\ UNCHANGED <<faults, req, vehicle, drawn, page, order, carOf, lasting, gate, tokens, wire,
                     loop, billing, stored, app>>
  BY DEF Submit
<1> QED
  BY <1>1, <1>2, <1>3, <1>4, <1>5, <1>6

LEMMA TakeSteps ==
  ASSUME Typed, NEW h \in Loops, NEW m \in wire, TakeWebhook(h, m)
  PROVE  /\ m.form \in Forms /\ m.key \in Forms /\ form[m.form] # FormNew /\ form[m.form].order \in Orders
         /\ loop[h] = LoopIdle /\ loop'[h] = [pc |-> "order", form |-> m.form, key |-> m.key]
         /\ \A g \in Loops \ {h} : loop'[g] = loop[g]
         /\ wire' = wire \ {m} \/ (wire' = wire /\ "duplicate" \in faults)
         /\ UNCHANGED <<faults, req, vehicle, drawn, page, order, carOf, lasting, form, gate, tokens,
                        billing, stored, app>>
<1> USE DEF requestVars, orderVars, gateVars, backVars
<1> USE DEF requestVars, orderVars, gateVars, backVars
<1>1. m.form \in Forms /\ m.key \in Forms /\ form[m.form] # FormNew
  BY DEF Typed, KeyTypes, Sent
<1>2. form[m.form].order \in Orders
  BY <1>1, FormFields
<1>3. loop'[h] = [pc |-> "order", form |-> m.form, key |-> m.key]
      /\ \A g \in Loops \ {h} : loop'[g] = loop[g]
  BY DEF TakeWebhook, Typed, KeyTypes
<1> QED
  BY <1>1, <1>2, <1>3 DEF TakeWebhook

\* The other steps, but for a death, leave submissions, webhooks and keys alone.
LEMMA RequestSteps ==
  ASSUME \/ UNCHANGED vars
         \/ \E c \in Cars, p \in Plates : RequestOrder(c, p)
         \/ \E c \in Cars : UpdatePlate(c) \/ SaveOrder(c) \/ AskUrl(c) \/ ConfirmVehicle(c)
         \/ \E o \in Orders : Expire(o)
  PROVE  UNCHANGED <<faults, form, gate, tokens, wire, loop, billing, stored, app>>
BY DEF vars, cardVars, requestVars, orderVars, gateVars, backVars, RequestOrder, UpdatePlate, SaveOrder,
   AskUrl, ConfirmVehicle, Expire

-----------------------------------------------------------------------------
(* The names of the keys, and the car of an order.                         *)

\* A key is of a submission of the order it is drawn for.
Names(k, o) == k \in Forms /\ form[k] # FormNew /\ form[k].order = o

OrderNames ==
  /\ \A o \in Orders : carOf[o] # NoCar => o <= drawn
  /\ \A c \in Cars : /\ req[c].pc = "url" => req[c].order \in Orders /\ carOf[req[c].order] = c
                     /\ page[c] # NoOrder => carOf[page[c]] = c
  /\ \A f \in Forms : form[f] # FormNew => carOf[form[f].order] \in Cars
  /\ \A o \in stored : carOf[o] \in Cars

KeyNames ==
  /\ \A f \in Forms : form[f].pc \in {"insert", "send", "wait"} => Names(form[f].key, form[f].order)
  /\ \A o \in Orders : gate[o] # NoKey => Names(gate[o], o)
  /\ \A m \in wire : Names(m.key, form[m.form].order)
  /\ \A h \in Loops : loop[h] # LoopIdle => Names(loop[h].key, Order(h))
  /\ \A c \in Cars : billing[c] # NoKey =>
       form[billing[c]] # FormNew /\ carOf[form[billing[c]].order] = c

Named == OrderNames /\ KeyNames

LEMMA InitNamed == Init => Named
BY DEF Init, Named, OrderNames, KeyNames, ReqIdle, FormNew, LoopIdle

\* An order that is drawn keeps its car, and it is not drawn again.
LEMMA CarsStay ==
  ASSUME Typed, [Next]_vars
  PROVE  /\ \A o \in Orders : o <= drawn => carOf'[o] = carOf[o]
         /\ \/ UNCHANGED <<drawn, carOf>>
            \/ drawn' = drawn + 1 /\ \E c \in Cars : SaveOrder(c)
<1> USE DEF requestVars, orderVars, gateVars, backVars
<1>1. UNCHANGED <<drawn, carOf>> \/ \E c \in Cars : SaveOrder(c)
  BY DEF Next, vars, cardVars, RequestOrder, UpdatePlate, AskUrl, ConfirmVehicle, Expire,
       Submit, TakeWebhook, Process, LookUpKey, Tokenise, SaveKey, InsertKey, SendWebhook, StopWaiting,
       PageHears, Handle, RefuseOld, GetOrder, LookUpBilling, StoreKey, ReadOrder, WriteOrder, Crash
<1>2. ASSUME NEW c \in Cars, SaveOrder(c)
      PROVE  drawn' = drawn + 1 /\ \A o \in Orders : o <= drawn => carOf'[o] = carOf[o]
  <2>1. drawn' = drawn + 1 /\ carOf' \in {carOf, [carOf EXCEPT ![drawn'] = c]}
    BY <1>2 DEF SaveOrder
  <2>2. drawn \in Nat /\ \A o \in Orders : o \in Nat
    BY CardAssumption DEF Typed, OrderTypes, Orders
  <2> QED
    BY <2>1, <2>2 DEF Typed, OrderTypes
<1> QED
  BY <1>1, <1>2

LEMMA NextOrderNames ==
  ASSUME Typed, Numbered, OrderNames, [Next]_vars
  PROVE  OrderNames'
<1> USE DEF requestVars, orderVars, gateVars, backVars
<1>0. drawn \in Nat /\ \A o \in Orders : o \in Nat
  BY CardAssumption DEF Typed, OrderTypes, Orders
<1>1. \A o \in Orders : carOf[o] # NoCar => carOf'[o] = carOf[o]
  BY CarsStay DEF OrderNames
<1>2. \A o \in Orders : carOf'[o] # NoCar => o <= drawn'
  <2>1. CASE UNCHANGED <<drawn, carOf>>
    BY <2>1 DEF OrderNames
  <2>2. ASSUME NEW c \in Cars, SaveOrder(c), drawn' = drawn + 1
        PROVE  \A o \in Orders : carOf'[o] # NoCar => o <= drawn'
    <3>1. carOf' \in {carOf, [carOf EXCEPT ![drawn'] = c]}
      BY <2>2 DEF SaveOrder
    <3>2. \A o \in Orders : o = drawn' \/ carOf'[o] = carOf[o]
      BY <3>1 DEF Typed, OrderTypes
    <3> QED
      BY <1>0, <2>2, <3>2 DEF OrderNames
  <2> QED
    BY <2>1, <2>2, CarsStay
<1>3. \A f \in Forms : form'[f] # FormNew => carOf'[form'[f].order] \in Cars
  <2>1. \A f \in Forms : form[f] # FormNew => form[f].order \in Orders /\ form'[f].order = form[f].order
    BY FormsStay, FormFields
  <2>2. \A f \in Forms : form[f] # FormNew => carOf'[form'[f].order] \in Cars
    BY <1>1, <2>1, CardAssumption DEF OrderNames
  <2>3. \A f \in Forms : form[f] = FormNew =>
          form'[f] = FormNew \/ (\E c \in Cars : form'[f].order = page[c] /\ page[c] \in Orders /\ UNCHANGED carOf)
    <3>1. ASSUME NEW f \in Forms, NEW c \in Cars, NEW x \in Cards, Submit(f, c, x)
          PROVE  /\ form'[f].order = page[c] /\ page[c] \in Orders /\ UNCHANGED carOf
                 /\ \A g \in Forms \ {f} : form'[g] = form[g]
      BY <3>1, SubmitSteps
    <3>2. CASE ~\E f \in Forms, c \in Cars, x \in Cards : Submit(f, c, x)
      <4>1. CASE \E f \in Forms : Process(f)
        BY <4>1, ProcessSteps
      <4>2. CASE \E h \in Loops : Handle(h)
        BY <4>2, HandleSteps
      <4>3. CASE Crash
        BY <4>3, CrashMoves, AnswerMoves, MovesType
      <4>4. CASE \E h \in Loops, m \in wire : TakeWebhook(h, m)
        BY <4>4, TakeSteps
      <4> QED
        BY <3>2, <4>1, <4>2, <4>3, <4>4, RequestSteps DEF Next
    <3> QED
      BY <3>1, <3>2
  <2> QED
    BY <2>2, <2>3, CardAssumption DEF OrderNames, NoOrder, Orders
<1>4. \A o \in stored' : carOf'[o] \in Cars
  <2>1. \/ stored' = stored
        \/ \E h \in Loops : loop[h] # LoopIdle /\ loop[h].form \in Forms /\ form[loop[h].form] # FormNew
             /\ Order(h) \in Orders /\ stored' = stored \cup {Order(h)} /\ UNCHANGED carOf
    <3>1. CASE \E h \in Loops : Handle(h)
      BY <3>1, HandleSteps DEF Stores
    <3>2. CASE ~\E h \in Loops : Handle(h)
      BY <3>2 DEF Next, vars, cardVars, RequestOrder, UpdatePlate, SaveOrder, AskUrl, ConfirmVehicle, Expire,
        Submit, TakeWebhook, Process, LookUpKey, Tokenise, SaveKey, InsertKey, SendWebhook, StopWaiting,
        PageHears, Crash
    <3> QED
      BY <3>1, <3>2
  <2>2. \A o \in stored : carOf'[o] \in Cars
    BY <1>1, CardAssumption DEF OrderNames, Typed, KeyTypes
  <2> QED
    BY <2>1, <2>2 DEF OrderNames, Order, OrderOf
<1>5. \A c \in Cars : /\ req'[c].pc = "url" => req'[c].order \in Orders /\ carOf'[req'[c].order] = c
                      /\ page'[c] # NoOrder => carOf'[page'[c]] = c
  <2>0. \A c \in Cars : /\ req[c].pc = "url" => req[c].order \in Orders /\ carOf'[req[c].order] = c
                        /\ page[c] # NoOrder => page[c] \in Orders /\ carOf'[page[c]] = c
    BY <1>1, CardAssumption DEF OrderNames, Typed, OrderTypes
  <2>1. CASE UNCHANGED <<req, page>>
    BY <2>0, <2>1
  <2>2. ASSUME NEW c \in Cars, NEW p \in Plates, RequestOrder(c, p)
        PROVE  \A d \in Cars : req'[d].pc # "url" \/ req'[d] = req[d]
    BY <2>2 DEF RequestOrder, Typed, OrderTypes
  <2>3. ASSUME NEW c \in Cars, UpdatePlate(c)
        PROVE  \A d \in Cars : req'[d].pc # "url" \/ req'[d] = req[d]
    <3>1. req[c] \in [pc : {"update", "save", "url"}, plate : Plates, order : Orders \cup {NoOrder}]
      BY <2>3 DEF UpdatePlate, Typed, OrderTypes, ReqType, ReqIdle
    <3>2. req' \in {[req EXCEPT ![c].pc = "save"], [req EXCEPT ![c] = ReqIdle]}
      BY <2>3 DEF UpdatePlate
    <3> QED
      BY <3>1, <3>2 DEF Typed, OrderTypes, ReqIdle
  <2>4. ASSUME NEW c \in Cars, AskUrl(c)
        PROVE  /\ \A d \in Cars : req'[d].pc # "url" \/ req'[d] = req[d]
               /\ \A d \in Cars : page'[d] = page[d] \/ (d = c /\ req[c].pc = "url" /\ page'[c] = req[c].order)
    BY <2>4 DEF AskUrl, Typed, OrderTypes, ReqIdle
  <2>5. ASSUME NEW c \in Cars, SaveOrder(c), drawn' = drawn + 1
        PROVE  \A d \in Cars : \/ req'[d].pc # "url" \/ req'[d] = req[d]
                               \/ d = c /\ req'[c].order \in Orders /\ carOf'[req'[c].order] = c
    <3>1. req[c] \in [pc : {"update", "save", "url"}, plate : Plates, order : Orders \cup {NoOrder}]
      BY <2>5 DEF SaveOrder, Typed, OrderTypes, ReqType, ReqIdle
    <3>2. drawn' \in Orders
      BY <1>0, <2>5, CardAssumption DEF SaveOrder, Orders
    <3>3. CASE req' = [req EXCEPT ![c].pc = "url", ![c].order = drawn'] /\ carOf' = [carOf EXCEPT ![drawn'] = c]
      BY <3>1, <3>2, <3>3 DEF Typed, OrderTypes
    <3>4. CASE req' = [req EXCEPT ![c] = ReqIdle]
      BY <3>4 DEF Typed, OrderTypes, ReqIdle
    <3> QED
      BY <2>5, <3>3, <3>4 DEF SaveOrder
  <2>6. CASE Crash
    <3>1. \A d \in Cars : req'[d].pc # "url" \/ req'[d] = req[d]
      <4>1. req' = req \/ \E c \in Cars : req' = [req EXCEPT ![c] = ReqIdle]
        BY <2>6 DEF Crash
      <4> QED
        BY <4>1 DEF Typed, OrderTypes, ReqIdle
    <3> QED
      BY <2>0, <2>6, <3>1 DEF Crash
  <2>7. ASSUME NEW f \in Forms, PageHears(f)
        PROVE  UNCHANGED req /\ \A d \in Cars : page'[d] \in {page[d], NoOrder}
    BY <2>7 DEF PageHears, Typed, OrderTypes
  <2>8. \/ UNCHANGED <<req, page>> \/ Crash
        \/ \E c \in Cars : UpdatePlate(c) \/ AskUrl(c) \/ SaveOrder(c) \/ \E p \in Plates : RequestOrder(c, p)
        \/ \E f \in Forms : PageHears(f)
    BY DEF Next, vars, cardVars, ConfirmVehicle, Expire,
         Submit, TakeWebhook, Process, LookUpKey, Tokenise, SaveKey, InsertKey, SendWebhook, StopWaiting,
         Handle, RefuseOld, GetOrder, LookUpBilling, StoreKey, ReadOrder, WriteOrder
  <2>9. ASSUME NEW c \in Cars, NEW p \in Plates, RequestOrder(c, p)
        PROVE  \A d \in Cars : page'[d] \in {page[d], NoOrder}
    BY <2>9 DEF RequestOrder, Typed, OrderTypes
  <2>10. ASSUME NEW c \in Cars, UpdatePlate(c) \/ SaveOrder(c)
         PROVE  UNCHANGED page
    BY <2>10 DEF UpdatePlate, SaveOrder
  <2>11. ASSUME NEW c \in Cars, SaveOrder(c)
         PROVE  drawn' = drawn + 1
    BY <2>11 DEF SaveOrder
  <2> QED
    BY <2>0, <2>1, <2>2, <2>3, <2>4, <2>5, <2>6, <2>7, <2>8, <2>9, <2>10, <2>11
<1> QED
  BY <1>2, <1>3, <1>4, <1>5 DEF OrderNames

\* Where no key comes up, the names stay.
LEMMA StillNames ==
  ASSUME Typed, Numbered, Named, [Next]_vars, UNCHANGED gate,
         \A f \in Forms : form'[f].pc \in {"insert", "send", "wait"} =>
           form[f].pc \in {"insert", "send", "wait"} /\ form'[f].key = form[f].key,
         wire' \subseteq wire,
         \A h \in Loops : loop'[h] # LoopIdle =>
           \/ loop[h] # LoopIdle /\ loop'[h].form = loop[h].form /\ loop'[h].key = loop[h].key
           \/ \E m \in wire : loop'[h].form = m.form /\ loop'[h].key = m.key,
         \A c \in Cars : billing'[c] = billing[c] \/
           \E h \in Loops : loop[h] # LoopIdle /\ billing'[c] = loop[h].key /\ carOf[Order(h)] = c
  PROVE  KeyNames'
<1>1. \A k \in Forms : form[k] # FormNew => form'[k] # FormNew /\ form'[k].order = form[k].order
  BY FormsStay
<1>2. \A f \in Forms : form[f] # FormNew =>
        /\ form'[f] # FormNew /\ form'[f].order = form[f].order /\ form[f].order \in Orders
        /\ carOf'[form[f].order] = carOf[form[f].order]
  <2>1. \A f \in Forms : form[f] # FormNew => form[f].order <= drawn
    BY DEF Numbered
  <2> QED
    BY <2>1, FormsStay, FormFields, CarsStay
<1>3. \A f \in Forms : form'[f].pc \in {"insert", "send", "wait"} => Names(form[f].key, form[f].order)'
  <2>1. \A f \in Forms : form[f].pc \in {"insert", "send", "wait"} => form[f] # FormNew
    BY DEF FormNew
  <2> QED
    BY <1>1, <1>2, <2>1 DEF Named, KeyNames, Names
<1>4. \A o \in Orders : gate'[o] # NoKey => Names(gate[o], o)'
  BY <1>1 DEF Named, KeyNames, Names
<1>5. /\ \A m \in wire : m.form \in Forms /\ form[m.form] # FormNew
      /\ \A h \in Loops : loop[h] # LoopIdle =>
           loop[h].form \in Forms /\ form[loop[h].form] # FormNew /\ loop[h].key \in Forms
  BY LoopFields DEF Typed, KeyTypes, Sent
<1>6. \A m \in wire' : Names(m.key, form[m.form].order)' /\ form'[m.form].order = form[m.form].order
  <2> SUFFICES ASSUME NEW m \in wire, Names(m.key, form[m.form].order)
               PROVE  Names(m.key, form[m.form].order)' /\ form'[m.form].order = form[m.form].order
    BY DEF Named, KeyNames
  <2>1. form'[m.form].order = form[m.form].order
    BY <1>1, <1>5
  <2> QED
    BY <1>1, <1>2, <2>1 DEF Names
<1>7. ASSUME NEW h \in Loops, loop'[h] # LoopIdle
      PROVE  Names(loop[h].key, Order(h))'
  <2>1. CASE loop[h] # LoopIdle /\ loop'[h].form = loop[h].form /\ loop'[h].key = loop[h].key
    <3>1. Names(loop[h].key, form[loop[h].form].order)
      BY <2>1 DEF Named, KeyNames, Order, OrderOf
    <3>2. form'[loop[h].form].order = form[loop[h].form].order
      BY <1>1, <1>5, <2>1
    <3> QED
      BY <1>1, <2>1, <3>1, <3>2 DEF Names, Order, OrderOf
  <2>2. ASSUME NEW m \in wire, loop'[h].form = m.form, loop'[h].key = m.key
        PROVE  Names(loop[h].key, Order(h))'
    <3>1. Names(m.key, form[m.form].order)
      BY DEF Named, KeyNames
    <3>2. form'[m.form].order = form[m.form].order
      BY <1>1, <1>5
    <3> QED
      BY <1>1, <2>2, <3>1, <3>2 DEF Names, Order, OrderOf
  <2> QED
    BY <1>7, <2>1, <2>2
<1>8. ASSUME NEW c \in Cars, billing'[c] # NoKey
      PROVE  form'[billing'[c]] # FormNew /\ carOf'[form'[billing'[c]].order] = c
  <2>1. CASE billing'[c] = billing[c]
    BY <1>2, <1>8, <2>1 DEF Named, KeyNames, Typed, KeyTypes
  <2>2. ASSUME NEW h \in Loops, loop[h] # LoopIdle, billing'[c] = loop[h].key, carOf[Order(h)] = c
        PROVE  form'[billing'[c]] # FormNew /\ carOf'[form'[billing'[c]].order] = c
    BY <1>2, <1>5, <2>2 DEF Named, KeyNames, Names
  <2> QED
    BY <2>1, <2>2
<1> QED
  BY <1>3, <1>4, <1>6, <1>7, <1>8 DEF KeyNames

LEMMA ProcessNames ==
  ASSUME Typed, Numbered, Named, NEW f \in Forms, Process(f)
  PROVE  KeyNames'
<1>1. [Next]_vars
  BY DEF Next
<1>2. /\ form[f] # FormNew /\ form[f].order \in Orders
      /\ UNCHANGED <<carOf, loop, billing>>
      /\ \A g \in Forms : /\ g # f => form'[g] = form[g]
                          /\ form[g] # FormNew <=> form'[g] # FormNew
                          /\ form'[g].order = form[g].order
  BY ProcessSteps
<1>3. \A k \in Forms : form[k] # FormNew => form'[k] # FormNew /\ form'[k].order = form[k].order
  BY <1>1, FormsStay
<1>4. Names(f, form[f].order)
  BY <1>2 DEF Names
<1>5. form[f].pc \in {"insert", "send", "wait"} => Names(form[f].key, form[f].order)
  BY DEF Named, KeyNames
<1>6. gate[form[f].order] # NoKey => Names(gate[form[f].order], form[f].order)
  BY <1>2 DEF Named, KeyNames
<1>7. form'[f].pc \in {"insert", "send", "wait"} => Names(form[f].key, form[f].order)'
  <2>1. form'[f].pc \in {"insert", "send", "wait"} => Names(form'[f].key, form[f].order)
    BY <1>4, <1>5, <1>6, ProcessSteps DEF Draws, Saves, Sends, Ends, Goes, Keeping, Unsent
  <2> QED
    BY <1>2, <1>3, <2>1 DEF Names
<1>8. \A o \in Orders : gate'[o] # NoKey => Names(gate[o], o)'
  <2>1. \A o \in Orders : gate'[o] = gate[o] \/ (o = form[f].order /\ gate'[o] = form[f].key /\ form[f].pc = "insert")
    BY ProcessSteps DEF Saves, Goes, Typed, KeyTypes
  <2> QED
    BY <1>2, <1>3, <1>5, <2>1 DEF Named, KeyNames, Names
<1>9. \A m \in wire' : Names(m.key, form[m.form].order)'
  <2>1. \A m \in wire' : m \in wire \/ (m.form = f /\ m.key = form[f].key /\ form[f].pc = "send")
    BY ProcessSteps DEF Sends, Goes
  <2>2. \A m \in wire : m.form \in Forms
    BY DEF Typed, KeyTypes
  <2> QED
    BY <1>2, <1>3, <1>5, <2>1, <2>2 DEF Named, KeyNames, Names
<1>10. \A h \in Loops : loop'[h] # LoopIdle => Names(loop[h].key, Order(h))'
  BY <1>2, <1>3, LoopFields DEF Named, KeyNames, Order, OrderOf, Names
<1>11. \A c \in Cars : billing'[c] # NoKey =>
         form'[billing'[c]] # FormNew /\ carOf'[form'[billing'[c]].order] = c
  BY <1>2 DEF Named, KeyNames, Typed, KeyTypes
<1>12. \A g \in Forms : form'[g].pc \in {"insert", "send", "wait"} => Names(form[g].key, form[g].order)'
  BY <1>2, <1>3, <1>7 DEF Named, KeyNames, Names
<1> QED
  BY <1>8, <1>9, <1>10, <1>11, <1>12 DEF KeyNames

LEMMA NextNamed == Typed /\ Numbered /\ Named /\ [Next]_vars => Named'
<1> SUFFICES ASSUME Typed, Numbered, Named, [Next]_vars PROVE KeyNames'
  BY NextOrderNames DEF Named
<1>1. CASE \E f \in Forms : Process(f)
  BY <1>1, ProcessNames
<1>2. ASSUME NEW h \in Loops, Handle(h)
      PROVE  KeyNames'
  <2>1. \A g \in Forms : form'[g].pc \in {"insert", "send", "wait"} =>
          form[g].pc \in {"insert", "send", "wait"} /\ form'[g].key = form[g].key
    BY <1>2, HandleSteps DEF Finds, Stores, Answers, Passes, Tells, Goes, Unsent
  <2>2. UNCHANGED <<gate, wire>>
    BY <1>2, HandleSteps
  <2>3. \A g \in Loops : loop'[g] # LoopIdle =>
          loop[g] # LoopIdle /\ loop'[g].form = loop[g].form /\ loop'[g].key = loop[g].key
    BY <1>2, HandleMoves
  <2>4. \A c \in Cars : billing'[c] = billing[c] \/
          (loop[h] # LoopIdle /\ billing'[c] = loop[h].key /\ carOf[Order(h)] = c)
    BY <1>2, HandleSteps DEF Stores, Typed, KeyTypes
  <2> QED
    BY <2>1, <2>2, <2>3, <2>4, StillNames
<1>3. CASE \E h \in Loops, m \in wire : TakeWebhook(h, m)
  <2>1. PICK h \in Loops, m \in wire : TakeWebhook(h, m)
    BY <1>3
  <2>2. /\ UNCHANGED <<gate, form, billing>> /\ wire' \subseteq wire
        /\ loop'[h] = [pc |-> "order", form |-> m.form, key |-> m.key]
        /\ \A g \in Loops \ {h} : loop'[g] = loop[g]
    BY <2>1, TakeSteps
  <2> QED
    BY <2>2, StillNames
<1>4. CASE \E f \in Forms, c \in Cars, x \in Cards : Submit(f, c, x)
  <2>1. PICK f \in Forms, c \in Cars, x \in Cards : Submit(f, c, x)
    BY <1>4
  <2>2. UNCHANGED <<gate, wire, loop, billing>> /\ form'[f].pc = "look"
        /\ \A g \in Forms \ {f} : form'[g] = form[g]
    BY <2>1, SubmitSteps
  <2> QED
    BY <2>2, StillNames
<1>5. CASE Crash
  <2>1. UNCHANGED <<gate, wire, billing>>
    BY <1>5 DEF Crash, gateVars
  <2>2. ASSUME NEW f \in Forms, Moves(f), form'[f].pc = "failed", UNCHANGED loop
        PROVE  KeyNames'
    <3>1. \A g \in Forms : g # f => form'[g] = form[g]
      BY <2>2, MovesType
    <3> QED
      BY <2>1, <2>2, <3>1, StillNames
  <2>3. ASSUME NEW h \in Loops, loop[h] # LoopIdle, Answer(h, FALSE)
        PROVE  KeyNames'
    <3>1. \A g \in Loops : loop'[g] # LoopIdle => loop'[g] = loop[g]
      BY <2>3 DEF Answer, Typed, KeyTypes
    <3>2. PICK f \in Forms : f = loop[h].form
      BY <2>3, LoopFields
    <3>3. \/ UNCHANGED form
          \/ Moves(f) /\ form'[f] = [form[f] EXCEPT !.pc = Unsent(f)]
      BY <2>3, <3>2, AnswerMoves
    <3>4. \A g \in Forms : form'[g].pc \in {"insert", "send", "wait"} => form'[g] = form[g]
      <4>1. CASE UNCHANGED form
        BY <4>1
      <4>2. CASE Moves(f) /\ form'[f] = [form[f] EXCEPT !.pc = Unsent(f)]
        <5>1. form'[f].pc = Unsent(f)
          BY <4>2, FormFields DEF Moves
        <5> QED
          BY <4>2, <5>1, MovesType DEF Unsent
      <4> QED
        BY <3>3, <4>1, <4>2
    <3> QED
      BY <2>1, <3>1, <3>4, StillNames
  <2> QED
    BY <1>5, <2>1, <2>2, <2>3, CrashMoves, StillNames
<1>6. CASE UNCHANGED <<gate, form, wire, loop, billing>>
  BY <1>6, StillNames
<1> QED
  BY <1>1, <1>2, <1>3, <1>4, <1>5, <1>6, RequestSteps DEF Next

LEMMA NamedHolds == Spec => []Named
BY InitNamed, NextNamed, KeysHold, TypedHolds, PTL DEF Spec

-----------------------------------------------------------------------------
(* One order of a car at a time.                                           *)

\* What NewerStands assumes: the app does not start over, nobody dies or stops waiting,
\* and a webhook that comes again does not find an order that was left pending.
InTurn == faults \cap {"overlap", "timeout", "crash"} = {} /\ ~({"duplicate", "redis"} \subseteq faults)

Busy(h, o) == loop[h] # LoopIdle /\ Order(h) = o
Told(o)    == (\E m \in wire : form[m.form].order = o) \/ Handled(o)

\* Nothing will store a key for the order, whatever comes for it still.
Settled(o) ==
  /\ ~AtWork(o)
  /\ Told(o) => order[o] # "pending"
  /\ \A h \in Loops : Busy(h, o) => loop[h].pc = "order"

\* No order of the same car is newer.
Latest(o) == \A p \in Orders : carOf[p] = carOf[o] => p <= o

LastAtWork == \A o \in Orders : Settled(o) \/ Latest(o)
LastShown  == \A c \in Cars : page[c] # NoOrder => Latest(page[c])
Drawn ==
  \A c \in Cars : req[c] # ReqIdle =>
    /\ page[c] = NoOrder
    /\ \A o \in Orders : carOf[o] = c => Settled(o)
    /\ req[c].pc = "url" => Latest(req[c].order)

Turn == LastAtWork /\ LastShown /\ Drawn

\* An order some key was stored for is marked, or it is being marked.
Marked(o) == order[o] # "pending" \/ \E h \in Loops : Busy(h, o) /\ loop[h].pc \in {"mark", "write"}

\* A webhook is for a submission that waits, or its order is marked; it is the only one
\* of its submission, if none comes again.
WebhookAwaited ==
  IF "duplicate" \in faults
  THEN /\ \A m \in wire : form[m.form].pc = "wait" \/ Marked(form[m.form].order)
       /\ \A o \in stored : Marked(o)
  ELSE /\ \A m \in wire : form[m.form].pc = "wait" /\ \A h \in Loops : loop[h].form # m.form
       /\ \A m, n \in wire : m.form = n.form => m = n
       /\ \A h \in Loops : loop[h] # LoopIdle => form[loop[h].form].pc = "wait"
       /\ \A g, h \in Loops : g # h /\ loop[g] # LoopIdle => loop[g].form # loop[h].form

\* The car has the key of the last order some key was stored for.
AddsFirst ==
  \A h \in Loops : loop[h].pc = "add" /\ billing[carOf[Order(h)]] # NoKey => Order(h) \in stored
LastBilled ==
  \A c \in Cars : \A o \in stored :
    carOf[o] = c => billing[c] # NoKey /\ o <= form[billing[c]].order

Ordered == InTurn => Turn /\ WebhookAwaited /\ AddsFirst /\ LastBilled

\* An order stays settled, but for the one whose page is submitted.
LEMMA StillSettled ==
  ASSUME NEW o \in Orders, Settled(o),
         \A f \in Forms : form'[f].order = o /\ form'[f].pc \in Working =>
           form[f].order = o /\ form[f].pc \in Working,
         \A m \in wire' : form'[m.form].order = o => \E n \in wire : form[n.form].order = o,
         Told(o) /\ order'[o] = "pending" => order[o] = "pending",
         \A h \in Loops : Busy(h, o)' => Told(o) /\ loop'[h].pc = "order"
  PROVE  Settled(o)'
<1>1. ~AtWork(o)'
  BY DEF Settled, AtWork, FormsOf, Working
<1>2. Told(o)' => Told(o)
  BY DEF Told, Handled, Busy, Order, OrderOf
<1>3. Told(o)' => order'[o] # "pending"
  BY <1>2 DEF Settled
<1> QED
  BY <1>1, <1>3 DEF Settled

LEMMA SettledStays ==
  ASSUME Typed, Numbered, InTurn, [Next]_vars, NEW o \in Orders, Settled(o)
  PROVE  Settled(o)' \/ \E c \in Cars : page[c] = o /\ page' = page /\ UNCHANGED <<carOf, req>>
<1> USE DEF requestVars, orderVars, gateVars, backVars
<1>1. /\ \A f \in Forms : form[f].order = o => form[f].pc \notin Working
      /\ Told(o) => order[o] # "pending"
      /\ \A h \in Loops : Busy(h, o) => loop[h].pc = "order" /\ Told(o)
  BY DEF Settled, AtWork, FormsOf, Working, Told, Handled, Busy, Order
<1>2. /\ \A m \in wire : m.form \in Forms /\ form[m.form] # FormNew
      /\ \A h \in Loops : loop[h] # LoopIdle => loop[h].form \in Forms /\ form[loop[h].form] # FormNew
  BY DEF Typed, KeyTypes, LoopType, Sent
<1>3. ASSUME NEW f \in Forms, Process(f)
      PROVE  Settled(o)'
  <2>1. /\ UNCHANGED <<order, loop>>
        /\ \A g \in Forms : form'[g].order = form[g].order /\ (g # f => form'[g] = form[g])
    BY <1>3, ProcessSteps
  <2>2. form[f].pc \in Working \/ form'[f].pc = "over"
    BY <1>3, ProcessSteps DEF Draws, Saves, Sends, Ends, Goes, Working, WorkPcs
  <2>3. \A m \in wire' : m \in wire \/ (m.form = f /\ form[f].pc = "send")
    BY <1>3, ProcessSteps DEF Sends, Goes
  <2>4. \A g \in Forms : form'[g].order = o /\ form'[g].pc \in Working =>
          form[g].order = o /\ form[g].pc \in Working
    BY <2>1, <2>2 DEF Working, WorkPcs
  <2>5. \A m \in wire' : form'[m.form].order = o => \E n \in wire : form[n.form].order = o
    BY <1>1, <1>2, <2>1, <2>3 DEF Working, WorkPcs
  <2>6. \A h \in Loops : Busy(h, o)' => Busy(h, o) /\ loop'[h].pc = loop[h].pc
    BY <1>2, <2>1 DEF Busy, Order, OrderOf
  <2> QED
    BY <1>1, <2>1, <2>4, <2>5, <2>6, StillSettled
<1>4. ASSUME NEW h \in Loops, Handle(h)
      PROVE  Settled(o)'
  <2>1. /\ loop[h] # LoopIdle /\ loop[h].form \in Forms /\ UNCHANGED wire
        /\ \A g \in Loops \ {h} : loop'[g] = loop[g]
        /\ \A g \in Forms : form'[g].order = form[g].order /\ (g # loop[h].form => form'[g] = form[g])
    BY <1>4, HandleSteps
  <2>2. CASE Order(h) = o
    <3>1. loop[h].pc = "order" /\ order[o] # "pending" /\ form[loop[h].form].pc # "wait"
      BY <1>1, <2>1, <2>2 DEF Busy, Order, OrderOf, Working, WorkPcs
    <3>2. loop'[h] = LoopIdle /\ UNCHANGED <<order, form>>
      BY <1>4, <2>2, <3>1, HandleSteps DEF Finds, Stores, Answers, Passes, Tells, Goes
    <3>3. \A g \in Loops : Busy(g, o)' => Busy(g, o) /\ loop'[g] = loop[g]
      BY <2>1, <3>2 DEF Busy, Order, OrderOf
    <3> QED
      BY <1>1, <2>1, <3>2, <3>3, StillSettled
  <2>3. CASE Order(h) # o
    <3>1. form[loop[h].form].order # o
      BY <2>3 DEF Order, OrderOf
    <3>2. order'[o] = order[o]
      BY <1>4, <2>3, HandleSteps DEF Answers, Typed, OrderTypes
    <3>3. loop'[h] = LoopIdle \/ loop'[h].form = loop[h].form
      BY <1>4, HandleMoves
    <3>4. \A g \in Loops : Busy(g, o)' => Busy(g, o) /\ loop'[g] = loop[g]
      BY <1>2, <2>1, <3>1, <3>3 DEF Busy, Order, OrderOf
    <3>5. \A g \in Forms : form'[g].order = o => form'[g] = form[g]
      BY <2>1, <3>1
    <3>6. \A m \in wire' : form'[m.form].order = o => \E n \in wire : form[n.form].order = o
      BY <1>2, <2>1
    <3> QED
      BY <1>1, <3>2, <3>4, <3>5, <3>6, StillSettled
  <2> QED
    BY <2>2, <2>3
<1>5. ASSUME NEW h \in Loops, NEW m \in wire, TakeWebhook(h, m)
      PROVE  Settled(o)'
  <2>1. /\ UNCHANGED <<order, form>> /\ wire' \subseteq wire
        /\ loop'[h] = [pc |-> "order", form |-> m.form, key |-> m.key]
        /\ \A g \in Loops \ {h} : loop'[g] = loop[g]
    BY <1>5, TakeSteps
  <2>2. Busy(h, o)' => form[m.form].order = o
    BY <2>1 DEF Busy, Order, OrderOf
  <2>3. \A g \in Loops : Busy(g, o)' => Told(o) /\ loop'[g].pc = "order"
    <3>1. \A g \in Loops \ {h} : Busy(g, o)' => Busy(g, o) /\ loop'[g] = loop[g]
      BY <2>1 DEF Busy, Order, OrderOf
    <3>2. Busy(h, o)' => Told(o) /\ loop'[h].pc = "order"
      BY <2>1, <2>2 DEF Told
    <3> QED
      BY <1>1, <3>1, <3>2
  <2> QED
    BY <2>1, <2>3, StillSettled
<1>6. ASSUME NEW f \in Forms, NEW c \in Cars, NEW x \in Cards, Submit(f, c, x), page[c] # o
      PROVE  Settled(o)'
  <2>1. /\ UNCHANGED <<order, wire, loop>> /\ form'[f].order = page[c]
        /\ \A g \in Forms \ {f} : form'[g] = form[g]
        /\ \A m \in wire : m.form \in Forms \ {f}
        /\ \A h \in Loops : loop[h] # LoopIdle => loop[h].form \in Forms \ {f}
    BY <1>6, SubmitSteps
  <2>2. \A h \in Loops : Busy(h, o)' => Busy(h, o) /\ loop'[h] = loop[h]
    BY <2>1 DEF Busy, Order, OrderOf
  <2>3. /\ \A g \in Forms : form'[g].order = o => form'[g] = form[g]
        /\ \A m \in wire' : form'[m.form].order = o => \E n \in wire : form[n.form].order = o
    BY <1>6, <2>1
  <2> QED
    BY <1>1, <2>1, <2>2, <2>3, StillSettled
<1>7. ASSUME NEW f \in Forms, NEW c \in Cars, NEW x \in Cards, Submit(f, c, x), page[c] = o
      PROVE  page[c] = o /\ page' = page /\ UNCHANGED <<carOf, req>>
  BY <1>7, SubmitSteps
<1>8. CASE UNCHANGED <<form, wire, loop>>
  <2>1. Told(o) => o <= drawn
    BY DEF Told, Handled, OrderOf, Numbered, Typed, KeyTypes, LoopType
  <2>2. Told(o) /\ order'[o] = "pending" => order[o] = "pending"
    <3>0. drawn \in Nat /\ o \in Nat
      BY CardAssumption DEF Typed, OrderTypes, Orders
    <3>1. ASSUME NEW c \in Cars, SaveOrder(c)
          PROVE  order'[o] = order[o] \/ o = drawn + 1
      BY <3>1 DEF SaveOrder, Typed, OrderTypes
    <3>2. ASSUME NEW p \in Orders, Expire(p)
          PROVE  order'[o] = order[o] \/ order'[o] = "gone"
      BY <3>2 DEF Expire, Typed, OrderTypes
    <3>3. ASSUME NEW h \in Loops, Handle(h)
          PROVE  FALSE
      <4>1. loop[h] \in [pc : LoopPcs, form : Forms, key : Forms] /\ loop[h] # LoopIdle
        BY <3>3, HandleSteps, LoopFields
      <4>2. \/ loop'[h] = LoopIdle
            \/ \E to \in LoopPcs : loop'[h] = [loop[h] EXCEPT !.pc = to] /\ loop[h].pc # to
        BY <3>3, HandleSteps DEF Finds, Stores, Answers, Passes, Tells, LoopPcs
      <4> QED
        BY <1>8, <4>1, <4>2
    <3>4. \/ UNCHANGED order \/ \E c \in Cars : SaveOrder(c)
          \/ \E p \in Orders : Expire(p)
          \/ \E h \in Loops : Handle(h)
      BY DEF Next, vars, cardVars, RequestOrder, UpdatePlate, AskUrl, ConfirmVehicle, Submit,
           TakeWebhook, Process, LookUpKey, Tokenise, SaveKey, InsertKey, SendWebhook, StopWaiting,
           PageHears, Crash
    <3> QED
      BY <2>1, <3>0, <3>1, <3>2, <3>3, <3>4
  <2>3. \A h \in Loops : Busy(h, o)' => Busy(h, o) /\ loop'[h] = loop[h]
    BY <1>8 DEF Busy, Order, OrderOf
  <2> QED
    BY <1>1, <1>8, <2>2, <2>3, StillSettled
<1>9. ~Crash
  BY DEF Crash, InTurn
<1> QED
  BY <1>3, <1>4, <1>5, <1>6, <1>7, <1>8, <1>9, RequestSteps DEF Next

\* What a step does to the order request and the page of a car.
LEMMA CarSteps ==
  ASSUME Typed, [Next]_vars, InTurn, NEW c \in Cars
  PROVE  \/ req'[c] = req[c] /\ page'[c] = page[c]
         \/ req'[c] = req[c] /\ page'[c] = NoOrder /\ \E f \in Forms : Process(f)
         \/ req'[c] = ReqIdle /\ page'[c] = page[c]
         \/ /\ req[c].pc = "url" /\ req'[c] = ReqIdle
            /\ page'[c] = req[c].order /\ UNCHANGED carOf
         \/ /\ req'[c].pc = "update" /\ page'[c] = NoOrder
            /\ \A o \in Orders : carOf[o] = c => ~AtWork(o) /\ ~Handled(o)
         \/ req[c].pc = "update" /\ req'[c].pc = "save" /\ page'[c] = page[c]
         \/ /\ SaveOrder(c) /\ req[c].pc = "save" /\ req'[c].pc = "url"
            /\ req'[c].order = drawn' /\ carOf' = [carOf EXCEPT ![drawn'] = c] /\ page'[c] = page[c]
<1> USE DEF requestVars, orderVars, gateVars, backVars
<1>0. /\ req[c] # ReqIdle => req[c] \in [pc : {"update", "save", "url"}, plate : Plates, order : Orders \cup {NoOrder}]
      /\ ReqIdle.pc = "idle"
  BY DEF Typed, OrderTypes, ReqType, ReqIdle
<1>1. ASSUME NEW p \in Plates, RequestOrder(c, p)
      PROVE  /\ req'[c].pc = "update" /\ page'[c] = NoOrder
             /\ \A o \in Orders : carOf[o] = c => ~AtWork(o) /\ ~Handled(o)
  BY <1>1 DEF RequestOrder, InTurn, Typed, OrderTypes
<1>2. ASSUME UpdatePlate(c)
      PROVE  \/ req'[c] = ReqIdle /\ page'[c] = page[c]
             \/ req[c].pc = "update" /\ req'[c].pc = "save" /\ page'[c] = page[c]
  <2>1. req[c].pc = "update" /\ page' = page
        /\ req' \in {[req EXCEPT ![c].pc = "save"], [req EXCEPT ![c] = ReqIdle]}
    BY <1>2 DEF UpdatePlate
  <2> QED
    BY <1>0, <2>1 DEF Typed, OrderTypes
<1>3. ASSUME SaveOrder(c)
      PROVE  \/ req'[c] = ReqIdle /\ page'[c] = page[c]
             \/ /\ SaveOrder(c) /\ req[c].pc = "save" /\ req'[c].pc = "url"
                /\ req'[c].order = drawn' /\ carOf' = [carOf EXCEPT ![drawn'] = c] /\ page'[c] = page[c]
  <2>1. req[c].pc = "save" /\ page' = page
    BY <1>3 DEF SaveOrder
  <2>2. CASE req' = [req EXCEPT ![c].pc = "url", ![c].order = drawn'] /\ carOf' = [carOf EXCEPT ![drawn'] = c]
    <3>1. req'[c].pc = "url" /\ req'[c].order = drawn'
      BY <1>0, <2>1, <2>2 DEF Typed, OrderTypes
    <3> QED
      BY <1>3, <2>1, <2>2, <3>1
  <2>3. CASE req' = [req EXCEPT ![c] = ReqIdle]
    BY <2>1, <2>3 DEF Typed, OrderTypes
  <2> QED
    BY <1>3, <2>2, <2>3 DEF SaveOrder
<1>4. ASSUME AskUrl(c)
      PROVE  \/ req'[c] = ReqIdle /\ page'[c] = page[c]
             \/ /\ req[c].pc = "url" /\ req'[c] = ReqIdle
                /\ page'[c] = req[c].order /\ UNCHANGED carOf
  BY <1>4 DEF AskUrl, Typed, OrderTypes
<1>5. ASSUME NEW d \in Cars, d # c,
             UpdatePlate(d) \/ SaveOrder(d) \/ AskUrl(d) \/ \E p \in Plates : RequestOrder(d, p)
      PROVE  req'[c] = req[c] /\ page'[c] = page[c]
  BY <1>5 DEF UpdatePlate, SaveOrder, AskUrl, RequestOrder, Typed, OrderTypes
<1>6. ASSUME NEW f \in Forms, Process(f)
      PROVE  req'[c] = req[c] /\ page'[c] \in {page[c], NoOrder}
  BY <1>6, ProcessSteps DEF Ends, Typed, OrderTypes
<1>7. \/ UNCHANGED <<req, page>>
      \/ \E d \in Cars : UpdatePlate(d) \/ AskUrl(d) \/ SaveOrder(d) \/ \E p \in Plates : RequestOrder(d, p)
      \/ \E f \in Forms : Process(f)
  BY DEF Next, vars, cardVars, ConfirmVehicle, Expire, Submit, TakeWebhook, InTurn, Crash,
       Handle, RefuseOld, GetOrder, LookUpBilling, StoreKey, ReadOrder, WriteOrder
<1> QED
  BY <1>1, <1>2, <1>3, <1>4, <1>5, <1>6, <1>7

\* The last order of a car stays the last, as long as none is drawn for the car.
LEMMA LatestStays ==
  ASSUME Typed, OrderNames, [Next]_vars, NEW o \in Orders, Latest(o)
  PROVE  Latest(o)' \/ \E c \in Cars : SaveOrder(c) /\ carOf[o] = c
<1>1. CASE UNCHANGED carOf
  BY <1>1 DEF Latest
<1>2. ASSUME NEW c \in Cars, SaveOrder(c), drawn' = drawn + 1, ~UNCHANGED carOf, carOf[o] # c
      PROVE  Latest(o)'
  <2>1. carOf' = [carOf EXCEPT ![drawn'] = c]
    BY <1>2 DEF SaveOrder
  <2>2. drawn \in Nat /\ \A p \in Orders : p \in Nat
    BY CardAssumption DEF Typed, OrderTypes, Orders
  <2>3. \A p \in Orders : carOf[p] # NoCar => p <= drawn
    BY DEF OrderNames
  <2>4. CASE o = drawn'
    BY <1>2, <2>1, <2>2, <2>3, <2>4, CardAssumption DEF Latest, Typed, OrderTypes
  <2>5. CASE o # drawn'
    BY <1>2, <2>1, <2>5 DEF Latest, Typed, OrderTypes
  <2> QED
    BY <2>4, <2>5
<1> QED
  BY <1>1, <1>2, CarsStay

LEMMA NextTurn ==
  ASSUME Typed, Numbered, Named, InTurn, Turn, WebhookAwaited, [Next]_vars
  PROVE  Turn'
<1>0. /\ drawn \in Nat /\ \A o \in Orders : o \in Nat \ {NoOrder}
      /\ OrderNames /\ LastAtWork /\ LastShown /\ Drawn
  BY CardAssumption DEF Typed, OrderTypes, Orders, NoOrder, Named, Turn
<1>1. ASSUME NEW c \in Cars, SaveOrder(c)
      PROVE  req[c] # ReqIdle /\ req[c].pc # "url"
  BY <1>1 DEF SaveOrder, ReqIdle
<1>2. ASSUME NEW o \in Orders, ~Settled(o)', ~Latest(o)'
      PROVE  FALSE
  <2>1. CASE ~Settled(o)
    <3>1. Latest(o)
      BY <1>0, <2>1 DEF LastAtWork
    <3>2. PICK c \in Cars : SaveOrder(c) /\ carOf[o] = c
      BY <1>0, <1>2, <3>1, LatestStays
    <3> QED
      BY <1>0, <1>1, <2>1, <3>2 DEF Drawn
  <2>2. CASE Settled(o)
    <3>1. PICK c \in Cars : page[c] = o /\ UNCHANGED carOf
      BY <1>2, <2>2, SettledStays
    <3>2. Latest(o)
      BY <1>0, <3>1 DEF LastShown
    <3> QED
      BY <1>2, <3>1, <3>2 DEF Latest
  <2> QED
    BY <2>1, <2>2
<1>3. ASSUME NEW c \in Cars, page'[c] # NoOrder
      PROVE  Latest(page[c])'
  <2>1. page[c] \in Orders \cup {NoOrder} /\ req[c].order \in Orders \cup {NoOrder}
    BY DEF Typed, OrderTypes, ReqType, ReqIdle
  <2>2. CASE page'[c] = page[c]
    <3>1. Latest(page[c]) /\ carOf[page[c]] = c /\ req[c] = ReqIdle
      BY <1>0, <1>3, <2>2 DEF LastShown, OrderNames, Drawn
    <3>2. ASSUME NEW o \in Orders, o = page[c]
          PROVE  Latest(o)'
      BY <1>0, <1>1, <3>1, <3>2, LatestStays
    <3> QED
      BY <1>3, <2>1, <2>2, <3>2 DEF Latest
  <2>3. CASE req[c].pc = "url" /\ page'[c] = req[c].order /\ UNCHANGED carOf
    <3>1. Latest(req[c].order)
      BY <1>0, <2>3 DEF Drawn, ReqIdle
    <3> QED
      BY <2>3, <3>1 DEF Latest
  <2> QED
    BY <1>3, <2>2, <2>3, CarSteps
<1>4. ASSUME NEW c \in Cars, req'[c] # ReqIdle
      PROVE  /\ page'[c] = NoOrder
             /\ \A o \in Orders : carOf'[o] = c => Settled(o)'
             /\ req'[c].pc = "url" => Latest(req[c].order)'
  <2>1. \/ req[c] # ReqIdle /\ page'[c] \in {page[c], NoOrder}
        \/ page'[c] = NoOrder /\ \A o \in Orders : carOf[o] = c => ~AtWork(o) /\ ~Handled(o)
    BY <1>4, CarSteps DEF ReqIdle
  <2>2. page'[c] = NoOrder
    BY <1>0, <2>1 DEF Drawn
  <2>3. ASSUME NEW o \in Orders, carOf[o] = c \/ o > drawn
        PROVE  Settled(o)
    <3>1. CASE o > drawn
      <4>1. /\ \A f \in Forms : form[f].order # o
            /\ \A m \in wire : form[m.form].order # o
            /\ \A h \in Loops : loop[h] # LoopIdle => form[loop[h].form].order # o
        <5>1. \A f \in Forms : form[f].order \in Nat /\ form[f].order # o
          BY <1>0, <3>1, CardAssumption DEF Numbered, Typed, KeyTypes, FormType, FormNew, Orders, NoOrder
        <5> QED
          BY <5>1 DEF Typed, KeyTypes, LoopType
      <4> QED
        BY <4>1 DEF Settled, AtWork, FormsOf, Told, Handled, Busy, Order, OrderOf
    <3>2. CASE carOf[o] = c /\ req[c] # ReqIdle
      BY <1>0, <3>2 DEF Drawn
    <3>3. CASE ~AtWork(o) /\ ~Handled(o)
      <4>1. \A h \in Loops : ~Busy(h, o)
        BY <3>3 DEF Handled, Busy, Order
      <4>2. \A m \in wire : m.form \in Forms
        BY DEF Typed, KeyTypes
      <4>3. \A m \in wire : form[m.form].order = o => form[m.form].pc # "wait"
        BY <3>3, <4>2 DEF AtWork, FormsOf, WorkPcs
      <4>4. \A m \in wire : form[m.form].order = o => order[o] # "pending"
        BY <4>1, <4>3 DEF WebhookAwaited, Marked
      <4>5. Told(o) => order[o] # "pending"
        BY <3>3, <4>4 DEF Told
      <4> QED
        BY <3>3, <4>1, <4>5 DEF Settled
    <3> QED
      BY <2>1, <2>3, <3>1, <3>2, <3>3
  <2>4. ASSUME NEW o \in Orders, carOf'[o] = c
        PROVE  Settled(o)'
    <3>1. carOf[o] = c \/ o > drawn
      BY <1>0, <2>4, CarsStay
    <3>2. ASSUME NEW d \in Cars, page[d] = o, page' = page, UNCHANGED carOf
          PROVE  FALSE
      <4>1. d = c
        BY <1>0, <2>4, <3>2 DEF OrderNames
      <4> QED
        BY <1>0, <2>2, <3>2, <4>1
    <3> QED
      BY <2>3, <3>1, <3>2, SettledStays
  <2>5. ASSUME req'[c].pc = "url"
        PROVE  Latest(req[c].order)'
    <3>1. CASE req'[c] = req[c]
      <4>1. Latest(req[c].order) /\ req[c].order \in Orders /\ carOf[req[c].order] = c
        BY <1>0, <2>5, <3>1 DEF Drawn, OrderNames, ReqIdle
      <4>2. ASSUME NEW o \in Orders, o = req[c].order
            PROVE  Latest(o)'
        BY <1>0, <1>1, <2>5, <3>1, <4>1, <4>2, LatestStays
      <4> QED
        BY <3>1, <4>1, <4>2 DEF Latest
    <3>2. CASE SaveOrder(c) /\ req'[c].order = drawn' /\ carOf' = [carOf EXCEPT ![drawn'] = c]
      <4>1. drawn' = drawn + 1
        BY <3>2 DEF SaveOrder
      <4>2. drawn' \in Orders
        BY <1>0, <3>2, <4>1, CardAssumption DEF SaveOrder, Orders
      <4>3. \A p \in Orders : carOf[p] = c => p <= drawn
        BY <1>0, CardAssumption DEF OrderNames
      <4>4. \A p \in Orders : carOf'[p] = carOf'[drawn'] => p <= drawn'
        BY <1>0, <3>2, <4>1, <4>2, <4>3 DEF Typed, OrderTypes
      <4> QED
        BY <3>2, <4>4 DEF Latest
    <3> QED
      BY <2>5, <3>1, <3>2, CarSteps DEF ReqIdle
  <2> QED
    BY <2>2, <2>4, <2>5
<1> QED
  BY <1>2, <1>3, <1>4 DEF Turn, LastAtWork, LastShown, Drawn

\* A handler past its first look is at the last order of its car.
LEMMA PastFirstLook ==
  ASSUME Typed, Turn, NEW h \in Loops, loop[h] # LoopIdle, loop[h].pc # "order"
  PROVE  Latest(Order(h)) /\ Order(h) \in Orders
<1>1. Order(h) \in Orders
  BY LoopFields
<1>2. ~Settled(Order(h))
  BY DEF Settled, Busy
<1> QED
  BY <1>1, <1>2 DEF Turn, LastAtWork

\* The order of a submission stays in the number and with the car it has.
LEMMA OrdersStay ==
  ASSUME Typed, Numbered, [Next]_vars, NEW f \in Forms, form[f] # FormNew
  PROVE  /\ form[f].order \in Orders /\ form[f].order <= drawn
         /\ form'[f].order = form[f].order
         /\ carOf'[form[f].order] = carOf[form[f].order]
<1>1. form[f].order <= drawn
  BY DEF Numbered
<1> QED
  BY <1>1, FormsStay, FormFields, CarsStay

LEMMA MarkedStays ==
  ASSUME Typed, Numbered, InTurn, "redis" \notin faults, [Next]_vars,
         NEW o \in Orders, o <= drawn, Marked(o)
  PROVE  Marked(o)'
<1> USE DEF requestVars, orderVars, gateVars, backVars
<1>1. /\ \A h \in Loops : loop[h] # LoopIdle => loop[h].form \in Forms /\ form[loop[h].form] # FormNew
  BY LoopFields
<1>2. \A h \in Loops : loop'[h] # LoopIdle /\ loop[h] # LoopIdle /\ loop'[h].form = loop[h].form =>
        (Busy(h, o) => Busy(h, o)')
  BY <1>1, OrdersStay DEF Busy, Order, OrderOf
<1>3. ASSUME NEW h \in Loops, Handle(h)
      PROVE  Marked(o)'
  <2>1. /\ loop[h] # LoopIdle /\ Order(h) \in Orders
        /\ \A g \in Loops \ {h} : loop'[g] = loop[g]
        /\ loop[h] \in [pc : LoopPcs, form : Forms, key : Forms]
    BY <1>3, HandleSteps, LoopFields
  <2>2. order'[o] = order[o] \/ order'[o] = "complete"
    BY <1>3, <2>1, HandleSteps DEF Answers, Typed, OrderTypes
  <2>3. CASE order'[o] = "pending"
    <3>1. PICK g \in Loops : Busy(g, o) /\ loop[g].pc \in {"mark", "write"}
      BY <2>2, <2>3 DEF Marked
    <3>2. CASE g # h
      BY <1>2, <2>1, <3>1, <3>2 DEF Marked, Busy
    <3>3. CASE g = h
      <4>1. loop[h].pc = "mark" /\ loop'[h] = [loop[h] EXCEPT !.pc = "write"]
        <5>1. Order(h) = o /\ loop[h].pc \in {"mark", "write"}
          BY <3>1, <3>3 DEF Busy
        <5>2. ~Answers(h)
          BY <2>2, <2>3, <5>1 DEF Answers, Typed, OrderTypes
        <5> QED
          BY <1>3, <5>1, <5>2, HandleSteps DEF Finds, Stores, Passes
      <4>2. loop'[h].pc = "write" /\ loop'[h].form = loop[h].form /\ loop'[h] # LoopIdle
        BY <2>1, <4>1 DEF LoopIdle
      <4> QED
        BY <1>2, <2>1, <3>1, <3>3, <4>2 DEF Marked
    <3> QED
      BY <3>2, <3>3
  <2> QED
    BY <2>3 DEF Marked
<1>4. ASSUME UNCHANGED order, \A h \in Loops : loop[h] # LoopIdle => loop'[h] = loop[h]
      PROVE  Marked(o)'
  BY <1>2, <1>4 DEF Marked, Busy
<1>5. ASSUME NEW c \in Cars, SaveOrder(c)
      PROVE  Marked(o)'
  <2>1. order'[o] = order[o]
    <3>1. drawn \in Nat /\ o \in Nat /\ drawn' = drawn + 1
      BY <1>5, CardAssumption DEF SaveOrder, Typed, OrderTypes, Orders
    <3> QED
      BY <1>5, <3>1 DEF SaveOrder, Typed, OrderTypes
  <2> QED
    BY <1>2, <1>5, <2>1 DEF SaveOrder, Marked, Busy
<1>6. ASSUME NEW p \in Orders, Expire(p)
      PROVE  Marked(o)'
  BY <1>2, <1>6 DEF Expire, Marked, Busy, Typed, OrderTypes
<1>7. CASE \E h \in Loops, m \in wire : TakeWebhook(h, m)
  BY <1>4, <1>7, TakeSteps
<1>8. \/ UNCHANGED <<order, loop>>
      \/ \E h \in Loops : Handle(h)
      \/ \E c \in Cars : SaveOrder(c)
      \/ \E p \in Orders : Expire(p)
      \/ \E h \in Loops, m \in wire : TakeWebhook(h, m)
  BY DEF Next, vars, cardVars, RequestOrder, UpdatePlate, AskUrl, ConfirmVehicle, Submit,
         Process, LookUpKey, Tokenise, SaveKey, InsertKey, SendWebhook, StopWaiting,
         PageHears, InTurn, Crash
<1> QED
  BY <1>3, <1>4, <1>5, <1>6, <1>7, <1>8

\* Who waits goes on waiting, until a handler has an answer.
LEMMA WaitStays ==
  ASSUME Typed, InTurn, [Next]_vars, NEW f \in Forms, form[f].pc = "wait"
  PROVE  form'[f].pc = "wait" \/ \E h \in Loops : Handle(h) /\ Answers(h) /\ loop[h].form = f
<1>1. ASSUME NEW g \in Forms, Process(g)
      PROVE  form'[f].pc = "wait"
  BY <1>1, ProcessSteps DEF Draws, Saves, Sends, Ends, Goes, InTurn
<1>2. ASSUME NEW h \in Loops, Handle(h)
      PROVE  form'[f].pc = "wait" \/ (Answers(h) /\ loop[h].form = f)
  BY <1>2, HandleSteps DEF Finds, Stores, Passes
<1>3. ASSUME NEW g \in Forms, NEW c \in Cars, NEW x \in Cards, Submit(g, c, x)
      PROVE  form'[f].pc = "wait"
  <2>1. form[g] = FormNew /\ \A k \in Forms \ {g} : form'[k] = form[k]
    BY <1>3, SubmitSteps
  <2> QED
    BY <2>1 DEF FormNew
<1>4. ~Crash
  BY DEF InTurn, Crash
<1>5. CASE \E h \in Loops, m \in wire : TakeWebhook(h, m)
  BY <1>5, TakeSteps
<1> QED
  BY <1>1, <1>2, <1>3, <1>4, <1>5, RequestSteps DEF Next

\* An answer means that the order is marked, when Redis does not fail.
LEMMA AnswerMarks ==
  ASSUME Typed, Numbered, Named, InTurn, AddsFirst, "redis" \notin faults, [Next]_vars,
         \A o \in stored : Marked(o),
         NEW h \in Loops, Handle(h), Answers(h), NEW o, o = Order(h)
  PROVE  Marked(o)'
<1>1. o \in Orders /\ loop[h].form \in Forms /\ form[loop[h].form] # FormNew /\ loop[h] # LoopIdle
  BY HandleSteps
<1>2. o <= drawn
  BY <1>1, OrdersStay DEF Order, OrderOf
<1>3. Marked(o) \/ (loop[h].pc = "write" /\ order' = [order EXCEPT ![o] = "complete"])
  BY <1>1 DEF Answers, Marked, InTurn, AddsFirst, Busy
<1>4. CASE Marked(o)
  BY <1>1, <1>2, <1>4, MarkedStays
<1>5. CASE order' = [order EXCEPT ![o] = "complete"]
  BY <1>1, <1>5 DEF Marked, Typed, OrderTypes
<1> QED
  BY <1>3, <1>4, <1>5

LEMMA NextAwaited ==
  ASSUME Typed, Numbered, Named, InTurn, AddsFirst, WebhookAwaited, [Next]_vars
  PROVE  WebhookAwaited'
<1>0. UNCHANGED faults
  BY FaultsStay
<1>1. \A m \in wire : m.form \in Forms /\ form[m.form] # FormNew /\ m.form # NoKey
  BY CardAssumption DEF Typed, KeyTypes, Sent
<1>2. \A m \in wire' : m \in wire \/ \E f \in Forms :
        /\ Process(f) /\ m.form = f /\ form[f].pc = "send" /\ form'[f].pc = "wait"
        /\ wire' = wire \cup {m}
  <2>1. ASSUME NEW f \in Forms, Process(f)
        PROVE  UNCHANGED wire \/ (/\ form[f].pc = "send" /\ form'[f].pc = "wait"
                                  /\ wire' = wire \cup {[form |-> f, key |-> form[f].key]})
    BY <2>1, ProcessSteps DEF Sends, Goes
  <2>2. CASE \E h \in Loops, m \in wire : TakeWebhook(h, m)
    BY <2>2, TakeSteps
  <2>3. CASE \E h \in Loops : Handle(h)
    BY <2>3, HandleSteps
  <2>4. CASE \E f \in Forms, c \in Cars, x \in Cards : Submit(f, c, x)
    BY <2>4, SubmitSteps
  <2>5. ~Crash
    BY DEF Crash, InTurn
  <2> QED
    BY <2>1, <2>2, <2>3, <2>4, <2>5, RequestSteps DEF Next
<1>3. CASE "duplicate" \in faults
  <2>0. /\ "redis" \notin faults
        /\ \A m \in wire : form[m.form].pc = "wait" \/ Marked(form[m.form].order)
        /\ \A o \in stored : Marked(o)
    BY <1>3 DEF InTurn, WebhookAwaited
  <2>1. ASSUME NEW m \in wire', form'[m.form].pc # "wait", NEW o, o = form'[m.form].order
        PROVE  Marked(o)'
    <3>1. m \in wire
      BY <1>2, <2>1
    <3>2. o = form[m.form].order /\ o \in Orders /\ o <= drawn
      BY <1>1, <2>1, <3>1, OrdersStay
    <3>3. CASE Marked(o)
      BY <2>0, <3>2, <3>3, MarkedStays
    <3>4. CASE form[m.form].pc = "wait"
      <4>1. PICK h \in Loops : Handle(h) /\ Answers(h) /\ loop[h].form = m.form
        BY <1>1, <2>1, <3>1, <3>4, WaitStays
      <4>2. o = Order(h)
        BY <3>2, <4>1 DEF Order, OrderOf
      <4> QED
        BY <2>0, <4>1, <4>2, AnswerMarks
    <3> QED
      BY <2>0, <3>1, <3>2, <3>3, <3>4
  <2>2. ASSUME NEW o \in stored'
        PROVE  Marked(o)'
    <3>1. CASE o \in stored
      <4>1. o \in Orders /\ o <= drawn
        BY <3>1, CardAssumption DEF Named, OrderNames, Typed, KeyTypes
      <4> QED
        BY <2>0, <3>1, <4>1, MarkedStays
    <3>2. CASE o \notin stored
      <4>1. PICK h \in Loops : Handle(h)
        BY <2>2, <3>2 DEF Next, vars, cardVars, backVars, RequestOrder, UpdatePlate, SaveOrder, AskUrl,
             ConfirmVehicle, Expire, Submit, TakeWebhook, Process, LookUpKey, Tokenise, SaveKey, InsertKey,
             SendWebhook, StopWaiting, PageHears, Crash
      <4>2. o = Order(h) /\ loop'[h] = [loop[h] EXCEPT !.pc = "mark"] /\ UNCHANGED form
        BY <2>2, <3>2, <4>1, HandleSteps DEF Stores, Passes
      <4>3. loop[h] \in [pc : LoopPcs, form : Forms, key : Forms]
        BY <4>1, HandleSteps, LoopFields
      <4>4. loop'[h].pc = "mark" /\ loop'[h].form = loop[h].form /\ loop'[h] # LoopIdle
        BY <4>2, <4>3 DEF LoopIdle
      <4>5. Busy(h, o)'
        BY <4>2, <4>4 DEF Busy, Order, OrderOf
      <4> QED
        BY <4>4, <4>5 DEF Marked
    <3> QED
      BY <3>1, <3>2
  <2> QED
    BY <1>0, <1>3, <2>1, <2>2 DEF WebhookAwaited
<1>4. CASE "duplicate" \notin faults
  <2>0. /\ \A m \in wire : form[m.form].pc = "wait" /\ \A h \in Loops : loop[h].form # m.form
        /\ \A m, n \in wire : m.form = n.form => m = n
        /\ \A h \in Loops : loop[h] # LoopIdle => form[loop[h].form].pc = "wait"
        /\ \A g, h \in Loops : g # h /\ loop[g] # LoopIdle => loop[g].form # loop[h].form
    BY <1>4 DEF WebhookAwaited
  <2>1. /\ \A h \in Loops : loop[h] # LoopIdle => loop[h].form \in Forms
        /\ \A h \in Loops : loop[h] = LoopIdle => loop[h].form = NoKey
        /\ NoKey \notin Forms
    BY LoopFields, CardAssumption DEF LoopIdle
  <2>2. ASSUME NEW f \in Forms, Process(f)
        PROVE  WebhookAwaited'
    <3>1. UNCHANGED loop /\ \A g \in Forms : form[g].pc = "wait" => form'[g].pc = "wait"
      <4>1. \A g \in Forms : g # f => form'[g] = form[g]
        BY <2>2, ProcessSteps
      <4>2. form[f].pc # "wait"
        BY <2>2, ProcessSteps DEF Draws, Saves, Sends, Ends, Goes, InTurn
      <4> QED
        BY <2>2, <4>1, <4>2, ProcessSteps
    <3>2. \/ UNCHANGED wire
          \/ /\ form[f].pc = "send" /\ form'[f].pc = "wait"
             /\ wire' = wire \cup {[form |-> f, key |-> form[f].key]}
      BY <2>2, ProcessSteps DEF Sends, Goes
    <3>3. CASE UNCHANGED wire
      BY <1>0, <1>1, <1>4, <2>0, <2>1, <3>1, <3>3 DEF WebhookAwaited
    <3>4. CASE /\ form[f].pc = "send" /\ form'[f].pc = "wait"
               /\ wire' = wire \cup {[form |-> f, key |-> form[f].key]}
      <4>1. /\ \A m \in wire : m.form # f
            /\ \A h \in Loops : loop[h].form # f
        BY <2>0, <2>1, <3>4
      <4> QED
        BY <1>0, <1>1, <1>4, <2>0, <2>1, <3>1, <3>4, <4>1 DEF WebhookAwaited
    <3> QED
      BY <3>2, <3>3, <3>4
  <2>3. ASSUME NEW h \in Loops, Handle(h)
        PROVE  WebhookAwaited'
    <3>1. /\ UNCHANGED wire /\ loop[h] # LoopIdle
          /\ \A g \in Loops \ {h} : loop'[g] = loop[g]
          /\ \A g \in Forms : g # loop[h].form => form'[g] = form[g]
      BY <2>3, HandleSteps
    <3>2. \/ UNCHANGED form /\ loop'[h].form = loop[h].form
          \/ loop'[h] = LoopIdle
      <4>1. \/ UNCHANGED form /\ \E to \in LoopPcs : loop'[h] = [loop[h] EXCEPT !.pc = to]
            \/ loop'[h] = LoopIdle
        BY <2>3, HandleSteps DEF Finds, Stores, Answers, Passes, Tells, LoopPcs
      <4> QED
        BY <3>1, <4>1, LoopFields
    <3>3. CASE UNCHANGED form /\ loop'[h].form = loop[h].form
      <4>1. \A g \in Loops : loop'[g].form = loop[g].form /\ (loop'[g] # LoopIdle => loop[g] # LoopIdle)
        BY <3>1, <3>3
      <4> QED
        BY <1>0, <1>4, <2>0, <3>1, <3>3, <4>1 DEF WebhookAwaited
    <3>4. CASE loop'[h] = LoopIdle
      <4>1. /\ \A m \in wire : form'[m.form] = form[m.form]
            /\ \A g \in Loops \ {h} : loop[g] # LoopIdle => form'[loop[g].form] = form[loop[g].form]
        BY <1>1, <2>0, <2>1, <3>1
      <4>2. loop'[h].form = NoKey
        BY <3>4 DEF LoopIdle
      <4> QED
        BY <1>0, <1>1, <1>4, <2>0, <2>1, <3>1, <3>4, <4>1, <4>2 DEF WebhookAwaited
    <3> QED
      BY <3>2, <3>3, <3>4
  <2>4. ASSUME NEW h \in Loops, NEW m \in wire, TakeWebhook(h, m)
        PROVE  WebhookAwaited'
    <3>0. /\ UNCHANGED form /\ wire' = wire \ {m}
          /\ loop'[h] = [pc |-> "order", form |-> m.form, key |-> m.key]
          /\ \A g \in Loops \ {h} : loop'[g] = loop[g]
      BY <1>4, <2>4, TakeSteps
    <3>1. /\ UNCHANGED form /\ wire' = wire \ {m}
          /\ loop'[h].form = m.form /\ loop'[h] # LoopIdle
          /\ \A g \in Loops \ {h} : loop'[g] = loop[g]
      BY <3>0 DEF LoopIdle
    <3> QED
      BY <1>0, <1>1, <1>4, <2>0, <2>1, <3>1 DEF WebhookAwaited
  <2>5. ASSUME NEW f \in Forms, NEW c \in Cars, NEW x \in Cards, Submit(f, c, x)
        PROVE  WebhookAwaited'
    <3>1. /\ UNCHANGED <<wire, loop>> /\ \A g \in Forms \ {f} : form'[g] = form[g]
          /\ \A m \in wire : m.form \in Forms \ {f}
          /\ \A h \in Loops : loop[h] # LoopIdle => loop[h].form \in Forms \ {f}
      BY <2>5, SubmitSteps
    <3> QED
      BY <1>0, <1>4, <2>0, <3>1 DEF WebhookAwaited
  <2>6. CASE UNCHANGED <<form, wire, loop>>
    BY <1>0, <1>4, <2>6 DEF WebhookAwaited
  <2>7. ~Crash
    BY DEF Crash, InTurn
  <2> QED
    BY <2>2, <2>3, <2>4, <2>5, <2>6, <2>7, RequestSteps DEF Next
<1> QED
  BY <1>3, <1>4

LEMMA NextBilled ==
  ASSUME Typed, Numbered, Named, InTurn, Turn, AddsFirst, LastBilled, [Next]_vars
  PROVE  AddsFirst' /\ LastBilled'
<1>0. /\ \A o \in Orders : o \in Nat
      /\ \A o \in stored : o \in Orders /\ carOf'[o] = carOf[o] /\ carOf[o] \in Cars
      /\ \A k \in Forms : form[k] # FormNew =>
           /\ form'[k].order = form[k].order /\ carOf'[form[k].order] = carOf[form[k].order]
           /\ carOf[form[k].order] \in Cars /\ form[k].order \in Orders
  <2>1. \A o \in stored : o \in Orders /\ carOf[o] \in Cars /\ o <= drawn
    BY CardAssumption DEF Named, OrderNames, Typed, KeyTypes
  <2>2. \A k \in Forms : form[k] # FormNew => carOf[form[k].order] \in Cars
    BY DEF Named, OrderNames
  <2> QED
    BY <2>1, <2>2, CarsStay, OrdersStay, CardAssumption DEF Orders
<1>1. /\ \A h \in Loops : loop[h] # LoopIdle => loop[h].form \in Forms /\ form[loop[h].form] # FormNew
      /\ \A h \in Loops : loop[h].pc = "add" => loop[h] # LoopIdle
      /\ \A c \in Cars : billing[c] # NoKey => billing[c] \in Forms /\ form[billing[c]] # FormNew
  BY LoopFields DEF LoopIdle, Named, KeyNames, Typed, KeyTypes
<1>2. ASSUME NEW h \in Loops, Handle(h), Stores(h)
      PROVE  AddsFirst' /\ LastBilled'
  <2> DEFINE o == Order(h)
             k == loop[h].key
  <2>1. /\ loop[h] # LoopIdle /\ loop[h].pc # "order" /\ o \in Orders
        /\ UNCHANGED <<form, carOf>> /\ billing' = [billing EXCEPT ![carOf[o]] = k]
        /\ stored' = stored \cup {o}
        /\ \A g \in Loops \ {h} : loop'[g] = loop[g]
    BY <1>2, HandleSteps DEF Stores, Passes
  <2>2. loop'[h].pc = "mark"
    BY <1>2, <2>1, LoopFields DEF Stores, Passes
  <2>3. k \in Forms /\ form[k] # FormNew /\ form[k].order = o /\ k # NoKey /\ carOf[o] \in Cars
    BY <1>0, <2>1, CardAssumption DEF Named, KeyNames, Names
  <2>4. Latest(o)
    BY <2>1, PastFirstLook
  <2>5. \A c \in Cars : billing'[c] = IF c = carOf[o] THEN k ELSE billing[c]
    BY <2>1 DEF Typed, KeyTypes
  <2>6. LastBilled'
    <3>1. ASSUME NEW c \in Cars, NEW q \in stored', carOf[q] = c
          PROVE  billing'[c] # NoKey /\ q <= form[billing'[c]].order
      <4>1. CASE c = carOf[o]
        BY <1>0, <2>1, <2>3, <2>4, <2>5, <3>1, <4>1 DEF Latest
      <4>2. CASE c # carOf[o]
        BY <2>1, <2>5, <3>1, <4>2 DEF LastBilled
      <4> QED
        BY <4>1, <4>2
    <3> QED
      BY <2>1, <3>1 DEF LastBilled
  <2>7. AddsFirst'
    <3>1. ASSUME NEW g \in Loops, loop'[g].pc = "add", billing'[carOf[Order(g)]] # NoKey
          PROVE  Order(g) \in stored' /\ loop'[g] = loop[g]
      <4>1. g # h /\ loop'[g] = loop[g] /\ loop[g] # LoopIdle
        BY <1>1, <2>1, <2>2, <3>1
      <4>2. Latest(Order(g)) /\ Order(g) \in Orders /\ carOf[Order(g)] \in Cars
        BY <1>0, <1>1, <3>1, <4>1, PastFirstLook DEF Order, OrderOf
      <4>3. CASE carOf[Order(g)] = carOf[o]
        <5>1. Order(g) = o
          BY <1>0, <2>1, <2>4, <4>2, <4>3 DEF Latest
        <5> QED
          BY <2>1, <4>1, <5>1
      <4>4. CASE carOf[Order(g)] # carOf[o]
        BY <2>1, <2>5, <3>1, <4>1, <4>2, <4>4 DEF AddsFirst
      <4> QED
        BY <4>3, <4>4
    <3>2. \A g \in Loops : loop'[g].pc = "add" => loop'[g] = loop[g]
      BY <2>1, <2>2
    <3> QED
      BY <2>1, <3>1, <3>2 DEF AddsFirst, Order, OrderOf
  <2> QED
    BY <2>6, <2>7
<1>3. ASSUME UNCHANGED <<billing, stored>>,
             \A h \in Loops : loop'[h].pc = "add" =>
               \/ loop'[h].form = loop[h].form /\ loop[h].pc = "add"
               \/ /\ loop'[h].form = loop[h].form /\ loop[h] # LoopIdle
                  /\ billing[carOf[Order(h)]] = NoKey
      PROVE  AddsFirst' /\ LastBilled'
  <2>1. LastBilled'
    <3>1. ASSUME NEW c \in Cars, NEW q \in stored, carOf'[q] = c
          PROVE  billing[c] # NoKey /\ q <= form'[billing[c]].order
      BY <1>0, <1>1, <3>1 DEF LastBilled
    <3> QED
      BY <1>3, <3>1 DEF LastBilled
  <2>2. AddsFirst'
    <3>1. ASSUME NEW h \in Loops, loop'[h].pc = "add"
          PROVE  Order(h)' = Order(h) /\ carOf'[Order(h)] = carOf[Order(h)]
      BY <1>0, <1>1, <1>3, <3>1 DEF Order, OrderOf
    <3>2. ASSUME NEW h \in Loops, loop'[h].pc = "add", billing[carOf[Order(h)]] # NoKey
          PROVE  Order(h) \in stored
      BY <1>3, <3>2 DEF AddsFirst
    <3> QED
      BY <1>3, <3>1, <3>2 DEF AddsFirst
  <2> QED
    BY <2>1, <2>2
<1>4. ASSUME NEW h \in Loops, Handle(h), ~Stores(h)
      PROVE  AddsFirst' /\ LastBilled'
  <2>1. /\ UNCHANGED <<billing, stored>> /\ loop[h] # LoopIdle
        /\ \A g \in Loops \ {h} : loop'[g] = loop[g]
        /\ Finds(h) \/ Answers(h)
    BY <1>4, HandleSteps
  <2>2. loop[h] \in [pc : LoopPcs, form : Forms, key : Forms]
    BY <2>1, LoopFields
  <2>3. loop'[h].pc = "add" => billing[carOf[Order(h)]] = NoKey /\ loop'[h].form = loop[h].form
    <3>1. \/ loop'[h] = LoopIdle
          \/ \E to \in {"upsert", "set", "write"} : loop'[h] = [loop[h] EXCEPT !.pc = to]
          \/ billing[carOf[Order(h)]] = NoKey /\ loop'[h] = [loop[h] EXCEPT !.pc = "add"]
      BY <2>1 DEF Finds, Answers, Passes, Tells
    <3> QED
      BY <2>2, <3>1 DEF LoopIdle
  <2> QED
    BY <1>3, <2>1, <2>3
<1>5. CASE \E h \in Loops, m \in wire : TakeWebhook(h, m)
  <2>1. PICK h \in Loops, m \in wire : TakeWebhook(h, m)
    BY <1>5
  <2>2. /\ UNCHANGED <<billing, stored>>
        /\ loop'[h] = [pc |-> "order", form |-> m.form, key |-> m.key]
        /\ \A g \in Loops \ {h} : loop'[g] = loop[g]
    BY <2>1, TakeSteps
  <2>3. loop'[h].pc = "order"
    BY <2>2
  <2> QED
    BY <1>3, <2>2, <2>3
<1>6. CASE UNCHANGED <<billing, stored, loop>>
  BY <1>3, <1>6
<1>7. CASE \E f \in Forms : Process(f)
  BY <1>6, <1>7, ProcessSteps
<1>8. CASE \E f \in Forms, c \in Cars, x \in Cards : Submit(f, c, x)
  BY <1>6, <1>8, SubmitSteps
<1>9. ~Crash
  BY DEF Crash, InTurn
<1> QED
  BY <1>2, <1>4, <1>5, <1>6, <1>7, <1>8, <1>9, RequestSteps DEF Next

LEMMA InitOrdered == Init => Ordered
<1> SUFFICES ASSUME Init PROVE Turn /\ WebhookAwaited /\ AddsFirst /\ LastBilled
  BY DEF Ordered
<1>1. \A o \in Orders : Settled(o)
  <2>1. \A o \in Orders : o # NoOrder
    BY DEF Orders, NoOrder
  <2> QED
    BY <2>1 DEF Init, Settled, AtWork, FormsOf, Told, Handled, Busy, FormNew
<1> QED
  BY <1>1 DEF Init, Turn, LastAtWork, LastShown, Drawn, WebhookAwaited, AddsFirst, LastBilled, LoopIdle

LEMMA NextOrdered == Typed /\ Numbered /\ Named /\ Ordered /\ [Next]_vars => Ordered'
<1> SUFFICES ASSUME Typed, Numbered, Named, Ordered, [Next]_vars, InTurn'
             PROVE  Turn' /\ WebhookAwaited' /\ AddsFirst' /\ LastBilled'
  BY DEF Ordered
<1>1. InTurn
  BY FaultsStay DEF InTurn
<1> QED
  BY <1>1, NextTurn, NextAwaited, NextBilled DEF Ordered

LEMMA OrderedHolds == Spec => []Ordered
BY InitOrdered, NextOrdered, NamedHolds, KeysHold, TypedHolds, PTL DEF Spec

\* The key that replaces another is of the last order of the car.
LEMMA NewerStep ==
  ASSUME Typed, Named, Ordered, [Next]_vars, InTurn, NEW c \in Cars, billing[c] # NoKey
  PROVE  OrderOf(billing[c]) <= OrderOf(billing'[c])
<1>1. /\ billing[c] \in Forms /\ form[billing[c]] # FormNew /\ carOf[form[billing[c]].order] = c
  BY DEF Named, KeyNames, Typed, KeyTypes
<1>2. form[billing[c]].order \in Orders /\ \A o \in Orders : o \in Nat
  BY <1>1, FormFields, CardAssumption DEF Orders
<1>3. CASE billing'[c] = billing[c]
  BY <1>2, <1>3 DEF OrderOf
<1>4. CASE billing'[c] # billing[c]
  <2>1. PICK h \in Loops : Handle(h)
    BY <1>4 DEF Next, vars, cardVars, backVars, RequestOrder, UpdatePlate, SaveOrder, AskUrl,
         ConfirmVehicle, Expire, Submit, TakeWebhook, Process, LookUpKey, Tokenise, SaveKey, InsertKey,
         SendWebhook, StopWaiting, PageHears, Crash
  <2>2. Stores(h)
    BY <1>4, <2>1, HandleSteps
  <2>3. loop[h] # LoopIdle /\ loop[h].pc # "order" /\ Order(h) \in Orders
    BY <2>1, <2>2, HandleSteps DEF Stores, Passes
  <2>4. carOf[Order(h)] = c /\ billing'[c] = loop[h].key
    BY <1>4, <2>2 DEF Stores, Typed, KeyTypes
  <2>5. form[loop[h].key].order = Order(h)
    BY <2>3 DEF Named, KeyNames, Names
  <2>6. Latest(Order(h))
    BY <2>3, PastFirstLook DEF Ordered
  <2> QED
    BY <1>1, <1>2, <2>4, <2>5, <2>6 DEF Latest, OrderOf
<1> QED
  BY <1>3, <1>4

\* The key of an older order does not replace that of a newer one, whatever is lost,
\* fails or is submitted twice, if the app does not start over while a card is on its
\* way, no sender of a webhook dies or stops waiting, and a webhook that comes again does
\* not find an order that mark_complete left pending (HandleCardWebhookService).
THEOREM OlderKeyStays == Spec => NewerStands
<1>1. Typed /\ Named /\ Ordered /\ [Next]_vars =>
        [ faults \cap {"overlap", "timeout", "crash"} = {} /\ ~({"duplicate", "redis"} \subseteq faults)
            => \A c \in Cars : billing[c] # NoKey => OrderOf(billing[c]) <= OrderOf(billing'[c]) ]_vars
  BY NewerStep DEF InTurn
<1> QED
  BY <1>1, OrderedHolds, NamedHolds, TypedHolds, PTL DEF Spec, NewerStands

-----------------------------------------------------------------------------
(* The card the app shows.                                                 *)

\* What AppCardIsCharged assumes.
Sound == faults \cap {"webhook", "timeout", "expiry", "crash", "redis", "unheard", "double", "overlap"} = {}

\* A submission is the first of its order, and its page is shown while it is at work.
FirstOfOrder ==
  \A f \in Forms : form[f] # FormNew =>
    /\ ~form[f].again
    /\ order[form[f].order] \in {"pending", "complete"}
    /\ form[f].pc \in Working => page[carOf[form[f].order]] = form[f].order
    /\ form[f].pc = "look" => gate[form[f].order] = NoKey
    /\ form[f].pc \in {"send", "wait", "ok"} => gate[form[f].order] = f
PageFresh ==
  \A c \in Cars :
    /\ page[c] # NoOrder =>
         /\ order[page[c]] \in {"pending", "complete"}
         /\ gate[page[c]] # NoKey => form[gate[page[c]]].pc \in {"send", "wait", "ok"}
    /\ req[c].pc = "url" =>
         order[req[c].order] \in {"pending", "complete"} /\ gate[req[c].order] = NoKey

\* The key of an order is that of a submission that is told or was.
KeyTold ==
  \A o \in Orders : gate[o] # NoKey =>
    /\ form[gate[o]].pc \in {"send", "wait", "ok", "over"}
    /\ form[gate[o]].pc \in {"ok", "over"} => o \in stored

Shown ==
  \A c \in Cars : app[c] # NoCard =>
    /\ billing[c] # NoKey
    /\ form[billing[c]].card = app[c] \/ form[billing[c]].pc \in {"send", "wait", "ok"}

Follows == Sound => FirstOfOrder /\ PageFresh /\ KeyTold /\ Shown
\* What is known of a step, when nothing is lost and nothing dies.
Known == Typed /\ Numbered /\ Keys /\ Course /\ Named /\ Ordered /\ Follows

LEMMA SoundKnows ==
  ASSUME Known, Sound
  PROVE  /\ Typed /\ Numbered /\ Named /\ OrderNames /\ KeyNames /\ Course /\ InTurn /\ Clean
         /\ OneAtWork /\ Drawing /\ GateKeys /\ WireKeys /\ BilledKeys
         /\ Turn /\ WebhookAwaited /\ AddsFirst /\ LastBilled
         /\ FirstOfOrder /\ PageFresh /\ KeyTold /\ Shown
<1>1. InTurn /\ Clean
  BY DEF Sound, InTurn, Clean
<1> QED
  BY <1>1 DEF Known, Keys, Ordered, Named, Follows

\* A submission goes straight to its answer, and the page hears it.
LEMMA SoundProcess ==
  ASSUME Known, Sound, NEW f \in Forms, Process(f),
         NEW o, o = form[f].order
  PROVE  /\ form'[f].again = FALSE
         /\ \/ /\ form[f].pc \in {"look", "token", "save"} /\ form'[f].pc \in {"token", "save", "insert", "failed"}
               /\ UNCHANGED <<gate, page, app>>
            \/ /\ Goes(f, "insert", "send") /\ gate[o] = NoKey
               /\ gate' = [gate EXCEPT ![o] = f] /\ UNCHANGED <<page, app>>
            \/ Goes(f, "send", "wait") /\ UNCHANGED <<gate, page, app>>
            \/ Goes(f, "failed", "over") /\ UNCHANGED <<gate, page, app>>
            \/ /\ Goes(f, "ok", "over") /\ page[carOf[o]] = o /\ UNCHANGED gate
               /\ app' = [app EXCEPT ![carOf[o]] = form[f].card] /\ page' = [page EXCEPT ![carOf[o]] = NoOrder]
<1>1. /\ Typed /\ FirstOfOrder /\ form[f] # FormNew
      /\ \/ Draws(f) /\ UNCHANGED <<gate, wire, page, app>>
         \/ Saves(f) /\ UNCHANGED <<wire, page, app>>
         \/ Sends(f) /\ UNCHANGED <<gate, page, app>>
         \/ Ends(f) /\ UNCHANGED <<gate, wire>>
  BY SoundKnows, ProcessSteps
<1>2. DrawingOf(f)
  BY SoundKnows DEF Drawing
<1>3. /\ form[f].again = FALSE
      /\ form[f].pc = "look" => gate[o] = NoKey
      /\ form[f].pc = "ok" => page[carOf[o]] = o
  <2>1. form[f].again \in BOOLEAN
    BY <1>1, FormFields
  <2> QED
    BY <1>1, <2>1 DEF FirstOfOrder, Working
<1>4. /\ form[f].pc \in {"token", "save", "insert"} => gate[o] = NoKey
      /\ form[f].pc = "insert" => form[f].key = f
  BY <1>2 DEF DrawingOf
<1>5. CASE Draws(f) /\ UNCHANGED <<gate, wire, page, app>>
  BY <1>3, <1>4, <1>5 DEF Draws, Goes, Keeping, Sound
<1>6. CASE Saves(f) /\ UNCHANGED <<wire, page, app>>
  BY <1>3, <1>4, <1>6 DEF Saves, Goes, Keeping
<1>7. CASE Sends(f) /\ UNCHANGED <<gate, page, app>>
  BY <1>3, <1>7 DEF Sends, Goes, Keeping
<1>8. CASE Ends(f) /\ UNCHANGED <<gate, wire>>
  BY <1>3, <1>8 DEF Ends, Goes, Keeping, Sound
<1> QED
  BY <1>1, <1>5, <1>6, <1>7, <1>8

\* Who waits is answered "ok", for an order some key was stored for.
LEMMA SoundHandle ==
  ASSUME Known, Sound, NEW h \in Loops, Handle(h)
  PROVE  \A g \in Forms :
           \/ form'[g] = form[g]
           \/ Goes(g, "wait", "ok") /\ Keeping(g) /\ form[g].order \in stored /\ form[g] # FormNew
<1> DEFINE f == loop[h].form
           o == Order(h)
<1>1. /\ Typed /\ Course /\ AddsFirst /\ FirstOfOrder
      /\ loop[h] # LoopIdle /\ f \in Forms /\ form[f] # FormNew /\ o \in Orders /\ o = form[f].order
      /\ \A g \in Forms : g # f => form'[g] = form[g]
  BY SoundKnows, HandleSteps DEF Order, OrderOf
<1>2. CASE UNCHANGED form
  BY <1>2
<1>3. CASE ~UNCHANGED form
  <2>1. Answers(h)
    BY <1>1, <1>3, HandleSteps DEF Finds, Stores, Passes
  <2>2. Goes(f, "wait", "ok") /\ Keeping(f)
    <3>1. Unsent(f) = "ok"
      BY <1>1 DEF FirstOfOrder, Unsent
    <3> QED
      BY <1>3, <2>1, <3>1 DEF Answers, Tells, Goes
  <2>3. order[o] \in {"pending", "complete"}
    BY <1>1 DEF FirstOfOrder
  <2>4. o \in stored
    BY <1>1, <2>1, <2>3 DEF Answers, Sound, Course, CompleteStored, MarkingStored, AddsFirst
  <2> QED
    BY <1>1, <2>2, <2>4
<1> QED
  BY <1>2, <1>3

\* The submission of a key that is saved.
LEMMA KeyMoves ==
  ASSUME Known, Sound, [Next]_vars, NEW g \in Forms, form[g].pc \in {"send", "wait", "ok", "over"},
         NEW o, o = form[g].order
  PROVE  \/ form'[g].pc = form[g].pc
         \/ Goes(g, "send", "wait")
         \/ Goes(g, "wait", "ok") /\ o \in stored
         \/ /\ Goes(g, "ok", "over") /\ page[carOf[o]] = o
            /\ app' = [app EXCEPT ![carOf[o]] = form[g].card] /\ page' = [page EXCEPT ![carOf[o]] = NoOrder]
<1>0. Typed /\ InTurn
  BY SoundKnows
<1>1. ASSUME NEW f \in Forms, Process(f), f # g
      PROVE  form'[g] = form[g]
  BY <1>0, <1>1, ProcessSteps
<1>2. CASE Process(g)
  BY <1>2, SoundProcess DEF Goes
<1>3. CASE \E h \in Loops : Handle(h)
  BY <1>3, SoundHandle DEF Goes
<1>4. CASE \E h \in Loops, m \in wire : TakeWebhook(h, m)
  BY <1>0, <1>4, TakeSteps
<1>5. ASSUME NEW f \in Forms, NEW c \in Cars, NEW x \in Cards, Submit(f, c, x)
      PROVE  form'[g] = form[g]
  <2>1. form[f] = FormNew /\ \A k \in Forms \ {f} : form'[k] = form[k]
    BY <1>0, <1>5, SubmitSteps
  <2> QED
    BY <2>1 DEF FormNew
<1>6. ~Crash
  BY <1>0 DEF InTurn, Crash
<1> QED
  BY <1>1, <1>2, <1>3, <1>4, <1>5, <1>6, RequestSteps DEF Next

\* A key is saved for an order without one, and stays.
LEMMA GateMoves ==
  ASSUME Known, Sound, [Next]_vars
  PROVE  \/ UNCHANGED gate
         \/ \E f \in Forms : /\ Goes(f, "insert", "send") /\ gate[form[f].order] = NoKey
                             /\ form[f] # FormNew /\ form[f].order \in Orders
                             /\ gate' = [gate EXCEPT ![form[f].order] = f]
                             /\ UNCHANGED <<page, app>>
<1>0. Typed /\ InTurn
  BY SoundKnows
<1>1. ASSUME NEW f \in Forms, Process(f)
      PROVE  \/ UNCHANGED gate
             \/ /\ Goes(f, "insert", "send") /\ gate[form[f].order] = NoKey
                /\ form[f] # FormNew /\ form[f].order \in Orders
                /\ gate' = [gate EXCEPT ![form[f].order] = f]
                /\ UNCHANGED <<page, app>>
  BY <1>0, <1>1, SoundProcess, ProcessSteps
<1>2. CASE \E h \in Loops : Handle(h)
  BY <1>0, <1>2, HandleSteps
<1>3. CASE \E h \in Loops, m \in wire : TakeWebhook(h, m)
  BY <1>0, <1>3, TakeSteps
<1>4. CASE \E f \in Forms, c \in Cars, x \in Cards : Submit(f, c, x)
  BY <1>0, <1>4, SubmitSteps
<1>5. ~Crash
  BY <1>0 DEF InTurn, Crash
<1> QED
  BY <1>1, <1>2, <1>3, <1>4, <1>5, RequestSteps DEF Next

\* A record is not lost.
LEMMA OrderMoves ==
  ASSUME Known, Sound, [Next]_vars, NEW o \in Orders, order[o] \in {"pending", "complete"}
  PROVE  order'[o] \in {"pending", "complete"}
<1> USE DEF requestVars, orderVars, gateVars, backVars
<1>0. Typed
  BY SoundKnows
<1>1. ASSUME NEW h \in Loops, Handle(h)
      PROVE  order'[o] \in {"pending", "complete"}
  BY <1>0, <1>1, HandleSteps DEF Answers, Typed, OrderTypes
<1>2. ASSUME NEW c \in Cars, SaveOrder(c)
      PROVE  order'[o] \in {"pending", "complete"}
  BY <1>0, <1>2 DEF SaveOrder, Typed, OrderTypes
<1>3. ~\E p \in Orders : Expire(p)
  BY DEF Expire, Sound
<1>4. \/ UNCHANGED order \/ \E c \in Cars : SaveOrder(c)
      \/ \E p \in Orders : Expire(p)
      \/ \E h \in Loops : Handle(h)
  BY DEF Next, vars, cardVars, RequestOrder, UpdatePlate, AskUrl, ConfirmVehicle, Submit,
       TakeWebhook, Process, LookUpKey, Tokenise, SaveKey, InsertKey, SendWebhook, StopWaiting,
       PageHears, Crash
<1> QED
  BY <1>1, <1>2, <1>3, <1>4

\* The page of a submission at work is shown until it is over.
LEMMA PageStays ==
  ASSUME Known, Sound, [Next]_vars, NEW g \in Forms, form[g] # FormNew,
         form[g].pc \in Working, form'[g].pc \in Working, NEW o, o = form[g].order
  PROVE  page'[carOf[o]] = o
<1>0. /\ Typed /\ InTurn /\ OneAtWork /\ Drawn /\ FirstOfOrder /\ OrderNames
  BY SoundKnows DEF Turn
<1>1. PICK c \in Cars : c = carOf[o]
  BY <1>0 DEF OrderNames
<1>2. page[c] = o /\ o \in Orders /\ o # NoOrder /\ AtWork(o)
  <2>1. page[c] = o
    BY <1>0, <1>1 DEF FirstOfOrder
  <2>2. o \in Orders
    BY <1>0, FormFields
  <2>3. AtWork(o)
    BY DEF AtWork, FormsOf, Working
  <2> QED
    BY <2>1, <2>2, <2>3 DEF Orders, NoOrder
<1>3. req[c] = ReqIdle
  BY <1>0, <1>2 DEF Drawn
<1>4. CASE \E f \in Forms : Process(f)
  <2>1. PICK f \in Forms : Process(f)
    BY <1>4
  <2>2. CASE UNCHANGED page
    BY <1>1, <1>2, <2>2
  <2>3. CASE ~UNCHANGED page
    <3>1. /\ Goes(f, "ok", "over") /\ page[carOf[form[f].order]] = form[f].order
          /\ page' = [page EXCEPT ![carOf[form[f].order]] = NoOrder]
      BY <2>1, <2>3, SoundProcess
    <3>2. f # g
      BY <3>1 DEF Goes, Working, WorkPcs
    <3>3. carOf[form[f].order] # c
      BY <1>0, <1>2, <3>1, <3>2 DEF OneAtWork, Goes, Working
    <3> QED
      BY <1>0, <1>1, <1>2, <3>1, <3>3 DEF Typed, OrderTypes
  <2> QED
    BY <2>2, <2>3
<1>5. CASE ~\E f \in Forms : Process(f)
  BY <1>0, <1>1, <1>2, <1>3, <1>5, CarSteps DEF ReqIdle
<1> QED
  BY <1>4, <1>5

LEMMA NextFirst ==
  ASSUME Known, Sound, [Next]_vars
  PROVE  FirstOfOrder'
<1>0. /\ Typed /\ Numbered /\ InTurn /\ OneAtWork /\ FirstOfOrder /\ OrderNames /\ KeyNames /\ PageFresh /\ Clean
  BY SoundKnows
<1>1. ASSUME NEW f \in Forms, form[f] # FormNew
      PROVE  /\ form'[f] # FormNew /\ form[f].order \in Orders
             /\ form'[f].order = form[f].order /\ carOf'[form[f].order] = carOf[form[f].order]
  BY <1>0, <1>1, FormsStay, OrdersStay
<1>2. ASSUME NEW f \in Forms, form[f] # FormNew, form'[f] # form[f]
      PROVE  /\ form'[f].again = FALSE
             /\ form'[f].pc \in Working => form[f].pc \in Working
             /\ form'[f].pc # "look"
             /\ form'[f].pc \in {"send", "wait", "ok"} => gate'[form[f].order] = f
  <2>1. ASSUME Process(f), NEW o, o = form[f].order
        PROVE  /\ form'[f].again = FALSE
               /\ form'[f].pc \in Working => form[f].pc \in Working
               /\ form'[f].pc # "look"
               /\ form'[f].pc \in {"send", "wait", "ok"} => gate'[o] = f
    <3>1. form[f].pc = "send" => gate[o] = f
      BY <1>0, <1>2, <2>1 DEF FirstOfOrder
    <3>2. gate \in [Orders -> Forms \cup {NoKey}] /\ o \in Orders
      BY <1>0, <1>1, <1>2, <2>1 DEF Typed, KeyTypes
    <3> QED
      BY <2>1, <3>1, <3>2, SoundProcess DEF Goes, Working, WorkPcs
  <2>2. ASSUME NEW h \in Loops, Handle(h)
        PROVE  /\ form'[f].again = FALSE
               /\ form'[f].pc \in Working => form[f].pc \in Working
               /\ form'[f].pc # "look"
               /\ form'[f].pc \in {"send", "wait", "ok"} => gate'[form[f].order] = f
    <3>1. Goes(f, "wait", "ok") /\ Keeping(f)
      BY <1>2, <2>2, SoundHandle
    <3>2. form[f].again = FALSE /\ gate[form[f].order] = f /\ UNCHANGED gate
      <4>1. form[f].again \in BOOLEAN
        BY <1>0, <1>2, FormFields
      <4> QED
        BY <1>0, <1>2, <2>2, <3>1, <4>1, HandleSteps DEF FirstOfOrder, Goes
    <3> QED
      BY <3>1, <3>2 DEF Goes, Keeping, Working, WorkPcs
  <2>3. Process(f) \/ \E h \in Loops : Handle(h)
    <3>1. ASSUME NEW g \in Forms, Process(g), g # f
          PROVE  FALSE
      BY <1>0, <1>2, <3>1, ProcessSteps
    <3>2. ASSUME NEW g \in Forms, NEW c \in Cars, NEW x \in Cards, Submit(g, c, x)
          PROVE  FALSE
      <4>1. form[g] = FormNew /\ \A k \in Forms \ {g} : form'[k] = form[k]
        BY <1>0, <3>2, SubmitSteps
      <4> QED
        BY <1>2, <4>1
    <3>3. CASE \E h \in Loops, m \in wire : TakeWebhook(h, m)
      BY <1>0, <1>2, <3>3, TakeSteps
    <3>4. ~Crash
      BY <1>0 DEF InTurn, Crash
    <3> QED
      BY <1>2, <3>1, <3>2, <3>3, <3>4, RequestSteps DEF Next
  <2> QED
    BY <2>1, <2>2, <2>3
<1>3. ASSUME NEW f \in Forms, form[f] # FormNew
      PROVE  /\ ~form'[f].again
             /\ order'[form'[f].order] \in {"pending", "complete"}
             /\ form'[f].pc \in Working => page'[carOf'[form'[f].order]] = form'[f].order
             /\ form'[f].pc = "look" => gate'[form'[f].order] = NoKey
             /\ form'[f].pc \in {"send", "wait", "ok"} => gate'[form'[f].order] = f
  <2>1. order'[form[f].order] \in {"pending", "complete"}
    BY <1>0, <1>1, <1>3, OrderMoves DEF FirstOfOrder
  <2>2. form'[f].pc \in Working => page'[carOf[form[f].order]] = form[f].order
    BY <1>2, <1>3, PageStays
  <2>3. /\ ~form'[f].again
        /\ form'[f].pc = "look" => gate'[form[f].order] = NoKey
        /\ form'[f].pc \in {"send", "wait", "ok"} => gate'[form[f].order] = f
    <3>1. CASE form'[f] # form[f]
      BY <1>2, <1>3, <3>1
    <3>2. CASE form'[f] = form[f]
      <4>1. /\ ~form[f].again
            /\ form[f].pc = "look" => gate[form[f].order] = NoKey
            /\ form[f].pc \in {"send", "wait", "ok"} => gate[form[f].order] = f /\ f # NoKey
        BY <1>0, <1>3, CardAssumption DEF FirstOfOrder
      <4>2. CASE UNCHANGED gate
        BY <3>2, <4>1, <4>2
      <4>3. ASSUME NEW g \in Forms, Goes(g, "insert", "send"), gate[form[g].order] = NoKey,
                   form[g].order \in Orders, gate' = [gate EXCEPT ![form[g].order] = g]
            PROVE  /\ form[f].pc = "look" => gate'[form[f].order] = NoKey
                   /\ form[f].pc \in {"send", "wait", "ok"} => gate'[form[f].order] = f
        <5>1. form[f].pc = "look" => form[g].order # form[f].order
          BY <1>0, <4>3 DEF OneAtWork, Goes, Working, WorkPcs
        <5> QED
          BY <1>0, <1>1, <1>3, <4>1, <4>3, <5>1 DEF Typed, KeyTypes
      <4> QED
        BY <3>2, <4>1, <4>2, <4>3, GateMoves
    <3> QED
      BY <3>1, <3>2
  <2> QED
    BY <1>1, <1>3, <2>1, <2>2, <2>3
<1>4. ASSUME NEW f \in Forms, form[f] = FormNew, form'[f] # FormNew
      PROVE  /\ ~form'[f].again
             /\ order'[form'[f].order] \in {"pending", "complete"}
             /\ form'[f].pc \in Working => page'[carOf'[form'[f].order]] = form'[f].order
             /\ form'[f].pc = "look" => gate'[form'[f].order] = NoKey
             /\ form'[f].pc \in {"send", "wait", "ok"} => gate'[form'[f].order] = f
  <2>1. \E c \in Cars, x \in Cards : Submit(f, c, x)
    <3>1. CASE \E g \in Forms : Process(g)
      BY <1>0, <1>4, <3>1, ProcessSteps
    <3>2. CASE \E h \in Loops : Handle(h)
      BY <1>0, <1>4, <3>2, HandleSteps
    <3>3. CASE \E h \in Loops, m \in wire : TakeWebhook(h, m)
      BY <1>0, <1>4, <3>3, TakeSteps
    <3>4. ASSUME NEW g \in Forms, NEW c \in Cars, NEW x \in Cards, Submit(g, c, x), g # f
          PROVE  FALSE
      <4>1. \A k \in Forms \ {g} : form'[k] = form[k]
        BY <1>0, <3>4, SubmitSteps
      <4> QED
        BY <1>4, <3>4, <4>1
    <3>5. ~Crash
      BY <1>0 DEF InTurn, Crash
    <3> QED
      BY <1>4, <3>1, <3>2, <3>3, <3>4, <3>5, RequestSteps DEF Next
  <2>2. PICK c \in Cars, x \in Cards : Submit(f, c, x)
    BY <2>1
  <2>3. /\ page[c] \in Orders /\ UNCHANGED <<order, carOf, page, gate>>
        /\ "double" \in faults \/ ~AtWork(page[c])
        /\ form'[f].pc = "look" /\ form'[f].order = page[c] /\ form'[f].again = FALSE
    BY <1>0, <2>2, SubmitSteps
  <2>4. ~AtWork(page[c]) /\ page[c] # NoOrder /\ carOf[page[c]] = c
    BY <1>0, <2>3 DEF Clean, OrderNames, Orders, NoOrder
  <2>5. gate[page[c]] = NoKey
    <3>1. ASSUME gate[page[c]] # NoKey
          PROVE  FALSE
      <4>1. Names(gate[page[c]], page[c]) /\ form[gate[page[c]]].pc \in {"send", "wait", "ok"}
        BY <1>0, <2>3, <2>4, <3>1 DEF KeyNames, PageFresh
      <4> QED
        BY <2>4, <4>1 DEF Names, AtWork, FormsOf, WorkPcs
    <3> QED
      BY <3>1
  <2>6. order[page[c]] \in {"pending", "complete"}
    BY <1>0, <2>4 DEF PageFresh
  <2> QED
    BY <2>3, <2>4, <2>5, <2>6
<1> QED
  BY <1>3, <1>4 DEF FirstOfOrder

LEMMA NextFresh ==
  ASSUME Known, Sound, [Next]_vars
  PROVE  PageFresh'
<1>0. /\ Typed /\ Numbered /\ InTurn /\ FirstOfOrder /\ OrderNames /\ KeyNames /\ PageFresh /\ Drawn
      /\ \A o \in Orders : o # NoOrder /\ o \in Nat
      /\ gate \in [Orders -> Forms \cup {NoKey}]
  BY SoundKnows, CardAssumption DEF Orders, NoOrder, Turn, Typed, KeyTypes
<1>1. ASSUME NEW c \in Cars, req[c].pc = "url", NEW o, o = req[c].order
      PROVE  order'[o] \in {"pending", "complete"} /\ gate'[o] = NoKey
  <2>1. o \in Orders /\ carOf[o] = c /\ page[c] = NoOrder
        /\ order[o] \in {"pending", "complete"} /\ gate[o] = NoKey
    BY <1>0, <1>1 DEF OrderNames, PageFresh, Drawn, ReqIdle
  <2>2. ASSUME NEW f \in Forms, form[f] # FormNew, Goes(f, "insert", "send")
        PROVE  form[f].order # o
    BY <1>0, <2>1, <2>2 DEF FirstOfOrder, Goes, Working, WorkPcs
  <2>3. gate'[o] = NoKey
    BY <1>0, <2>1, <2>2, GateMoves
  <2> QED
    BY <2>1, <2>3, OrderMoves
<1>2. ASSUME NEW c \in Cars, page[c] # NoOrder, page'[c] = page[c], NEW o, o = page[c], gate'[o] # NoKey
      PROVE  form'[gate'[o]].pc \in {"send", "wait", "ok"}
  <2>1. o \in Orders /\ carOf[o] = c
    BY <1>0, <1>2 DEF OrderNames, Typed, OrderTypes
  <2>2. CASE gate'[o] = gate[o]
    <3>1. PICK g \in Forms : g = gate[o] /\ form[g].order = o /\ form[g].pc \in {"send", "wait", "ok"}
      BY <1>0, <1>2, <2>1, <2>2 DEF KeyNames, Names, PageFresh
    <3>2. ASSUME page' = [page EXCEPT ![carOf[o]] = NoOrder]
          PROVE  FALSE
      BY <1>0, <1>2, <2>1, <3>2 DEF Typed, OrderTypes
    <3> QED
      BY <2>2, <3>1, <3>2, KeyMoves DEF Goes
  <2>3. CASE gate'[o] # gate[o]
    BY <1>0, <2>1, <2>3, GateMoves DEF Goes
  <2> QED
    BY <2>2, <2>3
<1>3. ASSUME NEW c \in Cars, page'[c] # NoOrder
      PROVE  /\ order'[page'[c]] \in {"pending", "complete"}
             /\ gate'[page'[c]] # NoKey => form'[gate'[page'[c]]].pc \in {"send", "wait", "ok"}
  <2>1. CASE page'[c] = page[c]
    <3>1. page[c] \in Orders /\ order[page[c]] \in {"pending", "complete"}
      BY <1>0, <1>3, <2>1 DEF PageFresh, Typed, OrderTypes
    <3> QED
      BY <1>2, <1>3, <2>1, <3>1, OrderMoves
  <2>2. CASE req[c].pc = "url" /\ page'[c] = req[c].order
    BY <1>1, <2>2
  <2> QED
    BY <1>0, <1>3, <2>1, <2>2, CarSteps
<1>4. ASSUME NEW c \in Cars, req'[c].pc = "url"
      PROVE  order'[req'[c].order] \in {"pending", "complete"} /\ gate'[req'[c].order] = NoKey
  <2>1. CASE req'[c] = req[c]
    BY <1>1, <1>4, <2>1
  <2>2. CASE SaveOrder(c) /\ req'[c].order = drawn'
    <3>1. drawn' = drawn + 1 /\ drawn \in Nat /\ drawn < MaxOrders /\ UNCHANGED gate
          /\ (order' = [order EXCEPT ![drawn'] = "pending"] \/ req' = [req EXCEPT ![c] = ReqIdle])
      BY <1>0, <2>2, CardAssumption DEF SaveOrder, gateVars, Typed, OrderTypes
    <3>2. drawn' \in Orders
      BY <3>1, CardAssumption DEF Orders
    <3>3. order'[drawn'] = "pending"
      BY <1>0, <1>4, <3>1, <3>2 DEF Typed, OrderTypes, ReqIdle
    <3>4. gate[drawn'] = NoKey
      <4>1. ASSUME gate[drawn'] # NoKey
            PROVE  FALSE
        <5>1. form[gate[drawn']].order = drawn' /\ gate[drawn'] \in Forms
          BY <1>0, <3>2, <4>1 DEF KeyNames, Names
        <5> QED
          BY <1>0, <3>1, <5>1 DEF Numbered
      <4> QED
        BY <4>1
    <3> QED
      BY <2>2, <3>1, <3>3, <3>4
  <2> QED
    BY <1>0, <1>4, <2>1, <2>2, CarSteps DEF ReqIdle
<1> QED
  BY <1>3, <1>4 DEF PageFresh

LEMMA NextTold ==
  ASSUME Known, Sound, [Next]_vars
  PROVE  KeyTold'
<1>0. /\ Typed /\ KeyNames /\ KeyTold /\ gate \in [Orders -> Forms \cup {NoKey}]
  BY SoundKnows DEF Typed, KeyTypes
<1>1. stored \subseteq stored'
  BY <1>0, HandleSteps DEF Stores, Next, vars, cardVars, backVars, RequestOrder, UpdatePlate, SaveOrder, AskUrl,
     ConfirmVehicle, Expire, Submit, TakeWebhook, Process, LookUpKey, Tokenise, SaveKey, InsertKey,
     SendWebhook, StopWaiting, PageHears, Crash
<1>2. ASSUME NEW o \in Orders, gate'[o] # NoKey
      PROVE  /\ form'[gate'[o]].pc \in {"send", "wait", "ok", "over"}
             /\ form'[gate'[o]].pc \in {"ok", "over"} => o \in stored'
  <2>1. CASE gate'[o] = gate[o]
    <3>1. PICK g \in Forms : /\ g = gate[o] /\ form[g].order = o
                             /\ form[g].pc \in {"send", "wait", "ok", "over"}
                             /\ form[g].pc \in {"ok", "over"} => o \in stored
      BY <1>0, <1>2, <2>1 DEF KeyNames, Names, KeyTold
    <3> QED
      BY <1>1, <2>1, <3>1, KeyMoves DEF Goes
  <2>2. CASE gate'[o] # gate[o]
    BY <1>0, <2>2, GateMoves DEF Goes
  <2> QED
    BY <2>1, <2>2
<1> QED
  BY <1>2 DEF KeyTold

\* The car of an order that some key was stored for, and that is the last, has its key.
LEMMA LastHasKey ==
  ASSUME Known, Sound, NEW o \in stored, Latest(o), NEW c \in Cars, carOf[o] = c
  PROVE  billing[c] # NoKey /\ billing[c] = gate[o]
<1>0. /\ Typed /\ KeyNames /\ LastBilled /\ BilledKeys
      /\ o \in Orders /\ \A p \in Orders : p \in Nat
  BY SoundKnows, CardAssumption DEF Typed, KeyTypes, Orders
<1>1. billing[c] # NoKey /\ o <= form[billing[c]].order
  BY <1>0 DEF LastBilled
<1>2. /\ billing[c] \in Forms /\ form[billing[c]] # FormNew /\ carOf[form[billing[c]].order] = c
      /\ gate[form[billing[c]].order] = billing[c]
  BY <1>0, <1>1 DEF BilledKeys, Keeps, Typed, KeyTypes
<1>3. form[billing[c]].order \in Orders
  BY <1>0, <1>2, FormFields
<1>4. form[billing[c]].order = o
  BY <1>0, <1>1, <1>2, <1>3 DEF Latest
<1> QED
  BY <1>1, <1>2, <1>4

LEMMA NextShown ==
  ASSUME Known, Sound, [Next]_vars
  PROVE  Shown'
<1>0. /\ Typed /\ Numbered /\ OrderNames /\ KeyNames /\ WireKeys /\ BilledKeys /\ Turn /\ LastAtWork
      /\ KeyTold /\ Shown /\ InTurn
  BY SoundKnows DEF Turn
<1>1. \A c \in Cars : billing[c] # NoKey =>
        /\ billing[c] \in Forms /\ form[billing[c]] # FormNew /\ carOf[form[billing[c]].order] = c
        /\ gate[form[billing[c]].order] = billing[c] /\ form[billing[c]].order \in Orders
  BY <1>0, FormFields DEF BilledKeys, Keeps, Typed, KeyTypes
\* The page that hears of a success is that of the key the car has.
<1>2. ASSUME NEW g \in Forms, Process(g), Goes(g, "ok", "over"), NEW o, o = form[g].order,
             NEW c \in Cars, carOf[o] = c
      PROVE  billing[c] = g
  <2>1. form[g] # FormNew /\ o \in Orders
    BY <1>0, <1>2, ProcessSteps
  <2>2. gate[o] = g /\ g # NoKey
    BY <1>2, <2>1, SoundKnows, CardAssumption DEF FirstOfOrder, Goes
  <2>3. o \in stored
    BY <1>0, <1>2, <2>1, <2>2 DEF KeyTold, Goes
  <2>4. Latest(o)
    <3>1. AtWork(o)
      BY <1>2 DEF AtWork, FormsOf, Goes
    <3> QED
      BY <1>0, <2>1, <3>1 DEF LastAtWork, Settled
  <2> QED
    BY <1>2, <2>2, <2>3, <2>4, LastHasKey
\* A key that is stored is that of a submission at work, or the one the car has.
<1>3. ASSUME NEW h \in Loops, Handle(h), Stores(h), NEW c \in Cars, carOf[Order(h)] = c,
             NEW k, k = loop[h].key
      PROVE  /\ k \in Forms /\ k # NoKey
             /\ form[k].pc \in {"send", "wait", "ok"} \/ k = billing[c]
  <2> DEFINE o == Order(h)
  <2>1. loop[h] # LoopIdle /\ loop[h].pc # "order" /\ o \in Orders /\ k \in Forms
    BY <1>0, <1>3, HandleSteps DEF Stores, Passes
  <2>2. k # NoKey /\ gate[o] = k
    BY <1>0, <1>3, <2>1 DEF WireKeys, Keeps, Order, OrderOf
  <2>3. CASE o \in stored
    BY <1>0, <1>3, <2>1, <2>2, <2>3, PastFirstLook, LastHasKey
  <2>4. CASE o \notin stored
    BY <1>0, <2>1, <2>2, <2>4 DEF KeyTold
  <2> QED
    BY <2>1, <2>2, <2>3, <2>4
<1>4. ASSUME NEW c \in Cars, app'[c] # NoCard
      PROVE  /\ billing'[c] # NoKey
             /\ form'[billing'[c]].card = app'[c] \/ form'[billing'[c]].pc \in {"send", "wait", "ok"}
  <2>1. CASE \E h \in Loops : Handle(h)
    <3>1. PICK h \in Loops : Handle(h)
      BY <2>1
    <3>2. app'[c] = app[c] /\ billing[c] # NoKey
      BY <1>0, <1>4, <3>1, HandleSteps DEF Shown
    <3>3. ASSUME NEW k \in Forms
          PROVE  /\ form'[k].card = form[k].card
                 /\ form[k].pc \in {"send", "wait", "ok"} => form'[k].pc \in {"send", "wait", "ok"}
      BY <1>0, <3>1, HandleSteps, SoundHandle DEF Goes
    <3>4. form[billing[c]].card = app[c] \/ form[billing[c]].pc \in {"send", "wait", "ok"}
      BY <1>0, <1>4, <3>2 DEF Shown
    <3>5. CASE billing'[c] = billing[c]
      BY <1>1, <3>2, <3>3, <3>4, <3>5
    <3>6. CASE billing'[c] # billing[c]
      <4>1. Stores(h) /\ carOf[Order(h)] = c /\ billing'[c] = loop[h].key
        BY <1>0, <3>1, <3>6, HandleSteps DEF Stores, Typed, KeyTypes
      <4> QED
        BY <1>3, <3>1, <3>3, <3>6, <4>1
    <3> QED
      BY <3>5, <3>6
  <2>2. CASE \E g \in Forms : Process(g)
    <3>1. PICK g \in Forms : Process(g)
      BY <2>2
    <3>2. UNCHANGED billing /\ \A k \in Forms : form'[k].card = form[k].card
      BY <1>0, <3>1, ProcessSteps
    <3>3. \/ UNCHANGED app
          \/ /\ Goes(g, "ok", "over") /\ app' = [app EXCEPT ![carOf[form[g].order]] = form[g].card]
      BY <3>1, SoundProcess
    <3>4. CASE app'[c] = app[c]
      <4>1. billing[c] # NoKey
            /\ (form[billing[c]].card = app[c] \/ form[billing[c]].pc \in {"send", "wait", "ok"})
        BY <1>0, <1>4, <3>4 DEF Shown
      <4>2. PICK k \in Forms : k = billing[c]
        BY <1>1, <4>1
      <4>3. CASE form[k].card = app[c]
        BY <3>2, <3>4, <4>1, <4>2, <4>3
      <4>4. CASE form[k].pc \in {"send", "wait", "ok"} /\ form'[k].pc \in {"send", "wait", "ok"}
        BY <3>2, <4>1, <4>2, <4>4
      <4>5. CASE form[k].pc \in {"send", "wait", "ok"} /\ form'[k].pc \notin {"send", "wait", "ok"}
        <5>1. app' = [app EXCEPT ![carOf[form[k].order]] = form[k].card]
          BY <4>5, KeyMoves DEF Goes
        <5>2. carOf[form[k].order] = c
          BY <1>1, <4>1, <4>2
        <5>3. app'[c] = form[k].card
          BY <1>0, <5>1, <5>2 DEF Typed, KeyTypes
        <5> QED
          BY <3>2, <4>1, <4>2, <5>3
      <4> QED
        BY <4>1, <4>2, <4>3, <4>4, <4>5
    <3>5. CASE app'[c] # app[c]
      <4>1. Goes(g, "ok", "over") /\ carOf[form[g].order] = c /\ app'[c] = form[g].card
        BY <1>0, <3>3, <3>5 DEF Typed, KeyTypes
      <4>2. billing[c] = g /\ g # NoKey
        BY <1>2, <3>1, <4>1, CardAssumption
      <4> QED
        BY <3>2, <4>1, <4>2
    <3> QED
      BY <3>4, <3>5
  <2>3. CASE /\ UNCHANGED <<billing, app>>
             /\ \A k \in Forms : form[k] # FormNew => form'[k] = form[k]
    BY <1>0, <1>1, <1>4, <2>3 DEF Shown
  <2>4. ASSUME NEW f \in Forms, NEW d \in Cars, NEW x \in Cards, Submit(f, d, x)
        PROVE  /\ UNCHANGED <<billing, app>>
               /\ \A k \in Forms : form[k] # FormNew => form'[k] = form[k]
    <3>1. form[f] = FormNew /\ UNCHANGED <<billing, app>> /\ \A k \in Forms \ {f} : form'[k] = form[k]
      BY <1>0, <2>4, SubmitSteps
    <3> QED
      BY <3>1
  <2>5. CASE \E h \in Loops, m \in wire : TakeWebhook(h, m)
    BY <1>0, <2>3, <2>5, TakeSteps
  <2>6. ~Crash
    BY <1>0 DEF InTurn, Crash
  <2> QED
    BY <2>1, <2>2, <2>3, <2>4, <2>5, <2>6, RequestSteps DEF Next
<1> QED
  BY <1>4 DEF Shown

LEMMA InitFollows == Init => Follows
BY DEF Init, Follows, FirstOfOrder, PageFresh, KeyTold, Shown, ReqIdle

LEMMA NextFollows == Known /\ [Next]_vars => Follows'
<1> SUFFICES ASSUME Known, [Next]_vars, Sound' PROVE FirstOfOrder' /\ PageFresh' /\ KeyTold' /\ Shown'
  BY DEF Follows
<1>1. Sound
  BY FaultsStay DEF Sound
<1> QED
  BY <1>1, NextFirst, NextFresh, NextTold, NextShown

LEMMA FollowsGivesCharged == Typed /\ Named /\ Follows => AppCardIsCharged
<1> SUFFICES ASSUME Typed, Named, Follows, Sound, NEW c \in Cars, app[c] # NoCard,
                    \A o \in Orders : carOf[o] = c => ~AtWork(o)
             PROVE  billing[c] # NoKey /\ form[billing[c]].card = app[c]
  BY DEF AppCardIsCharged, Sound
<1>1. /\ billing[c] # NoKey
      /\ form[billing[c]].card = app[c] \/ form[billing[c]].pc \in {"send", "wait", "ok"}
  BY DEF Follows, Shown
<1>2. PICK k \in Forms : k = billing[c] /\ form[k] # FormNew /\ carOf[form[k].order] = c
  BY <1>1 DEF Named, KeyNames, Typed, KeyTypes
<1>3. form[k].order \in Orders
  BY <1>2, FormFields
<1>4. form[k].pc \notin {"send", "wait", "ok"}
  BY <1>2, <1>3 DEF AtWork, FormsOf, WorkPcs
<1> QED
  BY <1>1, <1>2, <1>4

\* At rest, the card the app shows is the one that is charged, for any number of orders,
\* submissions and event loops, if no webhook is lost or late, no order expires, nothing
\* dies, and the page hears the gateway: also when the card company fails, a webhook
\* comes again, or the gateway makes up tokens (CompleteCardRegistrationService,
\* HandleCardWebhookService, the page of the gateway).
THEOREM ShownCardIsCharged == Spec => []AppCardIsCharged
<1>1. Spec => []Follows
  BY InitFollows, NextFollows, OrderedHolds, NamedHolds, KeysHold, CourseHolds, TypedHolds, PTL DEF Spec, Known
<1> QED
  BY <1>1, FollowsGivesCharged, NamedHolds, TypedHolds, PTL
=============================================================================
