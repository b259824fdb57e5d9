-------------------------- MODULE PmsParkingProofs --------------------------
(***************************************************************************)
(* For any lots, plates, visits, payments, handlers and faults.  In        *)
(* stages, each from the ones before: the types, with the rows that        *)
(* records and handlers are about; what holds whatever goes wrong (a       *)
(* recorded payment is carried out); Calm, what holds when requests come   *)
(* one at a time, from which the board is shown to be true and the PMS to  *)
(* implement ParkingLifecycle; and Clear, what holds when all that fails   *)
(* is a webhook, from which the barrier opens only for a paid visit.       *)
(***************************************************************************)
EXTENDS PmsParking, TLAPS

-----------------------------------------------------------------------------
(* Types, with the rows that handlers and records are about.               *)

LatePcs == {"entry_board", "entry_reg", "entry_consume", "entry_webhook"}
OutPcs  == {"exit_open", "exit_open_db", "exit_delete", "exit_mark"}

HasRow(v, s) == v \in Visits /\ status[v] # "none" /\ place[v] = s /\ s \in Spots

HandlerOK(h) ==
  /\ pc[h] \in EntryPcs \cup ExitPcs => spot[h] \in Spots
  /\ pc[h] \in LatePcs \cup OutPcs => HasRow(visit[h], spot[h])
  /\ pc[h] \in PayPcs => visit[h] \in told /\ payment[h] \in Payments
  /\ pc[h] \in {"pay_mark", "pay_read", "pay_write", "pay_open"} =>
       <<visit[h], payment[h]>> \in recorded
  /\ pc[h] \in {"pay_read", "pay_write", "pay_open"} => HasRow(visit[h], spot[h])
  /\ pc[h] = "pay_write" => HasRow(copy[h], spot[h])

Shown(s) == board[s].status \in {"active", "paid"} /\ HasRow(board[s].visit, s)

Typed ==
  /\ TypeOK
  /\ \A v \in Visits : status[v] # "none" => place[v] \in Spots
  /\ \A v \in told : status[v] # "none"
  /\ \A s \in Spots : board[s] # NoRecord => Shown(s)
  /\ \A h \in Handlers : HandlerOK(h)

-----------------------------------------------------------------------------
(* What holds whatever goes wrong.                                         *)

Settled(v) == status[v] \in {"paid", "exited"}

\* A visit is paid only if the back end knows it, which it does not before its entry
\* is done; and no two entries are about one visit.
Entries ==
  /\ \A v \in Visits : status[v] = "paid" => v \in told
  /\ \A g \in Handlers : pc[g] \in LatePcs => visit[g] \notin told
  /\ \A g, h \in Handlers : g # h /\ pc[g] \in LatePcs /\ pc[h] \in LatePcs => visit[g] # visit[h]

\* A payment that is recorded is carried out, or somebody is about to.
RecordedIsPaid ==
  Unbroken => \A k \in recorded : Settled(k[1]) \/ Handling(k[1], {"pay_mark"})

\* A record that is behind is being rewritten.
Rewriting(v) ==
  \E h \in Handlers : visit[h] = v /\ (pc[h] = "pay_read" \/ (pc[h] = "pay_write" /\ copy[h] = v))
BoardCatchesUp ==
  Unbroken => \A s \in Spots :
    (board[s].status = "active" /\ status[board[s].visit] = "paid") => Rewriting(board[s].visit)

-----------------------------------------------------------------------------
(* What holds in orderly behaviours.                                       *)

PlateAt(v) == PlateOf(place[v])
HasOpen(v) == v \in Visits /\ status[v] \in {"active", "paid"}
\* An open visit the exit may meet: the back end knows it.
Known(v)   == v \in Visits /\ (status[v] = "paid" \/ (status[v] = "active" /\ v \in told))

\* The record of a spot is that of a visit.
Own(s, v) == board[s] = NoRecord \/ board[s].visit = v

\* A plate's car is at one place.
OnePlace ==
  \A s, t \in Spots : PlateOf(s) = PlateOf(t) /\ car[s] # "away" /\ car[t] # "away" => s = t

\* A plate has one open visit; while the back end knows it, its car is in, and no other
\* visit's record is on the board.
OneOpen   == \A u, v \in Visits : HasOpen(u) /\ HasOpen(v) /\ PlateAt(u) = PlateAt(v) => u = v
CarIsIn   == \A v \in Visits : Known(v) => car[place[v]] \notin {"away", "opened"}
OwnRecord == \A v \in Visits : Known(v) => Own(place[v], v)

\* Nothing is settled that was not paid for, on the board neither.
PaidRecorded == \A v \in Visits : Settled(v) => \E p \in Payments : <<v, p>> \in recorded
PaidBoard    == \A s \in Spots : board[s].status = "paid" => Settled(board[s].visit)

State == OnePlace /\ OneOpen /\ CarIsIn /\ OwnRecord /\ PaidRecorded /\ PaidBoard

\* A car waits for the handler that reads it.
ReadRule(g) == pc[g] \in EntryPcs \cup ExitPcs => car[spot[g]] = g

\* A car that enters has no visit the back end knows, until the one it is given.
EntryRule(g) ==
  /\ pc[g] \in {"entry_look", "entry_create"} =>
       \A v \in Visits : Known(v) => PlateAt(v) # PlateOf(spot[g])
  /\ pc[g] \in LatePcs => status[visit[g]] = "active"
  /\ pc[g] \in LatePcs \ {"entry_board"} => Own(spot[g], visit[g])

\* The exit is of the visit that is known.
ExitRule(g) ==
  pc[g] \in OutPcs =>
    /\ Settled(visit[g])
    /\ \A v \in Visits : Known(v) /\ place[v] = spot[g] => v = visit[g]

\* A payment that changes anything is that of the open visit, or of one that has left.
MarkPcs == {"pay_save", "pay_mark", "pay_read", "pay_write"}
PayRule(h) ==
  /\ pc[h] \in {"pay_look", "pay_save"} =>
       \A q \in Payments : <<visit[h], q>> \in recorded => q = payment[h] /\ pc[h] = "pay_look"
  /\ pc[h] \in {"pay_save", "pay_mark"} => status[visit[h]] = "active"
  /\ pc[h] \in {"pay_read", "pay_write"} => Settled(visit[h])
  /\ pc[h] \in MarkPcs =>
       \A v \in Visits : HasOpen(v) /\ PlateAt(v) = PlateAt(visit[h]) => v = visit[h]
  /\ pc[h] \in MarkPcs \ {"pay_write"} => Own(place[visit[h]], visit[h])
  /\ pc[h] = "pay_write" => copy[h] = visit[h]

Rules(g) == ReadRule(g) /\ EntryRule(g) /\ ExitRule(g) /\ PayRule(g)

\* It is the only one of its visit and of its plate, and nobody enters meanwhile.
Apart(g, h) ==
  /\ pc[g] \in PayPcs /\ pc[h] \in PayPcs /\ visit[g] = visit[h] => g = h
  /\ pc[g] \in EntryPcs /\ pc[h] \in MarkPcs => PlateOf(spot[g]) # PlateAt(visit[h])
  /\ pc[g] \in MarkPcs /\ pc[h] \in MarkPcs /\ PlateAt(visit[g]) = PlateAt(visit[h]) => g = h

Calm ==
  /\ State
  /\ \A g \in Handlers : Rules(g)
  /\ \A g, h \in Handlers : Apart(g, h)
OrderlyCalm == Orderly => Calm

-----------------------------------------------------------------------------
(* What a step of a handler leaves alone.                                  *)

Others(h) ==
  \A g \in Handlers : g # h =>
    /\ pc'[g] = pc[g] /\ spot'[g] = spot[g] /\ visit'[g] = visit[g]
    /\ payment'[g] = payment[g] /\ copy'[g] = copy[g]

LocalTypes ==
  /\ pc \in [Handlers -> {"idle"} \cup EntryPcs \cup PayPcs \cup ExitPcs]
  /\ spot \in [Handlers -> Spots \cup {NoSpot}]
  /\ visit \in [Handlers -> Visits \cup {NoVisit}]
  /\ payment \in [Handlers -> Payments \cup {NoPayment}]
  /\ copy \in [Handlers -> Visits \cup {NoVisit}]

LEMMA TypedLocal == Typed => LocalTypes
BY DEF Typed, TypeOK, LocalTypes

LEMMA GotoIs ==
  ASSUME LocalTypes, NEW h \in Handlers, NEW from, NEW to, Goto(h, from, to),
         to \in {"idle"} \cup EntryPcs \cup PayPcs \cup ExitPcs
  PROVE  /\ Others(h) /\ LocalTypes' /\ pc[h] = from /\ pc'[h] = to
         /\ spot'[h] = spot[h] /\ visit'[h] = visit[h] /\ payment'[h] = payment[h] /\ copy'[h] = copy[h]
BY DEF LocalTypes, Goto, Others

LEMMA LeaveIs ==
  ASSUME LocalTypes, NEW h \in Handlers, Leave(h)
  PROVE  Others(h) /\ LocalTypes' /\ pc'[h] = "idle"
BY DEF LocalTypes, Leave, Others

LEMMA BeginIs ==
  ASSUME LocalTypes, NEW h \in Handlers, NEW to \in EntryPcs \cup PayPcs \cup ExitPcs,
         NEW s \in Spots \cup {NoSpot}, NEW v \in Visits \cup {NoVisit}, NEW p \in Payments \cup {NoPayment},
         Begin(h, to, s, v, p)
  PROVE  /\ Others(h) /\ LocalTypes' /\ pc[h] = "idle" /\ pc'[h] = to
         /\ spot'[h] = s /\ visit'[h] = v /\ payment'[h] = p
BY DEF LocalTypes, Begin, Others

\* The shared state.
SharedTypes ==
  /\ faults \in Scenarios
  /\ status \in [Visits -> {"none", "active", "paid", "exited"}]
  /\ place \in [Visits -> Spots \cup {NoSpot}]
  /\ board \in [Spots -> Record]
  /\ preReg \subseteq Spots
  /\ recorded \subseteq Keys
  /\ told \subseteq Visits
  /\ acked \subseteq Keys
  /\ car \in [Spots -> {"away", "opened"} \cup Handlers]
  /\ gate \subseteq Visits

LEMMA TypedParts == TypeOK <=> SharedTypes /\ LocalTypes
BY DEF TypeOK, SharedTypes, LocalTypes

\* Rows, and what is known of them, stay.
Kept ==
  /\ \A v \in Visits : status[v] # "none" => status'[v] # "none" /\ place'[v] = place[v]
  /\ told \subseteq told' /\ recorded \subseteq recorded'

LEMMA HandlerStays ==
  ASSUME Kept, NEW g \in Handlers, HandlerOK(g),
         pc'[g] = pc[g], spot'[g] = spot[g], visit'[g] = visit[g], payment'[g] = payment[g], copy'[g] = copy[g]
  PROVE  HandlerOK(g)'
BY DEF Kept, HandlerOK, HasRow

LEMMA TypedStep ==
  ASSUME Typed, SharedTypes', LocalTypes', Kept, NEW h \in Handlers, Others(h), HandlerOK(h)',
         \A v \in Visits : status'[v] # "none" => place'[v] \in Spots,
         \A v \in told' : v \in told \/ status'[v] # "none",
         \A s \in Spots : board'[s] = board[s] \/ board'[s] = NoRecord \/ Shown(s)'
  PROVE  Typed'
<1>1. TypeOK'
  BY DEF TypeOK, SharedTypes, LocalTypes
<1>2. \A g \in Handlers : HandlerOK(g)'
  BY HandlerStays DEF Typed, Others
<1>3. \A s \in Spots : board'[s] # NoRecord => Shown(s)'
  BY DEF Typed, Kept, Shown, HasRow
<1>4. \A v \in told' : status'[v] # "none"
  BY DEF Typed, Kept, TypeOK
<1> QED
  BY <1>1, <1>2, <1>3, <1>4 DEF Typed

\* A step that leaves the tables, the board and what is known alone.
LEMMA TypedLocalStep ==
  ASSUME Typed, SharedTypes', LocalTypes', NEW h \in Handlers, Others(h), HandlerOK(h)',
         UNCHANGED <<status, place, told, recorded>>,
         \A s \in Spots : board'[s] = board[s] \/ board'[s] = NoRecord
  PROVE  Typed'
BY TypedStep DEF Kept, Typed

LEMMA IdleOK == ASSUME NEW h \in Handlers, pc'[h] = "idle" PROVE HandlerOK(h)'
BY DEF HandlerOK, EntryPcs, ExitPcs, LatePcs, OutPcs, PayPcs

-----------------------------------------------------------------------------
(* Types.                                                                  *)

LEMMA InitTyped == Init => Typed
<1> SUFFICES ASSUME Init PROVE Typed
  OBVIOUS
<1>1. TypeOK
  BY DEF Init, TypeOK, Record, NoRecord
<1>2. \A h \in Handlers : HandlerOK(h)
  BY DEF Init, HandlerOK, EntryPcs, ExitPcs, LatePcs, OutPcs, PayPcs
<1> QED
  BY <1>1, <1>2 DEF Init, Typed

LEMMA SiteTyped ==
  ASSUME Typed, UNCHANGED faults,
         \/ \E s \in Spots : PreRegister(s) \/ LoseKey(s) \/ DriveOut(s)
         \/ GateShuts
  PROVE  Typed'
<1> USE DEF dbVars, redisVars, histVars, siteVars
<1>1. UNCHANGED <<status, place, told, recorded, acked, pc, spot, visit, payment, copy>>
  BY DEF PreRegister, LoseKey, DriveOut, GateShuts
<1>2. SharedTypes'
  <2>1. preReg' \subseteq Spots /\ gate' \subseteq Visits
    BY DEF PreRegister, LoseKey, DriveOut, GateShuts, Typed, TypeOK
  <2>2. board' \in [Spots -> Record]
    BY DEF PreRegister, LoseKey, DriveOut, GateShuts, Typed, TypeOK, Record, NoRecord
  <2>3. car' \in [Spots -> {"away", "opened"} \cup Handlers]
    BY DEF PreRegister, LoseKey, DriveOut, GateShuts, Typed, TypeOK
  <2> QED
    BY <1>1, <2>1, <2>2, <2>3 DEF SharedTypes, Typed, TypeOK
<1>3. \A s \in Spots : board'[s] = board[s] \/ board'[s] = NoRecord
  BY DEF PreRegister, LoseKey, DriveOut, GateShuts, Typed, TypeOK
<1>4. TypeOK' /\ \A h \in Handlers : HandlerOK(h)'
  BY <1>1, <1>2 DEF TypeOK, SharedTypes, Typed, HandlerOK, HasRow
<1>5. \A s \in Spots : board'[s] # NoRecord => Shown(s)'
  BY <1>1, <1>3 DEF Typed, Shown, HasRow
<1> QED
  BY <1>1, <1>4, <1>5 DEF Typed

LEMMA EntryTyped ==
  ASSUME Typed, UNCHANGED faults, NEW h \in Handlers,
         \/ \E s \in Spots : EntryBegin(h, s)
         \/ EntryLook(h) \/ EntryCreate(h) \/ EntryBoard(h)
         \/ EntryReg(h) \/ EntryConsume(h) \/ EntryWebhook(h)
  PROVE  Typed'
<1> USE DEF dbVars, redisVars, histVars, siteVars
<1>0. LocalTypes /\ HandlerOK(h) /\ SharedTypes
  BY TypedLocal, TypedParts DEF Typed
<1>1. ASSUME NEW s \in Spots, EntryBegin(h, s)
      PROVE  Typed'
  <2>1. /\ UNCHANGED <<status, place, told, recorded, acked, board, preReg, gate>>
        /\ Others(h) /\ LocalTypes' /\ pc'[h] = "entry_look" /\ spot'[h] = s
    BY <1>0, <1>1, BeginIs DEF EntryBegin, EntryPcs
  <2>2. SharedTypes'
    BY <1>0, <1>1, <2>1 DEF EntryBegin, SharedTypes
  <2>3. HandlerOK(h)'
    BY <2>1 DEF HandlerOK, EntryPcs, LatePcs, OutPcs, PayPcs, ExitPcs
  <2> QED
    BY <2>1, <2>2, <2>3, TypedLocalStep
<1>2. CASE EntryLook(h) \/ EntryReg(h) \/ EntryConsume(h)
  <2>1. /\ UNCHANGED <<status, place, told, recorded, acked, board, gate, car>>
        /\ preReg' \subseteq Spots
    BY <1>2 DEF EntryLook, EntryReg, EntryConsume, Typed, TypeOK
  <2>2. SharedTypes'
    BY <1>0, <2>1 DEF SharedTypes
  <2>3. \/ Leave(h) /\ pc'[h] = "idle" /\ Others(h) /\ LocalTypes'
        \/ /\ pc[h] = "entry_look" /\ pc'[h] = "entry_create" /\ spot'[h] = spot[h] /\ Others(h) /\ LocalTypes'
        \/ /\ pc[h] \in {"entry_reg", "entry_consume"} /\ pc'[h] \in {"entry_consume", "entry_webhook"}
           /\ spot'[h] = spot[h] /\ visit'[h] = visit[h] /\ Others(h) /\ LocalTypes'
    <3>1. CASE EntryLook(h)
      BY <1>0, <3>1, LeaveIs, GotoIs DEF EntryLook, EntryPcs
    <3>2. CASE EntryReg(h)
      BY <1>0, <3>2, LeaveIs, GotoIs DEF EntryReg, EntryPcs
    <3>3. CASE EntryConsume(h)
      BY <1>0, <3>3, LeaveIs, GotoIs DEF EntryConsume, EntryPcs
    <3> QED
      BY <1>2, <3>1, <3>2, <3>3
  <2>4. HandlerOK(h)'
    BY <1>0, <2>1, <2>3 DEF HandlerOK, HasRow, EntryPcs, LatePcs, OutPcs, PayPcs, ExitPcs
  <2> QED
    BY <2>1, <2>2, <2>3, <2>4, TypedLocalStep
<1>3. CASE EntryCreate(h)
  <2>1. CASE Leave(h) /\ UNCHANGED <<status, place>>
    <3>1. UNCHANGED <<status, place, told, recorded, acked, board, preReg, gate, car>>
      BY <1>3, <2>1 DEF EntryCreate
    <3>2. SharedTypes' /\ Others(h) /\ LocalTypes' /\ HandlerOK(h)'
      BY <1>0, <2>1, <3>1, LeaveIs, IdleOK DEF SharedTypes
    <3> QED
      BY <3>1, <3>2, TypedLocalStep
  <2>2. ASSUME NEW v \in Visits, status[v] = "none", pc[h] = "entry_create",
               status' = [status EXCEPT ![v] = "active"],
               place' = [place EXCEPT ![v] = spot[h]],
               visit' = [visit EXCEPT ![h] = v],
               pc' = [pc EXCEPT ![h] = "entry_board"],
               UNCHANGED <<spot, payment, copy>>
        PROVE  Typed'
    <3>1. UNCHANGED <<told, recorded, acked, board, preReg, gate, car>>
      BY <1>3 DEF EntryCreate
    <3>2. spot[h] \in Spots
      BY <1>0, <2>2 DEF HandlerOK, EntryPcs
    <3>3. SharedTypes' /\ LocalTypes' /\ Others(h)
      BY <1>0, <2>2, <3>1, <3>2 DEF SharedTypes, LocalTypes, Others, EntryPcs
    <3>4. status'[v] = "active" /\ place'[v] = spot[h]
      BY <2>2 DEF Typed, TypeOK
    <3>5. HandlerOK(h)'
      BY <1>0, <2>2, <3>2, <3>4 DEF LocalTypes, HandlerOK, HasRow, EntryPcs, LatePcs, OutPcs, PayPcs, ExitPcs
    <3>6. Kept
      BY <2>2, <3>1 DEF Kept, Typed, TypeOK
    <3>7. \A u \in Visits : status'[u] # "none" => place'[u] \in Spots
      BY <2>2, <3>2 DEF Typed, TypeOK
    <3> QED
      BY <3>1, <3>3, <3>5, <3>6, <3>7, TypedStep
  <2> QED
    BY <1>3, <2>1, <2>2 DEF EntryCreate
<1>4. CASE EntryBoard(h)
  <2>1. /\ UNCHANGED <<status, place, told, recorded, acked, preReg, gate, car>>
        /\ Others(h) /\ LocalTypes' /\ pc[h] = "entry_board" /\ pc'[h] = "entry_reg"
        /\ spot'[h] = spot[h] /\ visit'[h] = visit[h]
        /\ board' = [board EXCEPT ![spot[h]] = [visit |-> visit[h], status |-> "active"]]
    BY <1>0, <1>4, GotoIs DEF EntryBoard, EntryPcs
  <2>2. HasRow(visit[h], spot[h])
    BY <1>0, <2>1 DEF HandlerOK, LatePcs
  <2>3. SharedTypes'
    BY <1>0, <2>1, <2>2 DEF SharedTypes, HasRow, Record
  <2>4. HandlerOK(h)'
    BY <2>1, <2>2 DEF HandlerOK, HasRow, EntryPcs, LatePcs, OutPcs, PayPcs, ExitPcs
  <2>5. Kept
    BY <2>1 DEF Kept
  <2>6. \A s \in Spots : board'[s] = board[s] \/ Shown(s)'
    BY <2>1, <2>2 DEF Typed, TypeOK, Shown, HasRow
  <2>7. \A v \in Visits : status'[v] # "none" => place'[v] \in Spots
    BY <2>1 DEF Typed
  <2> QED
    BY <2>1, <2>3, <2>4, <2>5, <2>6, <2>7, TypedStep
<1>5. CASE EntryWebhook(h)
  <2>1. /\ UNCHANGED <<status, place, recorded, acked, board, preReg, gate, car>>
        /\ Others(h) /\ LocalTypes' /\ pc[h] = "entry_webhook" /\ HandlerOK(h)'
        /\ told' \in {told, told \cup {visit[h]}}
    BY <1>0, <1>5, LeaveIs, IdleOK DEF EntryWebhook
  <2>2. HasRow(visit[h], spot[h])
    BY <1>0, <2>1 DEF HandlerOK, LatePcs
  <2>3. SharedTypes' /\ Kept
    BY <1>0, <2>1, <2>2 DEF SharedTypes, HasRow, Kept
  <2>4. \A v \in told' : v \in told \/ status'[v] # "none"
    BY <2>1, <2>2 DEF HasRow
  <2>5. \A v \in Visits : status'[v] # "none" => place'[v] \in Spots
    BY <2>1 DEF Typed
  <2> QED
    BY <2>1, <2>3, <2>4, <2>5, TypedStep
<1> QED
  BY <1>1, <1>2, <1>3, <1>4, <1>5

LEMMA PayTyped ==
  ASSUME Typed, UNCHANGED faults, NEW h \in Handlers,
         \/ \E v \in Visits, p \in Payments : PayBegin(h, v, p)
         \/ PayLook(h) \/ PaySave(h) \/ PayMark(h) \/ PayRead(h) \/ PayWrite(h) \/ PayOpen(h)
  PROVE  Typed'
<1> USE DEF dbVars, redisVars, histVars, siteVars
<1>0. LocalTypes /\ HandlerOK(h) /\ SharedTypes
  BY TypedLocal, TypedParts DEF Typed
<1>a. pc[h] \in PayPcs => <<visit[h], payment[h]>> \in Keys
  BY <1>0 DEF HandlerOK, SharedTypes, Keys
<1>1. ASSUME NEW v \in Visits, NEW p \in Payments, PayBegin(h, v, p)
      PROVE  Typed'
  <2>1. /\ UNCHANGED <<status, place, told, recorded, acked, board, preReg, gate, car>>
        /\ Others(h) /\ LocalTypes' /\ pc'[h] = "pay_look" /\ visit'[h] = v /\ payment'[h] = p /\ v \in told
    BY <1>0, <1>1, BeginIs DEF PayBegin, PayPcs
  <2>2. SharedTypes' /\ HandlerOK(h)'
    BY <1>0, <2>1 DEF SharedTypes, HandlerOK, EntryPcs, LatePcs, OutPcs, PayPcs, ExitPcs
  <2> QED
    BY <2>1, <2>2, TypedLocalStep
<1>2. CASE PayLook(h) \/ PayOpen(h)
  <2>1. /\ UNCHANGED <<status, place, told, recorded, board, preReg, car>>
        /\ pc[h] \in PayPcs
        /\ acked' \in {acked, acked \cup {<<visit[h], payment[h]>>}}
        /\ gate' \in {gate, gate \cup {visit[h]}}
    BY <1>2 DEF PayLook, PayOpen, PayPcs
  <2>2. visit[h] \in Visits
    BY <1>0, <2>1 DEF HandlerOK, SharedTypes
  <2>3. SharedTypes'
    BY <1>0, <1>a, <2>1, <2>2 DEF SharedTypes
  <2>4. \/ pc'[h] = "idle" /\ Others(h) /\ LocalTypes'
        \/ /\ pc'[h] = "pay_save" /\ visit'[h] = visit[h] /\ payment'[h] = payment[h]
           /\ Others(h) /\ LocalTypes'
    <3>1. CASE PayLook(h)
      BY <1>0, <3>1, LeaveIs, GotoIs DEF PayLook, PayPcs
    <3>2. CASE PayOpen(h)
      BY <1>0, <3>2, LeaveIs DEF PayOpen
    <3> QED
      BY <1>2, <3>1, <3>2
  <2>5. HandlerOK(h)'
    BY <1>0, <2>1, <2>4 DEF HandlerOK, EntryPcs, LatePcs, OutPcs, PayPcs, ExitPcs
  <2> QED
    BY <2>1, <2>3, <2>4, <2>5, TypedLocalStep
<1>3. CASE PaySave(h)
  <2>1. /\ UNCHANGED <<status, place, told, acked, board, preReg, gate, car>>
        /\ pc[h] = "pay_save" /\ recorded' = recorded \cup {<<visit[h], payment[h]>>}
    BY <1>3 DEF PaySave
  <2>2. \/ pc'[h] = "idle" /\ Others(h) /\ LocalTypes'
        \/ /\ pc'[h] = "pay_mark" /\ visit'[h] = visit[h] /\ payment'[h] = payment[h]
           /\ Others(h) /\ LocalTypes'
    BY <1>0, <1>3, LeaveIs, GotoIs DEF PaySave, PayPcs
  <2>3. SharedTypes' /\ Kept
    BY <1>0, <1>a, <2>1 DEF SharedTypes, Kept, PayPcs
  <2>4. HandlerOK(h)'
    BY <1>0, <2>1, <2>2 DEF HandlerOK, EntryPcs, LatePcs, OutPcs, PayPcs, ExitPcs
  <2>5. \A v \in Visits : status'[v] # "none" => place'[v] \in Spots
    BY <2>1 DEF Typed
  <2> QED
    BY <2>1, <2>2, <2>3, <2>4, <2>5, TypedStep
<1>4. CASE PayMark(h)
  <2>1. /\ UNCHANGED <<place, told, recorded, acked, board, preReg, gate, car, visit, payment, copy>>
        /\ pc[h] = "pay_mark" /\ status' = [status EXCEPT ![visit[h]] = "paid"]
        /\ pc' = [pc EXCEPT ![h] = "pay_read"] /\ spot' = [spot EXCEPT ![h] = place[visit[h]]]
    BY <1>4 DEF PayMark, MarkPaid
  <2>2. /\ visit[h] \in Visits /\ status[visit[h]] # "none" /\ place[visit[h]] \in Spots
        /\ visit[h] \in told /\ payment[h] \in Payments /\ <<visit[h], payment[h]>> \in recorded
    BY <1>0, <2>1 DEF HandlerOK, SharedTypes, PayPcs, Typed
  <2>3. SharedTypes' /\ LocalTypes' /\ Others(h) /\ Kept
    BY <1>0, <2>1, <2>2 DEF SharedTypes, LocalTypes, Others, Kept, PayPcs
  <2>4. pc'[h] = "pay_read" /\ spot'[h] = place[visit[h]] /\ status'[visit[h]] = "paid"
    BY <1>0, <2>1, <2>2 DEF SharedTypes, LocalTypes
  <2>5. HandlerOK(h)'
    BY <2>1, <2>2, <2>4 DEF HandlerOK, HasRow, EntryPcs, LatePcs, OutPcs, PayPcs, ExitPcs
  <2>6. \A v \in Visits : status'[v] # "none" => place'[v] \in Spots
    BY <2>1, <2>2 DEF Typed, TypeOK
  <2> QED
    BY <2>1, <2>3, <2>5, <2>6, TypedStep
<1>5. CASE PayRead(h)
  <2> DEFINE found == board[spot[h]].visit
  <2>1. /\ UNCHANGED <<status, place, told, recorded, acked, board, preReg, gate, car, spot, visit, payment>>
        /\ pc[h] = "pay_read" /\ pc' = [pc EXCEPT ![h] = AfterRead(found)]
        /\ copy' = [copy EXCEPT ![h] = found]
    BY <1>5 DEF PayRead
  <2>2. HasRow(visit[h], spot[h])
    BY <1>0, <2>1 DEF HandlerOK
  <2>3. found \in Visits \cup {NoVisit} /\ (found # NoVisit => HasRow(found, spot[h]))
    BY <2>2 DEF Typed, TypeOK, Record, HasRow, Shown, NoRecord
  <2>4. AfterRead(found) \in {"pay_open", "pay_write"} /\ (AfterRead(found) = "pay_write" => found # NoVisit)
    BY DEF AfterRead
  <2>5. LocalTypes' /\ Others(h) /\ pc'[h] = AfterRead(found) /\ copy'[h] = found
    BY <1>0, <2>1, <2>3, <2>4 DEF LocalTypes, Others, PayPcs
  <2>6. HandlerOK(h)'
    <3> HIDE DEF found
    <3> QED
      BY <1>0, <2>1, <2>2, <2>3, <2>4, <2>5 DEF HandlerOK, HasRow, EntryPcs, LatePcs, OutPcs, PayPcs, ExitPcs
  <2>7. SharedTypes'
    BY <1>0, <2>1 DEF SharedTypes
  <2> QED
    BY <2>1, <2>5, <2>6, <2>7, TypedLocalStep
<1>6. CASE PayWrite(h)
  <2>1. /\ UNCHANGED <<status, place, told, recorded, acked, preReg, gate, car>>
        /\ pc[h] = "pay_write" /\ pc'[h] = "pay_open" /\ Others(h) /\ LocalTypes'
        /\ spot'[h] = spot[h] /\ visit'[h] = visit[h] /\ payment'[h] = payment[h]
        /\ board' = [board EXCEPT ![spot[h]] = [visit |-> copy[h], status |-> "paid"]]
    BY <1>0, <1>6, GotoIs DEF PayWrite, PayPcs
  <2>2. HasRow(copy[h], spot[h]) /\ HasRow(visit[h], spot[h])
    BY <1>0, <2>1 DEF HandlerOK
  <2>3. SharedTypes' /\ Kept
    BY <1>0, <2>1, <2>2 DEF SharedTypes, HasRow, Record, Kept
  <2>4. HandlerOK(h)'
    BY <1>0, <2>1, <2>2 DEF HandlerOK, HasRow, EntryPcs, LatePcs, OutPcs, PayPcs, ExitPcs
  <2>5. \A s \in Spots : board'[s] = board[s] \/ Shown(s)'
    BY <2>1, <2>2 DEF Typed, TypeOK, Shown, HasRow
  <2>6. \A v \in Visits : status'[v] # "none" => place'[v] \in Spots
    BY <2>1 DEF Typed
  <2> QED
    BY <2>1, <2>3, <2>4, <2>5, <2>6, TypedStep
<1> QED
  BY <1>1, <1>2, <1>3, <1>4, <1>5, <1>6

LEMMA ExitTyped ==
  ASSUME Typed, UNCHANGED faults, NEW h \in Handlers,
         \/ \E s \in Spots : ExitBegin(h, s)
         \/ ExitLook(h) \/ ExitDb(h) \/ ExitOpen(h) \/ ExitDelete(h) \/ ExitMark(h)
         \/ Crash(h)
  PROVE  Typed'
<1> USE DEF dbVars, redisVars, histVars, siteVars
<1>0. LocalTypes /\ HandlerOK(h) /\ SharedTypes
  BY TypedLocal, TypedParts DEF Typed
<1>1. ASSUME NEW s \in Spots, ExitBegin(h, s)
      PROVE  Typed'
  <2>1. /\ UNCHANGED <<status, place, told, recorded, acked, board, preReg, gate>>
        /\ Others(h) /\ LocalTypes' /\ pc'[h] = "exit_look" /\ spot'[h] = s
    BY <1>0, <1>1, BeginIs DEF ExitBegin, ExitPcs
  <2>2. SharedTypes'
    BY <1>0, <1>1, <2>1 DEF ExitBegin, SharedTypes
  <2>3. HandlerOK(h)'
    BY <2>1 DEF HandlerOK, EntryPcs, LatePcs, OutPcs, PayPcs, ExitPcs
  <2> QED
    BY <2>1, <2>2, <2>3, TypedLocalStep
<1>2. CASE ExitLook(h) \/ ExitDb(h)
  <2>1. UNCHANGED <<status, place, told, recorded, acked, board, preReg, gate, car>>
    BY <1>2 DEF ExitLook, ExitDb
  <2>2. spot[h] \in Spots
    BY <1>0, <1>2 DEF ExitLook, ExitDb, HandlerOK, ExitPcs
  <2>3. CASE pc'[h] = "idle" /\ Others(h) /\ LocalTypes'
    BY <1>0, <2>1, <2>3, IdleOK, TypedLocalStep DEF SharedTypes
  <2>4. CASE Goto(h, "exit_look", "exit_db")
    <3>1. Others(h) /\ LocalTypes' /\ pc'[h] = "exit_db" /\ spot'[h] = spot[h]
      BY <1>0, <2>4, GotoIs DEF ExitPcs
    <3>2. HandlerOK(h)'
      BY <2>2, <3>1 DEF HandlerOK, EntryPcs, LatePcs, OutPcs, PayPcs, ExitPcs
    <3> QED
      BY <1>0, <2>1, <3>1, <3>2, TypedLocalStep DEF SharedTypes
  <2>5. ASSUME NEW v \in Visits, HasRow(v, spot[h]), NEW to \in {"exit_open", "exit_open_db"},
               pc' = [pc EXCEPT ![h] = to], visit' = [visit EXCEPT ![h] = v], UNCHANGED <<spot, payment, copy>>
        PROVE  Typed'
    <3>1. Others(h) /\ LocalTypes' /\ pc'[h] = to /\ spot'[h] = spot[h] /\ visit'[h] = v
      BY <1>0, <2>5 DEF LocalTypes, Others, ExitPcs
    <3>2. HandlerOK(h)'
      BY <2>1, <2>2, <2>5, <3>1 DEF HandlerOK, HasRow, EntryPcs, LatePcs, OutPcs, PayPcs, ExitPcs
    <3> QED
      BY <1>0, <2>1, <3>1, <3>2, TypedLocalStep DEF SharedTypes
  <2>6. CASE ExitLook(h)
    <3>1. Opens(board[spot[h]]) => board[spot[h]].visit \in Visits /\ HasRow(board[spot[h]].visit, spot[h])
      BY <2>2 DEF Opens, Typed, Shown, HasRow, NoRecord
    <3> QED
      BY <1>0, <2>3, <2>4, <2>5, <2>6, <3>1, LeaveIs DEF ExitLook
  <2>7. CASE ExitDb(h)
    <3>1. \A v \in PaidAt(spot[h]) : v \in Visits /\ HasRow(v, spot[h])
      BY <2>2 DEF PaidAt, HasRow
    <3> QED
      BY <1>0, <2>3, <2>5, <2>7, <3>1, LeaveIs DEF ExitDb
  <2> QED
    BY <1>2, <2>6, <2>7
<1>3. CASE ExitOpen(h) \/ ExitDelete(h)
  <2>1. /\ UNCHANGED <<status, place, told, recorded, acked, preReg, car>>
        /\ pc[h] \in OutPcs /\ pc'[h] \in {"exit_delete", "exit_mark"} /\ Others(h) /\ LocalTypes'
        /\ spot'[h] = spot[h] /\ visit'[h] = visit[h]
    <3>1. CASE ExitOpen(h)
      BY <1>0, <3>1, GotoIs DEF ExitOpen, ExitPcs, OutPcs
    <3>2. CASE ExitDelete(h)
      BY <1>0, <3>2, GotoIs DEF ExitDelete, ExitPcs, OutPcs
    <3> QED
      BY <1>3, <3>1, <3>2
  <2>2. HasRow(visit[h], spot[h])
    BY <1>0, <2>1 DEF HandlerOK
  <2>3. /\ gate' \in {gate, gate \cup {visit[h]}}
        /\ board' \in {board, [board EXCEPT ![spot[h]] = NoRecord]}
    BY <1>3 DEF ExitOpen, ExitDelete
  <2>4. SharedTypes' /\ \A s \in Spots : board'[s] = board[s] \/ board'[s] = NoRecord
    BY <1>0, <2>1, <2>2, <2>3 DEF SharedTypes, HasRow, Record, NoRecord
  <2>5. HandlerOK(h)'
    BY <2>1, <2>2 DEF HandlerOK, HasRow, EntryPcs, LatePcs, OutPcs, PayPcs, ExitPcs
  <2> QED
    BY <2>1, <2>4, <2>5, TypedLocalStep
<1>4. CASE ExitMark(h)
  <2>1. /\ UNCHANGED <<place, told, recorded, acked, board, preReg, gate>>
        /\ pc[h] = "exit_mark" /\ Others(h) /\ LocalTypes' /\ HandlerOK(h)'
        /\ status' = [status EXCEPT ![visit[h]] = "exited"]
        /\ car' \in {car, [car EXCEPT ![spot[h]] = "opened"]}
    <3>1. car' = [car EXCEPT ![spot[h]] = IF @ = h THEN "opened" ELSE @]
      BY <1>4 DEF ExitMark
    <3>2. car' \in {car, [car EXCEPT ![spot[h]] = "opened"]}
      BY <1>0, <3>1 DEF SharedTypes
    <3> QED
      BY <1>0, <1>4, <3>2, LeaveIs, IdleOK DEF ExitMark
  <2>2. HasRow(visit[h], spot[h])
    BY <1>0, <2>1 DEF HandlerOK, OutPcs
  <2>3. SharedTypes' /\ Kept
    BY <1>0, <2>1, <2>2 DEF SharedTypes, HasRow, Kept
  <2>4. \A v \in Visits : status'[v] # "none" => place'[v] \in Spots
    BY <2>1, <2>2 DEF Typed, TypeOK, HasRow
  <2> QED
    BY <2>1, <2>3, <2>4, TypedStep
<1>5. CASE Crash(h)
  BY <1>0, <1>5, LeaveIs, IdleOK, TypedLocalStep DEF Crash, SharedTypes
<1> QED
  BY <1>1, <1>2, <1>3, <1>4, <1>5

LEMMA NextTyped == Typed /\ [Next]_vars => Typed'
<1> SUFFICES ASSUME Typed, [Next]_vars PROVE Typed'
  OBVIOUS
<1>1. CASE UNCHANGED vars
  <2>1. UNCHANGED <<faults, status, place, board, preReg, recorded, told, acked, car, gate, pc, spot, visit,
                    payment, copy>>
    BY <1>1 DEF vars, parkVars, dbVars, redisVars, histVars, siteVars
  <2>2. TypeOK' /\ \A h \in Handlers : HandlerOK(h)'
    BY <2>1 DEF Typed, TypeOK, HandlerOK, HasRow
  <2> QED
    BY <2>1, <2>2 DEF Typed, Shown, HasRow
<1>2. CASE Next
  BY <1>2, SiteTyped, EntryTyped, PayTyped, ExitTyped DEF Next, Proceed
<1> QED
  BY <1>1, <1>2

LEMMA TypedHolds == Spec => []Typed
BY InitTyped, NextTyped, PTL DEF Spec

\* The PMS keeps its types, whatever goes wrong.
THEOREM TypeCorrect == Spec => []TypeOK
BY TypedHolds, PTL DEF Typed

-----------------------------------------------------------------------------
(* Where a handler goes.                                                   *)

Same(h) == spot'[h] = spot[h] /\ visit'[h] = visit[h] /\ payment'[h] = payment[h] /\ copy'[h] = copy[h]

Trans(h) ==
  \/ pc'[h] = "idle"
  \/ /\ Same(h)
     /\ \/ pc[h] = "entry_look" /\ pc'[h] = "entry_create"
        \/ pc[h] = "entry_board" /\ pc'[h] = "entry_reg"
        \/ pc[h] = "entry_reg" /\ pc'[h] = "entry_consume"
        \/ pc[h] = "entry_consume" /\ pc'[h] = "entry_webhook"
        \/ pc[h] = "pay_look" /\ pc'[h] = "pay_save"
        \/ pc[h] = "pay_save" /\ pc'[h] = "pay_mark"
        \/ pc[h] = "pay_write" /\ pc'[h] = "pay_open"
        \/ pc[h] = "exit_look" /\ pc'[h] = "exit_db"
        \/ pc[h] = "exit_open" /\ pc'[h] = "exit_delete"
        \/ pc[h] \in {"exit_open_db", "exit_delete"} /\ pc'[h] = "exit_mark"
  \/ /\ EntryCreate(h)
     /\ pc[h] = "entry_create" /\ pc'[h] = "entry_board" /\ spot'[h] = spot[h]
     /\ visit'[h] \in Visits /\ status[visit'[h]] = "none"
     /\ status' = [status EXCEPT ![visit'[h]] = "active"]
     /\ place' = [place EXCEPT ![visit'[h]] = spot[h]]
     /\ ActiveOf(PlateOf(spot[h])) = {}
  \/ /\ pc[h] = "pay_mark" /\ pc'[h] = "pay_read"
     /\ spot'[h] = place[visit[h]] /\ visit'[h] = visit[h] /\ payment'[h] = payment[h]
  \/ /\ pc[h] = "pay_read" /\ pc'[h] \in {"pay_open", "pay_write"}
     /\ spot'[h] = spot[h] /\ visit'[h] = visit[h] /\ payment'[h] = payment[h]
     /\ copy'[h] = board[spot[h]].visit
  \/ /\ pc[h] = "exit_look" /\ pc'[h] = "exit_open" /\ spot'[h] = spot[h]
     /\ visit'[h] = board[spot[h]].visit /\ board[spot[h]].status = "paid"
  \/ /\ pc[h] = "exit_db" /\ pc'[h] = "exit_open_db" /\ spot'[h] = spot[h]
     /\ visit'[h] \in PaidAt(spot[h])

LEMMA EntryTrans ==
  ASSUME Typed, NEW h \in Handlers,
         \/ EntryLook(h) \/ EntryCreate(h) \/ EntryBoard(h)
         \/ EntryReg(h) \/ EntryConsume(h) \/ EntryWebhook(h)
  PROVE  Others(h) /\ Trans(h)
<1> USE DEF EntryPcs
<1>0. LocalTypes
  BY TypedLocal
<1>1. CASE EntryLook(h)
  BY <1>0, <1>1, LeaveIs, GotoIs DEF EntryLook, Trans, Same
<1>2. CASE EntryCreate(h)
  <2>1. CASE Leave(h)
    BY <1>0, <2>1, LeaveIs DEF Trans
  <2>2. ASSUME NEW v \in Visits, status[v] = "none", status' = [status EXCEPT ![v] = "active"],
               place' = [place EXCEPT ![v] = spot[h]], visit' = [visit EXCEPT ![h] = v],
               pc' = [pc EXCEPT ![h] = "entry_board"], UNCHANGED <<spot, payment, copy>>,
               ActiveOf(PlateOf(spot[h])) = {}
        PROVE  Others(h) /\ Trans(h)
    <3>1. Others(h) /\ pc'[h] = "entry_board" /\ visit'[h] = v
      BY <1>0, <2>2 DEF LocalTypes, Others
    <3> QED
      BY <1>2, <2>2, <3>1 DEF Trans, EntryCreate
  <2> QED
    BY <1>2, <2>1, <2>2 DEF EntryCreate
<1>3. CASE EntryBoard(h)
  BY <1>0, <1>3, GotoIs DEF EntryBoard, Trans, Same
<1>4. CASE EntryReg(h)
  BY <1>0, <1>4, LeaveIs, GotoIs DEF EntryReg, Trans, Same
<1>5. CASE EntryConsume(h)
  BY <1>0, <1>5, GotoIs DEF EntryConsume, Trans, Same
<1>6. CASE EntryWebhook(h)
  BY <1>0, <1>6, LeaveIs DEF EntryWebhook, Trans
<1> QED
  BY <1>1, <1>2, <1>3, <1>4, <1>5, <1>6

LEMMA PayTrans ==
  ASSUME Typed, NEW h \in Handlers,
         PayLook(h) \/ PaySave(h) \/ PayMark(h) \/ PayRead(h) \/ PayWrite(h) \/ PayOpen(h)
  PROVE  Others(h) /\ Trans(h)
<1> USE DEF PayPcs
<1>0. LocalTypes
  BY TypedLocal
<1>1. CASE PayLook(h)
  BY <1>0, <1>1, LeaveIs, GotoIs DEF PayLook, Trans, Same
<1>2. CASE PaySave(h)
  BY <1>0, <1>2, LeaveIs, GotoIs DEF PaySave, Trans, Same
<1>3. CASE PayMark(h)
  <2>1. Others(h) /\ pc[h] = "pay_mark" /\ pc'[h] = "pay_read" /\ spot'[h] = place[visit[h]]
        /\ visit'[h] = visit[h] /\ payment'[h] = payment[h]
    BY <1>0, <1>3 DEF PayMark, LocalTypes, Others
  <2> QED
    BY <2>1 DEF Trans
<1>4. CASE PayRead(h)
  <2>1. Others(h) /\ pc[h] = "pay_read" /\ pc'[h] \in {"pay_open", "pay_write"} /\ spot'[h] = spot[h]
        /\ visit'[h] = visit[h] /\ payment'[h] = payment[h] /\ copy'[h] = board[spot[h]].visit
    BY <1>0, <1>4 DEF PayRead, AfterRead, LocalTypes, Others
  <2> QED
    BY <2>1 DEF Trans
<1>5. CASE PayWrite(h)
  BY <1>0, <1>5, GotoIs DEF PayWrite, Trans, Same
<1>6. CASE PayOpen(h)
  BY <1>0, <1>6, LeaveIs DEF PayOpen, Trans
<1> QED
  BY <1>1, <1>2, <1>3, <1>4, <1>5, <1>6

LEMMA ExitTrans ==
  ASSUME Typed, NEW h \in Handlers,
         ExitLook(h) \/ ExitDb(h) \/ ExitOpen(h) \/ ExitDelete(h) \/ ExitMark(h) \/ Crash(h)
  PROVE  Others(h) /\ Trans(h)
<1> USE DEF ExitPcs
<1>0. LocalTypes
  BY TypedLocal
<1>1. CASE ExitLook(h)
  <2>1. CASE pc' = [pc EXCEPT ![h] = "exit_open"]
    <3>1. Others(h) /\ pc[h] = "exit_look" /\ pc'[h] = "exit_open" /\ spot'[h] = spot[h]
          /\ visit'[h] = board[spot[h]].visit /\ board[spot[h]].status = "paid"
      BY <1>0, <1>1, <2>1 DEF ExitLook, Opens, LocalTypes, Others, Leave, Goto
    <3> QED
      BY <3>1 DEF Trans
  <2>2. CASE Leave(h) \/ Goto(h, "exit_look", "exit_db")
    BY <1>0, <2>2, LeaveIs, GotoIs DEF Trans, Same
  <2> QED
    BY <1>1, <2>1, <2>2 DEF ExitLook
<1>2. CASE ExitDb(h)
  <2>1. ASSUME NEW v \in PaidAt(spot[h]), pc[h] = "exit_db", pc' = [pc EXCEPT ![h] = "exit_open_db"],
               visit' = [visit EXCEPT ![h] = v], UNCHANGED <<spot, payment, copy>>
        PROVE  Others(h) /\ Trans(h)
    <3>1. Others(h) /\ pc'[h] = "exit_open_db" /\ spot'[h] = spot[h] /\ visit'[h] = v
      BY <1>0, <2>1 DEF LocalTypes, Others
    <3> QED
      BY <2>1, <3>1 DEF Trans
  <2>2. CASE Leave(h)
    BY <1>0, <2>2, LeaveIs DEF Trans
  <2> QED
    BY <1>2, <2>1, <2>2 DEF ExitDb
<1>3. CASE ExitOpen(h)
  BY <1>0, <1>3, GotoIs DEF ExitOpen, Trans, Same
<1>4. CASE ExitDelete(h)
  BY <1>0, <1>4, GotoIs DEF ExitDelete, Trans, Same
<1>5. CASE ExitMark(h) \/ Crash(h)
  BY <1>0, <1>5, LeaveIs DEF ExitMark, Crash, Trans
<1> QED
  BY <1>1, <1>2, <1>3, <1>4, <1>5

LEMMA ProceedTrans ==
  ASSUME Typed, NEW h \in Handlers, Proceed(h) \/ Crash(h)
  PROVE  Others(h) /\ Trans(h)
BY EntryTrans, PayTrans, ExitTrans DEF Proceed

\* What an answer to a new request knows.
LEMMA BeginTrans ==
  ASSUME Typed, NEW h \in Handlers,
         \/ \E s \in Spots : EntryBegin(h, s) \/ ExitBegin(h, s)
         \/ \E v \in Visits, p \in Payments : PayBegin(h, v, p)
  PROVE  Others(h) /\ pc[h] = "idle" /\ pc'[h] \in {"entry_look", "exit_look", "pay_look"}
<1>0. LocalTypes
  BY TypedLocal
<1> QED
  BY <1>0, BeginIs DEF EntryBegin, ExitBegin, PayBegin, EntryPcs, ExitPcs, PayPcs

\* What the steps of a handler change of the shared state.
LEMMA ProceedFrame ==
  ASSUME NEW h \in Handlers, Proceed(h) \/ Crash(h)
  PROVE  /\ status' = status \/ EntryCreate(h) \/ PayMark(h) \/ ExitMark(h)
         /\ place' = place \/ EntryCreate(h)
         /\ told' = told \/ EntryWebhook(h)
         /\ recorded' = recorded \/ PaySave(h)
         /\ board' = board \/ EntryBoard(h) \/ PayWrite(h) \/ ExitDelete(h)
         /\ acked' = acked \/ PayLook(h) \/ PayOpen(h)
         /\ car' = car \/ ExitMark(h)
<1> USE DEF dbVars, redisVars, histVars, siteVars
<1>1. CASE EntryLook(h) \/ EntryCreate(h) \/ EntryBoard(h) \/ EntryReg(h) \/ EntryConsume(h) \/ EntryWebhook(h)
  BY <1>1 DEF EntryLook, EntryCreate, EntryBoard, EntryReg, EntryConsume, EntryWebhook
<1>2. CASE PayLook(h) \/ PaySave(h) \/ PayMark(h) \/ PayRead(h) \/ PayWrite(h) \/ PayOpen(h)
  BY <1>2 DEF PayLook, PaySave, PayMark, PayRead, PayWrite, PayOpen
<1>3. CASE ExitLook(h) \/ ExitDb(h) \/ ExitOpen(h) \/ ExitDelete(h) \/ ExitMark(h) \/ Crash(h)
  BY <1>3 DEF ExitLook, ExitDb, ExitOpen, ExitDelete, ExitMark, Crash
<1> QED
  BY <1>1, <1>2, <1>3 DEF Proceed

\* A new request, and the site, change none of the tables.
LEMMA OtherFrame ==
  ASSUME \/ \E s \in Spots : PreRegister(s) \/ LoseKey(s) \/ DriveOut(s)
         \/ GateShuts
         \/ \E h \in Handlers, s \in Spots : EntryBegin(h, s) \/ ExitBegin(h, s)
         \/ \E h \in Handlers, v \in Visits, p \in Payments : PayBegin(h, v, p)
  PROVE  UNCHANGED <<status, place, told, recorded, acked>>
BY DEF PreRegister, LoseKey, DriveOut, GateShuts, EntryBegin, ExitBegin, PayBegin, dbVars, redisVars, histVars

LEMMA SiteFrame ==
  ASSUME \/ \E s \in Spots : PreRegister(s) \/ LoseKey(s) \/ DriveOut(s)
         \/ GateShuts
  PROVE  UNCHANGED <<pc, spot, visit, payment, copy>>
BY DEF PreRegister, LoseKey, DriveOut, GateShuts

\* The rows that change.
LEMMA StatusSteps ==
  ASSUME Typed, NEW h \in Handlers, Proceed(h) \/ Crash(h), NEW v \in Visits
  PROVE  \/ status'[v] = status[v]
         \/ EntryCreate(h) /\ status[v] = "none" /\ status'[v] = "active"
         \/ PayMark(h) /\ pc[h] = "pay_mark" /\ visit[h] = v /\ status'[v] = "paid"
         \/ ExitMark(h) /\ pc[h] = "exit_mark" /\ visit[h] = v /\ status'[v] = "exited"
<1>1. CASE EntryCreate(h)
  BY <1>1 DEF EntryCreate, Typed, TypeOK
<1>2. CASE PayMark(h)
  BY <1>2 DEF PayMark, MarkPaid, Typed, TypeOK
<1>3. CASE ExitMark(h)
  BY <1>3 DEF ExitMark, Typed, TypeOK
<1> QED
  BY <1>1, <1>2, <1>3, ProceedFrame

LEMMA SettledStays ==
  ASSUME Typed, [Next]_vars, NEW v \in Visits, Settled(v)
  PROVE  Settled(v)'
<1>1. CASE UNCHANGED status
  BY <1>1 DEF Settled
<1>2. ASSUME NEW h \in Handlers, Proceed(h) \/ Crash(h)
      PROVE  Settled(v)'
  BY <1>2, StatusSteps DEF Settled
<1> QED
  BY <1>1, <1>2, OtherFrame DEF Next, vars, parkVars, dbVars

-----------------------------------------------------------------------------
(* Entries.                                                                *)

LEMMA InitEntries == Init => Entries
BY DEF Init, Entries, LatePcs

LEMMA NextEntries == Typed /\ Entries /\ [Next]_vars => Entries'
<1> SUFFICES ASSUME Typed, Entries, [Next]_vars PROVE Entries'
  OBVIOUS
<1>1. CASE UNCHANGED <<status, told, pc, visit>>
  BY <1>1 DEF Entries
<1>2. ASSUME NEW h \in Handlers, Others(h), UNCHANGED told,
             \A v \in Visits : status'[v] = "paid" => status[v] = "paid" \/ v \in told,
             pc'[h] \in LatePcs => pc[h] \in LatePcs /\ visit'[h] = visit[h]
      PROVE  Entries'
  BY <1>2 DEF Entries, Others
<1>3. ASSUME NEW h \in Handlers,
             \/ \E s \in Spots : EntryBegin(h, s) \/ ExitBegin(h, s)
             \/ \E v \in Visits, p \in Payments : PayBegin(h, v, p)
      PROVE  Entries'
  BY <1>2, <1>3, BeginTrans, OtherFrame DEF LatePcs
<1>4. ASSUME NEW h \in Handlers, Proceed(h) \/ Crash(h), ~EntryCreate(h), ~EntryWebhook(h)
      PROVE  Entries'
  <2>1. Others(h) /\ Trans(h) /\ UNCHANGED told
    BY <1>4, ProceedTrans, ProceedFrame
  <2>2. pc'[h] \in LatePcs => pc[h] \in LatePcs /\ visit'[h] = visit[h]
    BY <1>4, <2>1 DEF Trans, LatePcs, Same
  <2>3. \A v \in Visits : status'[v] = "paid" => status[v] = "paid" \/ v \in told
    BY ZenonT(60), <1>4, StatusSteps DEF Typed, HandlerOK, PayPcs
  <2> QED
    BY <1>2, <2>1, <2>2, <2>3
<1>5. ASSUME NEW h \in Handlers, EntryCreate(h)
      PROVE  Entries'
  <2>1. Others(h) /\ Trans(h) /\ UNCHANGED told
    BY <1>5, EntryTrans DEF EntryCreate, histVars
  <2>2. \A v \in Visits : status'[v] = "paid" => status[v] = "paid"
    BY <1>5, StatusSteps DEF Proceed, EntryCreate, PayMark, ExitMark
  <2>3. CASE pc'[h] = "idle"
    BY <1>2, <2>1, <2>2, <2>3 DEF LatePcs
  <2>4. CASE pc'[h] # "idle"
    <3>1. pc'[h] = "entry_board" /\ visit'[h] \in Visits /\ status[visit'[h]] = "none"
      BY <1>5, <2>1, <2>4 DEF Trans, Same, EntryCreate
    <3>2. \A g \in Handlers : pc[g] \in LatePcs => visit[g] # visit'[h]
      BY <3>1 DEF Typed, HandlerOK, HasRow
    <3>3. visit'[h] \notin told
      BY <3>1 DEF Typed
    <3> QED
      BY <2>1, <2>2, <3>2, <3>3 DEF Entries, Others
  <2> QED
    BY <2>3, <2>4
<1>6. ASSUME NEW h \in Handlers, EntryWebhook(h)
      PROVE  Entries'
  <2>1. /\ Others(h) /\ UNCHANGED status
        /\ pc[h] = "entry_webhook" /\ pc'[h] = "idle" /\ told' \in {told, told \cup {visit[h]}}
    BY <1>6, TypedLocal, LeaveIs DEF EntryWebhook, dbVars
  <2> QED
    BY <2>1 DEF Entries, Others, LatePcs
<1> QED
  BY <1>1, <1>3, <1>4, <1>5, <1>6, SiteFrame, OtherFrame DEF Next, Proceed, vars, parkVars, dbVars, histVars

-----------------------------------------------------------------------------
(* Payments that are recorded are carried out.                             *)

LEMMA InitRecorded == Init => RecordedIsPaid
BY DEF Init, RecordedIsPaid

\* Nothing but a crash keeps a handler from what it is about to do.
LEMMA NotElsewhere ==
  ASSUME NEW h \in Handlers, Proceed(h)
  PROVE  /\ pc[h] = "entry_create" => EntryCreate(h)
         /\ pc[h] = "entry_board" => EntryBoard(h)
         /\ pc[h] = "pay_look" => PayLook(h)
         /\ pc[h] = "pay_save" => PaySave(h)
         /\ pc[h] = "pay_mark" => PayMark(h)
         /\ pc[h] = "pay_read" => PayRead(h)
         /\ pc[h] = "pay_write" => PayWrite(h)
<1>1. /\ EntryLook(h) => pc[h] = "entry_look"
      /\ EntryCreate(h) => pc[h] = "entry_create"
      /\ EntryBoard(h) => pc[h] = "entry_board"
      /\ EntryReg(h) => pc[h] = "entry_reg"
      /\ EntryConsume(h) => pc[h] = "entry_consume"
      /\ EntryWebhook(h) => pc[h] = "entry_webhook"
  BY DEF EntryLook, EntryCreate, EntryBoard, EntryReg, EntryConsume, EntryWebhook, Goto
<1>2. ExitLook(h) \/ ExitDb(h) \/ ExitOpen(h) \/ ExitDelete(h) \/ ExitMark(h) => pc[h] \in ExitPcs
  BY DEF ExitLook, ExitDb, ExitOpen, ExitDelete, ExitMark, Goto, ExitPcs
<1>3. /\ PayLook(h) => pc[h] = "pay_look"
      /\ PaySave(h) => pc[h] = "pay_save"
      /\ PayMark(h) => pc[h] = "pay_mark"
      /\ PayRead(h) => pc[h] = "pay_read"
      /\ PayWrite(h) => pc[h] = "pay_write"
      /\ PayOpen(h) => pc[h] = "pay_open"
  BY DEF PayLook, PaySave, PayMark, PayRead, PayWrite, PayOpen, Goto
<1> QED
  BY <1>1, <1>2, <1>3 DEF Proceed, EntryPcs, ExitPcs

LEMMA NextRecorded == Typed /\ RecordedIsPaid /\ [Next]_vars => RecordedIsPaid'
<1> SUFFICES ASSUME Typed, RecordedIsPaid, [Next]_vars PROVE RecordedIsPaid'
  OBVIOUS
<1> SUFFICES ASSUME Unbroken, NEW k \in recorded'
             PROVE  Settled(k[1])' \/ Handling(k[1], {"pay_mark"})'
  <2>1. UNCHANGED faults
    BY DEF Next, vars
  <2> QED
    BY <2>1 DEF RecordedIsPaid, Unbroken, Settled, Handling
<1>0. k \in Keys /\ k[1] \in Visits
  BY NextTyped DEF Typed, TypeOK, Keys
<1>1. CASE Settled(k[1])
  BY <1>0, <1>1, SettledStays
<1>2. ASSUME NEW g \in Handlers, visit[g] = k[1], pc[g] = "pay_mark"
      PROVE  Settled(k[1])' \/ Handling(k[1], {"pay_mark"})'
  <2>1. CASE UNCHANGED <<pc, visit>>
    BY <1>2, <2>1 DEF Handling
  <2>2. ASSUME NEW h \in Handlers, Others(h), h # g
        PROVE  Handling(k[1], {"pay_mark"})'
    BY <1>2, <2>2 DEF Handling, Others
  <2>3. CASE Proceed(g)
    <3>1. PayMark(g)
      BY <1>2, <2>3, NotElsewhere
    <3> QED
      BY <1>0, <1>2, <3>1 DEF PayMark, MarkPaid, Settled, Typed, TypeOK
  <2>4. ~Crash(g)
    BY DEF Crash, Unbroken
  <2>5. ASSUME NEW h \in Handlers,
               \/ \E s \in Spots : EntryBegin(h, s) \/ ExitBegin(h, s)
               \/ \E v \in Visits, p \in Payments : PayBegin(h, v, p)
               \/ Proceed(h) \/ Crash(h)
        PROVE  Settled(k[1])' \/ Handling(k[1], {"pay_mark"})'
    <3>1. Others(h)
      BY <2>5, BeginTrans, ProceedTrans
    <3>2. CASE h = g
      BY <1>2, <2>3, <2>4, <2>5, <3>2, BeginTrans
    <3> QED
      BY <2>2, <3>1, <3>2
  <2> QED
    BY <2>1, <2>5, SiteFrame DEF Next, vars, parkVars
<1>3. CASE k \in recorded
  BY <1>1, <1>2, <1>3 DEF RecordedIsPaid, Handling
<1>4. CASE k \notin recorded
  <2>1. PICK h \in Handlers : Proceed(h) \/ Crash(h)
    BY <1>4, OtherFrame DEF Next, vars, parkVars, dbVars
  <2>2. PaySave(h)
    BY <1>4, <2>1, ProceedFrame
  <2>3. k = <<visit[h], payment[h]>> /\ Goto(h, "pay_save", "pay_mark")
    BY <1>4, <2>2 DEF PaySave
  <2>4. pc'[h] = "pay_mark" /\ visit'[h] = k[1]
    BY <2>3, TypedLocal, GotoIs DEF PayPcs
  <2> QED
    BY <2>4 DEF Handling
<1> QED
  BY <1>3, <1>4

\* What the back end was told is recorded, and what is recorded was carried out.
AckedRecorded == acked \subseteq recorded

LEMMA InitAcked == Init => AckedRecorded
BY DEF Init, AckedRecorded

LEMMA NextAcked == Typed /\ AckedRecorded /\ [Next]_vars => AckedRecorded'
<1> SUFFICES ASSUME Typed, AckedRecorded, [Next]_vars PROVE AckedRecorded'
  OBVIOUS
<1>1. CASE UNCHANGED <<acked, recorded>>
  BY <1>1 DEF AckedRecorded
<1>2. ASSUME NEW h \in Handlers, Proceed(h) \/ Crash(h)
      PROVE  AckedRecorded'
  <2>1. recorded \subseteq recorded'
    BY <1>2, ProceedFrame DEF PaySave
  <2>2. acked' \subseteq acked \cup recorded
    BY <1>2, ProceedFrame DEF PayLook, PayOpen, Typed, HandlerOK
  <2> QED
    BY <2>1, <2>2 DEF AckedRecorded
<1> QED
  BY <1>1, <1>2, OtherFrame DEF Next, vars, parkVars, dbVars, histVars

\* A notice the back end was told "success" for was carried out, or is being carried out
\* by an earlier request, if no request dies: the early answer for a recorded key hides
\* no payment that was dropped (RecordPaymentCompleteService).
THEOREM AckedArePaid == Spec => []AckedIsPaid
<1>1. Typed /\ RecordedIsPaid /\ AckedRecorded => AckedIsPaid
  BY DEF RecordedIsPaid, AckedRecorded, AckedIsPaid, Settled
<1>2. Spec => []RecordedIsPaid
  BY InitRecorded, NextRecorded, TypedHolds, PTL DEF Spec
<1>3. Spec => []AckedRecorded
  BY InitAcked, NextAcked, TypedHolds, PTL DEF Spec
<1> QED
  BY <1>1, <1>2, <1>3, TypedHolds, PTL

-----------------------------------------------------------------------------
(* The board catches up.                                                   *)

LEMMA InitCatches == Init => BoardCatchesUp
BY DEF Init, BoardCatchesUp, NoRecord

\* How a record of the board changes.
LEMMA BoardSteps ==
  ASSUME Typed, [Next]_vars, NEW s \in Spots
  PROVE  \/ board'[s] = board[s]
         \/ board'[s] = NoRecord
         \/ \E h \in Handlers : /\ EntryBoard(h) /\ pc[h] = "entry_board" /\ spot[h] = s
                                /\ board'[s] = [visit |-> visit[h], status |-> "active"]
         \/ \E h \in Handlers : /\ PayWrite(h) /\ pc[h] = "pay_write" /\ spot[h] = s
                                /\ board'[s] = [visit |-> copy[h], status |-> "paid"]
<1>1. CASE UNCHANGED board
  BY <1>1
<1>2. ASSUME NEW t \in Spots, LoseKey(t)
      PROVE  board'[s] = board[s] \/ board'[s] = NoRecord
  BY <1>2 DEF LoseKey, Typed, TypeOK
<1>3. ASSUME NEW h \in Handlers, EntryBoard(h)
      PROVE  board'[s] = board[s] \/ (pc[h] = "entry_board" /\ spot[h] = s
                                      /\ board'[s] = [visit |-> visit[h], status |-> "active"])
  BY <1>3 DEF EntryBoard, Goto, Typed, TypeOK
<1>4. ASSUME NEW h \in Handlers, PayWrite(h)
      PROVE  board'[s] = board[s] \/ (pc[h] = "pay_write" /\ spot[h] = s
                                      /\ board'[s] = [visit |-> copy[h], status |-> "paid"])
  BY <1>4 DEF PayWrite, Goto, Typed, TypeOK
<1>5. ASSUME NEW h \in Handlers, ExitDelete(h)
      PROVE  board'[s] = board[s] \/ board'[s] = NoRecord
  BY <1>5 DEF ExitDelete, Typed, TypeOK
<1>6. ASSUME NEW h \in Handlers, Proceed(h) \/ Crash(h)
      PROVE  UNCHANGED board \/ EntryBoard(h) \/ PayWrite(h) \/ ExitDelete(h)
  BY <1>6, ProceedFrame
<1>7. ASSUME NEW h \in Handlers,
             \/ \E t \in Spots : EntryBegin(h, t) \/ ExitBegin(h, t)
             \/ \E v \in Visits, p \in Payments : PayBegin(h, v, p)
      PROVE  UNCHANGED board
  BY <1>7 DEF EntryBegin, ExitBegin, PayBegin, redisVars
<1>8. ASSUME NEW t \in Spots, PreRegister(t) \/ DriveOut(t) \/ GateShuts
      PROVE  UNCHANGED board
  BY <1>8 DEF PreRegister, DriveOut, GateShuts, redisVars
<1> QED
  BY <1>1, <1>2, <1>3, <1>4, <1>5, <1>6, <1>7, <1>8 DEF Next, vars, parkVars, redisVars

LEMMA NextCatches == Typed /\ Entries /\ BoardCatchesUp /\ [Next]_vars => BoardCatchesUp'
<1> SUFFICES ASSUME Typed, Entries, BoardCatchesUp, [Next]_vars PROVE BoardCatchesUp'
  OBVIOUS
<1> SUFFICES ASSUME Unbroken, NEW s \in Spots, NEW u, u = board'[s].visit,
                    board'[s].status = "active", status'[u] = "paid"
             PROVE  Rewriting(u)'
  <2>1. UNCHANGED faults
    BY DEF Next, vars
  <2> QED
    BY <2>1 DEF BoardCatchesUp, Unbroken, Rewriting
<1>1. CASE board'[s] = board[s]
  <2>1. u \in Visits /\ place[u] = s
    BY <1>1 DEF Typed, Shown, HasRow, NoRecord
  <2>2. ASSUME NEW h \in Handlers, Proceed(h), status[u] # "paid"
        PROVE  Rewriting(u)'
    <3>1. PayMark(h) /\ visit[h] = u
      BY <2>1, <2>2, StatusSteps
    <3>2. pc'[h] = "pay_read" /\ visit'[h] = u
      BY <3>1 DEF PayMark, Typed, TypeOK
    <3> QED
      BY <3>2 DEF Rewriting
  <2>3. ASSUME NEW g \in Handlers, visit[g] = u, pc[g] = "pay_read" \/ (pc[g] = "pay_write" /\ copy[g] = u),
               Proceed(g)
        PROVE  Rewriting(u)'
    <3>1. HasRow(u, spot[g]) /\ spot[g] = s
      BY <2>1, <2>3 DEF Typed, HandlerOK, HasRow
    <3>2. CASE PayRead(g)
      <4>1. pc'[g] = "pay_write" /\ visit'[g] = u /\ copy'[g] = u
        BY <1>1, <2>1, <2>3, <3>1, <3>2, ParkingAssumption DEF PayRead, AfterRead, Typed, TypeOK
      <4> QED
        BY <4>1 DEF Rewriting
    <3>3. CASE PayWrite(g)
      BY <2>3, <3>1, <3>3 DEF PayWrite, Typed, TypeOK
    <3> QED
      BY <2>3, <3>2, <3>3, NotElsewhere
  <2>4. ASSUME NEW h \in Handlers, Others(h), NEW g \in Handlers, g # h,
               visit[g] = u, pc[g] = "pay_read" \/ (pc[g] = "pay_write" /\ copy[g] = u)
        PROVE  Rewriting(u)'
    BY <2>4 DEF Rewriting, Others
  <2>5. status[u] = "paid" => Rewriting(u)
    BY <1>1 DEF BoardCatchesUp
  <2>6. ASSUME NEW h \in Handlers,
               \/ \E t \in Spots : EntryBegin(h, t) \/ ExitBegin(h, t)
               \/ \E v \in Visits, p \in Payments : PayBegin(h, v, p)
        PROVE  Rewriting(u)'
    BY <2>4, <2>5, <2>6, BeginTrans, OtherFrame DEF Rewriting
  <2>7. ASSUME NEW h \in Handlers, Proceed(h)
        PROVE  Rewriting(u)'
    BY <2>2, <2>3, <2>4, <2>5, <2>7, ProceedTrans DEF Rewriting
  <2>8. CASE UNCHANGED <<status, pc, visit, copy>>
    BY <2>5, <2>8 DEF Rewriting
  <2>9. ASSUME NEW h \in Handlers PROVE ~Crash(h)
    BY DEF Crash, Unbroken
  <2> QED
    BY <2>6, <2>7, <2>8, <2>9, SiteFrame, OtherFrame DEF Next, vars, parkVars, dbVars
<1>2. CASE board'[s] # board[s]
  <2>1. PICK h \in Handlers : /\ EntryBoard(h) /\ pc[h] = "entry_board"
                              /\ board'[s] = [visit |-> visit[h], status |-> "active"]
    <3>1. board'[s] # NoRecord
      BY DEF NoRecord
    <3>2. \A h \in Handlers : board'[s] # [visit |-> copy[h], status |-> "paid"]
      OBVIOUS
    <3> QED
      BY ZenonT(60), <1>2, <3>1, <3>2, BoardSteps
  <2>2. u = visit[h]
    BY <2>1
  <2>3. UNCHANGED status
    BY <2>1 DEF EntryBoard, dbVars
  <2>4. u \in Visits
    BY <2>1, <2>2 DEF Typed, HandlerOK, HasRow, LatePcs
  <2> QED
    BY <2>1, <2>2, <2>3, <2>4 DEF Entries, LatePcs
<1> QED
  BY <1>1, <1>2

LEMMA CatchesFollows == Typed /\ BoardCatchesUp => BoardFollows
<1> SUFFICES ASSUME Typed, BoardCatchesUp PROVE BoardFollows
  OBVIOUS
<1> QED
  BY DEF BoardCatchesUp, BoardFollows, Rewriting, Handling

-----------------------------------------------------------------------------
(* Orderly behaviours.                                                     *)

LEMMA InitCalm == Init => Calm
<1> SUFFICES ASSUME Init PROVE Calm
  OBVIOUS
<1>1. State
  BY DEF Init, State, OnePlace, OneOpen, HasOpen, CarIsIn, OwnRecord, Known, PaidRecorded, Settled, PaidBoard,
         NoRecord
<1>2. \A g, h \in Handlers : Rules(g) /\ Apart(g, h)
  BY DEF Init, Rules, ReadRule, EntryRule, ExitRule, PayRule, Apart, EntryPcs, ExitPcs, LatePcs, OutPcs, PayPcs,
         MarkPcs
<1> QED
  BY <1>1, <1>2 DEF Calm

\* Of the handlers that read the car of a plate, one is at work.
LEMMA OneReader ==
  ASSUME Typed, Calm, NEW g \in Handlers, NEW h \in Handlers,
         pc[g] \in EntryPcs \cup ExitPcs, pc[h] \in EntryPcs \cup ExitPcs,
         PlateOf(spot[g]) = PlateOf(spot[h])
  PROVE  g = h
<1>1. spot[g] \in Spots /\ spot[h] \in Spots
  BY DEF Typed, HandlerOK
<1>2. car[spot[g]] = g /\ car[spot[h]] = h /\ g # "away" /\ h # "away"
  BY ParkingAssumption DEF Calm, Rules, ReadRule
<1> QED
  BY <1>1, <1>2 DEF Calm, State, OnePlace

\* A handler that goes on stays apart from the others.
LEMMA ApartStep ==
  ASSUME Typed, Calm, Kept, NEW h \in Handlers, Others(h),
         pc'[h] \in PayPcs => pc[h] \in PayPcs /\ visit'[h] = visit[h],
         pc'[h] \in EntryPcs => pc[h] \in EntryPcs /\ spot'[h] = spot[h],
         pc'[h] \in MarkPcs => pc[h] \in MarkPcs
  PROVE  \A f, g \in Handlers : Apart(f, g)'
<1> SUFFICES ASSUME NEW f \in Handlers, NEW g \in Handlers PROVE Apart(f, g)'
  OBVIOUS
<1>1. ASSUME NEW k \in Handlers
      PROVE  /\ pc'[k] \in PayPcs => pc[k] \in PayPcs /\ visit'[k] = visit[k]
             /\ pc'[k] \in EntryPcs => pc[k] \in EntryPcs /\ spot'[k] = spot[k]
             /\ pc'[k] \in MarkPcs => pc[k] \in MarkPcs
  BY DEF Others
<1>2. ASSUME NEW k \in Handlers, pc'[k] \in MarkPcs
      PROVE  PlateAt(visit[k])' = PlateAt(visit[k])
  <2>1. pc[k] \in PayPcs /\ visit'[k] = visit[k]
    BY <1>1, <1>2 DEF MarkPcs, PayPcs
  <2>2. visit[k] \in Visits /\ place'[visit[k]] = place[visit[k]]
    BY <2>1 DEF Typed, TypeOK, HandlerOK, Kept
  <2> QED
    BY <2>1, <2>2 DEF PlateAt
<1>3. Apart(f, g)
  BY DEF Calm
<1> QED
  BY <1>1, <1>2, <1>3 DEF Apart, MarkPcs, PayPcs

\* What a step that changes no table, and of the board at most loses a record, does to
\* the other handlers.
LEMMA RulesStay ==
  ASSUME Typed, NEW g \in Handlers, Rules(g), UNCHANGED <<status, place, told, recorded, car>>,
         \A s \in Spots : board'[s] = board[s] \/ board'[s] = NoRecord,
         pc'[g] = pc[g], spot'[g] = spot[g], visit'[g] = visit[g], payment'[g] = payment[g], copy'[g] = copy[g]
  PROVE  Rules(g)'
<1>1. ReadRule(g)'
  BY DEF Rules, ReadRule
<1>2. EntryRule(g)'
  BY DEF Rules, EntryRule, Known, PlateAt, Own, Typed, HandlerOK, HasRow, LatePcs
<1>3. ExitRule(g)'
  BY DEF Rules, ExitRule, Settled, Known
<1>4. PayRule(g)'
  <2>1. pc[g] \in MarkPcs => visit[g] \in Visits /\ place[visit[g]] \in Spots
    BY DEF Typed, TypeOK, HandlerOK, MarkPcs, PayPcs
  <2> QED
    BY <2>1 DEF Rules, PayRule, Settled, HasOpen, PlateAt, Own
<1> QED
  BY <1>1, <1>2, <1>3, <1>4 DEF Rules

LEMMA StateStays ==
  ASSUME Typed, State, UNCHANGED <<status, place, told, recorded, car>>,
         \A s \in Spots : board'[s] = board[s] \/ board'[s] = NoRecord
  PROVE  State'
<1>1. OnePlace' /\ OneOpen' /\ CarIsIn' /\ PaidRecorded'
  BY DEF State, OnePlace, OneOpen, HasOpen, PlateAt, CarIsIn, Known, PaidRecorded, Settled
<1>2. OwnRecord'
  <2>1. ASSUME NEW v \in Visits, Known(v)
        PROVE  Own(place[v], v)'
    BY <2>1 DEF State, OwnRecord, Known, Own, Typed
  <2> QED
    BY <2>1 DEF OwnRecord, Known
<1>3. PaidBoard'
  BY DEF State, PaidBoard, Settled, NoRecord
<1> QED
  BY <1>1, <1>2, <1>3 DEF State

LEMMA LocalCalm ==
  ASSUME Typed, Calm, UNCHANGED <<status, place, told, recorded, car>>,
         \A s \in Spots : board'[s] = board[s] \/ board'[s] = NoRecord,
         NEW h \in Handlers, Others(h), Rules(h)', \A f, g \in Handlers : Apart(f, g)'
  PROVE  Calm'
<1>1. \A g \in Handlers : Rules(g)'
  BY RulesStay DEF Calm, Others
<1>2. State'
  BY StateStays DEF Calm
<1> QED
  BY <1>1, <1>2 DEF Calm

LEMMA SiteCalm ==
  ASSUME Typed, Calm,
         \/ \E s \in Spots : PreRegister(s) \/ LoseKey(s) \/ DriveOut(s)
         \/ GateShuts
  PROVE  Calm'
<1> USE DEF dbVars, redisVars, histVars, siteVars
<1>1. UNCHANGED <<status, place, told, recorded, pc, spot, visit, payment, copy>>
  BY OtherFrame, SiteFrame
<1>2. \A s \in Spots : board'[s] = board[s] \/ board'[s] = NoRecord
  BY DEF PreRegister, LoseKey, DriveOut, GateShuts, Typed, TypeOK
<1>3. \A f, g \in Handlers : Apart(f, g)'
  BY <1>1 DEF Calm, Apart, PlateAt
<1>4. CASE UNCHANGED car
  <2>1. \A g \in Handlers : Rules(g)'
    BY <1>1, <1>2, <1>4, RulesStay DEF Calm
  <2> QED
    BY <1>1, <1>2, <1>3, <1>4, <2>1, StateStays DEF Calm
<1>5. ASSUME NEW s \in Spots, DriveOut(s)
      PROVE  Calm'
  <2>1. /\ UNCHANGED board /\ car[s] = "opened" /\ car' = [car EXCEPT ![s] = "away"]
    BY <1>5 DEF DriveOut
  <2>2. \A t \in Spots : t # s => car'[t] = car[t]
    BY <2>1 DEF Typed, TypeOK
  <2>3. \A g \in Handlers : pc[g] \in EntryPcs \cup ExitPcs => spot[g] \in Spots /\ spot[g] # s
    BY <2>1, ParkingAssumption DEF Calm, Rules, ReadRule, Typed, HandlerOK
  <2>4. \A g \in Handlers : ReadRule(g)'
    BY <1>1, <2>2, <2>3 DEF Calm, Rules, ReadRule
  <2>5. \A g \in Handlers : Rules(g)'
    BY <1>1, <2>1, <2>4 DEF Calm, Rules, EntryRule, ExitRule, PayRule, Known, PlateAt, Own, Settled, HasOpen
  <2>6. OnePlace'
    BY <2>1, <2>2 DEF Calm, State, OnePlace, Typed, TypeOK
  <2>7. CarIsIn'
    <3>1. ASSUME NEW v \in Visits, Known(v)
          PROVE  place[v] \in Spots /\ place[v] # s /\ car[place[v]] \notin {"away", "opened"}
      BY <2>1, <3>1 DEF Calm, State, CarIsIn, Known, Typed
    <3> QED
      BY <1>1, <2>2, <3>1 DEF CarIsIn, Known
  <2>8. OneOpen' /\ OwnRecord' /\ PaidRecorded' /\ PaidBoard'
    BY <1>1, <2>1 DEF Calm, State, OneOpen, HasOpen, PlateAt, OwnRecord, Known, Own, PaidRecorded, Settled,
         PaidBoard
  <2> QED
    BY <1>3, <2>5, <2>6, <2>7, <2>8 DEF Calm, State
<1>6. UNCHANGED car \/ \E s \in Spots : DriveOut(s)
  BY DEF PreRegister, LoseKey, GateShuts
<1> QED
  BY <1>4, <1>5, <1>6

\* The steps that change no table: no answer, a handler that goes on, a record lost.
LEMMA PassingCalm ==
  ASSUME Typed, Typed', Entries, Calm, NEW h \in Handlers, Proceed(h) \/ Crash(h),
         UNCHANGED <<status, place, told, recorded, car>>,
         \A s \in Spots : board'[s] = board[s] \/ board'[s] = NoRecord,
         pc'[h] = "idle" \/ pc[h] \notin {"entry_board", "entry_create", "pay_save", "pay_mark", "pay_write"}
  PROVE  Calm'
<1>1. Others(h) /\ Trans(h)
  BY ProceedTrans
<1>2. CASE pc'[h] = "idle"
  <2>1. Rules(h)'
    BY <1>2 DEF Rules, ReadRule, EntryRule, ExitRule, PayRule, EntryPcs, ExitPcs, LatePcs, OutPcs, MarkPcs
  <2>2. \A f, g \in Handlers : Apart(f, g)'
    BY <1>1, <1>2, ApartStep DEF Kept, PayPcs, EntryPcs, MarkPcs
  <2> QED
    BY <1>1, <2>1, <2>2, LocalCalm
<1>3. CASE /\ Same(h)
           /\ \/ pc[h] = "entry_look" /\ pc'[h] = "entry_create"
              \/ pc[h] = "entry_reg" /\ pc'[h] = "entry_consume"
              \/ pc[h] = "entry_consume" /\ pc'[h] = "entry_webhook"
  <2>1. Rules(h)
    BY DEF Calm
  <2>2. ReadRule(h)' /\ ExitRule(h)' /\ PayRule(h)'
    BY <1>3, <2>1 DEF Same, Rules, ReadRule, EntryPcs, ExitPcs, ExitRule, OutPcs, PayRule, MarkPcs
  <2>3. EntryRule(h)'
    BY <1>3, <2>1 DEF Same, Rules, EntryRule, Known, PlateAt, Own, Typed, HandlerOK, EntryPcs, LatePcs
  <2>4. \A f, g \in Handlers : Apart(f, g)'
    BY <1>1, <1>3, ApartStep DEF Kept, PayPcs, EntryPcs, MarkPcs, Same
  <2> QED
    BY <1>1, <2>2, <2>3, <2>4, LocalCalm DEF Rules
<1>4. CASE Same(h) /\ pc[h] = "pay_look" /\ pc'[h] = "pay_save"
  <2>1. PICK v \in Visits : v = visit[h] /\ v \in told /\ payment[h] \in Payments
    BY <1>4 DEF Typed, TypeOK, HandlerOK, PayPcs
  <2>2. PayLook(h)
    BY <1>4, NotElsewhere, LeaveIs, TypedLocal DEF Crash
  <2>3. <<v, payment[h]>> \notin recorded
    BY <1>4, <2>1, <2>2 DEF PayLook, Leave, Goto, Typed, TypeOK
  <2>4. \A q \in Payments : <<v, q>> \notin recorded
    BY <1>4, <2>1, <2>3 DEF Calm, Rules, PayRule
  <2>5. status[v] = "active" /\ Known(v) /\ HasOpen(v) /\ place[v] \in Spots
    BY <2>1, <2>4 DEF Calm, State, PaidRecorded, Settled, Known, HasOpen, Typed, TypeOK
  <2>6. \A u \in Visits : HasOpen(u) /\ PlateAt(u) = PlateAt(v) => u = v
    BY <2>5 DEF Calm, State, OneOpen
  <2>7. PayRule(h)'
    <3>1. Own(place[v], v)'
      BY <2>5 DEF Calm, State, OwnRecord, Own
    <3>2. \A u \in Visits : HasOpen(u)' /\ PlateAt(u)' = PlateAt(v)' => u = v
      BY <2>6 DEF HasOpen, PlateAt
    <3> QED
      BY <1>4, <2>1, <2>4, <2>5, <3>1, <3>2 DEF PayRule, Same, MarkPcs
  <2>8. ReadRule(h)' /\ EntryRule(h)' /\ ExitRule(h)'
    BY <1>4 DEF ReadRule, EntryRule, ExitRule, EntryPcs, ExitPcs, LatePcs, OutPcs
  <2>9. ASSUME NEW g \in Handlers, pc[g] \in EntryPcs
        PROVE  PlateOf(spot[g]) # PlateAt(v)
    <3>1. CASE pc[g] \in {"entry_look", "entry_create"}
      BY <2>5, <3>1 DEF Calm, Rules, EntryRule
    <3>2. CASE pc[g] \in LatePcs
      <4>1. HasRow(visit[g], spot[g]) /\ visit[g] # v /\ status[visit[g]] = "active"
        BY <2>1, <3>2 DEF Typed, HandlerOK, Entries, Calm, Rules, EntryRule
      <4> QED
        BY <2>6, <4>1 DEF HasRow, HasOpen, PlateAt
    <3> QED
      BY <2>9, <3>1, <3>2 DEF EntryPcs, LatePcs
  <2>10. ASSUME NEW g \in Handlers, g # h
         PROVE  /\ pc[g] \in PayPcs => visit[g] # v
                /\ pc[g] \in MarkPcs => PlateAt(visit[g]) # PlateAt(v)
    <3>1. pc[g] \in PayPcs => visit[g] # v
      BY <1>4, <2>1, <2>10 DEF Calm, Apart, PayPcs
    <3>2. pc[g] \in MarkPcs => PlateAt(visit[g]) # PlateAt(v)
      BY <2>5, <3>1 DEF Calm, Rules, PayRule, MarkPcs, PayPcs
    <3> QED
      BY <3>1, <3>2
  <2>11. ASSUME NEW f \in Handlers, NEW g \in Handlers
         PROVE  Apart(f, g)'
    <3>1. \A k \in Handlers : k # h => pc'[k] = pc[k] /\ spot'[k] = spot[k] /\ visit'[k] = visit[k]
      BY <1>1 DEF Others
    <3>2. pc'[h] = "pay_save" /\ visit'[h] = v
      BY <1>4, <2>1 DEF Same
    <3>3. CASE f # h /\ g # h
      BY <3>1, <3>3 DEF Calm, Apart, PlateAt
    <3>4. CASE f = h /\ g # h
      BY <2>10, <3>1, <3>2, <3>4 DEF Apart, PlateAt, EntryPcs
    <3>5. CASE f # h /\ g = h
      BY <2>9, <2>10, <3>1, <3>2, <3>5 DEF Apart, PlateAt
    <3>6. CASE f = h /\ g = h
      BY <3>2, <3>6 DEF Apart, EntryPcs
    <3> QED
      BY <3>3, <3>4, <3>5, <3>6
  <2> QED
    BY <1>1, <2>7, <2>8, <2>11, LocalCalm DEF Rules
<1>5. CASE /\ pc[h] = "pay_read" /\ pc'[h] \in {"pay_open", "pay_write"}
           /\ spot'[h] = spot[h] /\ visit'[h] = visit[h] /\ payment'[h] = payment[h]
           /\ copy'[h] = board[spot[h]].visit
  <2>1. HasRow(visit[h], spot[h]) /\ Own(spot[h], visit[h])
    BY <1>5 DEF Typed, HandlerOK, HasRow, Calm, Rules, PayRule, MarkPcs
  <2>2. pc'[h] = "pay_write" => copy'[h] = visit[h]
    <3>1. HandlerOK(h)'
      BY DEF Typed
    <3>2. pc'[h] = "pay_write" => copy'[h] \in Visits
      BY <3>1 DEF HandlerOK, HasRow
    <3> QED
      BY <1>5, <2>1, <3>2, ParkingAssumption DEF Own, NoRecord
  <2>3. PayRule(h)'
    BY <1>5, <2>2 DEF Calm, Rules, PayRule, MarkPcs, Settled, HasOpen, PlateAt
  <2>4. ReadRule(h)' /\ EntryRule(h)' /\ ExitRule(h)'
    BY <1>5 DEF ReadRule, EntryRule, ExitRule, EntryPcs, ExitPcs, LatePcs, OutPcs
  <2>5. \A f, g \in Handlers : Apart(f, g)'
    BY <1>1, <1>5, ApartStep DEF Kept, PayPcs, EntryPcs, MarkPcs
  <2> QED
    BY <1>1, <2>3, <2>4, <2>5, LocalCalm DEF Rules
<1>6. CASE /\ pc[h] \in ExitPcs /\ pc'[h] \in ExitPcs /\ spot'[h] = spot[h]
           /\ pc'[h] \in OutPcs =>
                /\ Settled(visit'[h])
                /\ \A v \in Visits : Known(v) /\ place[v] = spot[h] => v = visit'[h]
  <2>1. ReadRule(h)' /\ ExitRule(h)'
    BY <1>6 DEF Calm, Rules, ReadRule, ExitRule, Settled, Known
  <2>2. EntryRule(h)' /\ PayRule(h)'
    BY <1>6 DEF EntryRule, PayRule, ExitPcs, LatePcs, MarkPcs
  <2>3. \A f, g \in Handlers : Apart(f, g)'
    BY <1>1, <1>6, ApartStep DEF Kept, PayPcs, EntryPcs, MarkPcs, ExitPcs
  <2> QED
    BY <1>1, <2>1, <2>2, <2>3, LocalCalm DEF Rules
<1>7. CASE Same(h) /\ pc[h] = "exit_look" /\ pc'[h] = "exit_db"
  BY <1>6, <1>7 DEF Same, ExitPcs, OutPcs
<1>8. CASE /\ Same(h)
           /\ \/ pc[h] = "exit_open" /\ pc'[h] = "exit_delete"
              \/ pc[h] \in {"exit_open_db", "exit_delete"} /\ pc'[h] = "exit_mark"
  BY <1>6, <1>8 DEF Same, ExitPcs, OutPcs, Calm, Rules, ExitRule
<1>9. CASE /\ pc[h] = "exit_look" /\ pc'[h] = "exit_open" /\ spot'[h] = spot[h]
           /\ visit'[h] = board[spot[h]].visit /\ board[spot[h]].status = "paid"
  <2>1. spot[h] \in Spots
    BY <1>9 DEF Typed, HandlerOK, ExitPcs
  <2>2. Settled(visit'[h])
    BY <1>9, <2>1 DEF Calm, State, PaidBoard
  <2>3. \A v \in Visits : Known(v) /\ place[v] = spot[h] => v = visit'[h]
    BY <1>9 DEF Calm, State, OwnRecord, Own, NoRecord
  <2> QED
    BY <1>6, <1>9, <2>2, <2>3 DEF ExitPcs
<1>10. CASE /\ pc[h] = "exit_db" /\ pc'[h] = "exit_open_db" /\ spot'[h] = spot[h]
            /\ visit'[h] \in PaidAt(spot[h])
  <2>1. PICK u \in Visits : u = visit'[h] /\ status[u] = "paid" /\ place[u] = spot[h]
    BY <1>10 DEF PaidAt
  <2>2. \A v \in Visits : Known(v) /\ place[v] = spot[h] => v = u
    BY <2>1 DEF Calm, State, OneOpen, HasOpen, Known, PlateAt
  <2> QED
    BY <1>6, <1>10, <2>1, <2>2 DEF ExitPcs, Settled
<1> QED
  BY <1>1, <1>2, <1>3, <1>4, <1>5, <1>7, <1>8, <1>9, <1>10 DEF Trans

\* A car is read.
LEMMA ReadingCalm ==
  ASSUME Typed, Calm, UNCHANGED <<status, place, told, recorded, board>>,
         NEW h \in Handlers, Others(h), NEW s \in Spots, car' = [car EXCEPT ![s] = h],
         pc'[h] \in {"entry_look", "exit_look"}, spot'[h] = s,
         \A g \in Handlers : pc[g] \in EntryPcs \cup ExitPcs => spot[g] # s,
         OnePlace', EntryRule(h)', \A f, g \in Handlers : Apart(f, g)'
  PROVE  Calm'
<1>1. car'[s] = h /\ \A t \in Spots : t # s => car'[t] = car[t]
  BY DEF Typed, TypeOK
<1>2. ASSUME NEW g \in Handlers, g # h
      PROVE  Rules(g)'
  <2>1. Rules(g) /\ (pc[g] \in EntryPcs \cup ExitPcs => spot[g] \in Spots)
    BY DEF Calm, Typed, HandlerOK
  <2>2. /\ pc'[g] = pc[g] /\ spot'[g] = spot[g] /\ visit'[g] = visit[g]
        /\ payment'[g] = payment[g] /\ copy'[g] = copy[g]
    BY <1>2 DEF Others
  <2>3. ReadRule(g)'
    BY <1>1, <2>1, <2>2 DEF Rules, ReadRule
  <2>4. EntryRule(g)' /\ ExitRule(g)' /\ PayRule(g)'
    BY <2>1, <2>2 DEF Rules, EntryRule, ExitRule, PayRule, Known, PlateAt, Own, Settled, HasOpen
  <2> QED
    BY <2>3, <2>4 DEF Rules
<1>3. Rules(h)'
  BY <1>1 DEF Rules, ReadRule, ExitRule, PayRule, OutPcs, MarkPcs
<1>4. CarIsIn'
  <2>1. \A v \in Visits : Known(v) => place[v] \in Spots /\ car[place[v]] \notin {"away", "opened"}
    BY DEF Calm, State, CarIsIn, Known, Typed
  <2> QED
    BY <1>1, <2>1, ParkingAssumption DEF CarIsIn, Known
<1>5. OneOpen' /\ OwnRecord' /\ PaidRecorded' /\ PaidBoard'
  BY DEF Calm, State, OneOpen, HasOpen, PlateAt, OwnRecord, Known, Own, PaidRecorded, Settled, PaidBoard
<1> QED
  BY <1>2, <1>3, <1>4, <1>5 DEF Calm, State

LEMMA EntryBeginCalm ==
  ASSUME Typed, Calm, Orderly, NEW h \in Handlers, NEW s \in Spots, EntryBegin(h, s)
  PROVE  Calm'
<1> USE DEF dbVars, redisVars, histVars
<1>1. /\ Others(h) /\ pc[h] = "idle" /\ pc'[h] = "entry_look" /\ spot'[h] = s
  BY TypedLocal, BeginIs DEF EntryBegin, EntryPcs
<1>2. /\ \A t \in Spots : PlateOf(t) = PlateOf(s) => car[t] = "away"
      /\ ~Busy(PlateOf(s))
      /\ car' = [car EXCEPT ![s] = h]
      /\ UNCHANGED <<status, place, told, recorded, board>>
  BY DEF EntryBegin, Orderly
<1>3. \A g \in Handlers : pc[g] \in EntryPcs \cup ExitPcs => spot[g] # s
  BY <1>2 DEF Busy
<1>4. OnePlace'
  BY <1>2 DEF Calm, State, OnePlace, Typed, TypeOK
<1>5. EntryRule(h)'
  <2>1. \A v \in Visits : Known(v) => PlateAt(v) # PlateOf(s)
    BY <1>2 DEF Calm, State, CarIsIn, Known, Typed, PlateAt
  <2> QED
    BY <1>1, <1>2, <2>1 DEF EntryRule, Known, PlateAt, LatePcs
<1>6. ASSUME NEW g \in Handlers, pc[g] \in MarkPcs
      PROVE  visit[g] \in Visits /\ PlateAt(visit[g]) # PlateOf(s)
  BY <1>2, <1>6 DEF Busy, Typed, TypeOK, HandlerOK, MarkPcs, PayPcs, PlateAt
<1>7. ASSUME NEW f \in Handlers, NEW g \in Handlers
      PROVE  Apart(f, g)'
  <2>1. Apart(f, g) /\ \A k \in Handlers : k # h => pc'[k] = pc[k] /\ spot'[k] = spot[k] /\ visit'[k] = visit[k]
    BY <1>1 DEF Calm, Others
  <2> QED
    BY <1>1, <1>2, <1>6, <2>1 DEF Apart, PlateAt, PayPcs, MarkPcs
<1> QED
  BY <1>1, <1>2, <1>3, <1>4, <1>5, <1>7, ReadingCalm

LEMMA ExitBeginCalm ==
  ASSUME Typed, Calm, Orderly, NEW h \in Handlers, NEW s \in Spots, ExitBegin(h, s)
  PROVE  Calm'
<1> USE DEF dbVars, redisVars, histVars
<1>1. Others(h) /\ pc[h] = "idle" /\ pc'[h] = "exit_look" /\ spot'[h] = s
  BY TypedLocal, BeginIs DEF ExitBegin, ExitPcs
<1>2. /\ car[s] \notin {"away", "opened"} /\ ~Waiting(s)
      /\ car' = [car EXCEPT ![s] = h]
      /\ UNCHANGED <<status, place, told, recorded, board>>
  BY DEF ExitBegin, Orderly
<1>3. \A g \in Handlers : pc[g] \in EntryPcs \cup ExitPcs => spot[g] # s
  BY <1>2 DEF Waiting, Calm, Rules, ReadRule
<1>4. OnePlace'
  BY <1>2 DEF Calm, State, OnePlace, Typed, TypeOK
<1>5. EntryRule(h)'
  BY <1>1 DEF EntryRule, LatePcs
<1>6. \A f, g \in Handlers : Apart(f, g)'
  BY <1>1, <1>2, ApartStep DEF Kept, PayPcs, EntryPcs, MarkPcs
<1> QED
  BY <1>1, <1>2, <1>3, <1>4, <1>5, <1>6, ReadingCalm

LEMMA PayBeginCalm ==
  ASSUME Typed, Calm, Orderly, NEW h \in Handlers, NEW v \in Visits, NEW p \in Payments, PayBegin(h, v, p)
  PROVE  Calm'
<1> USE DEF dbVars, redisVars, histVars, siteVars
<1>1. /\ Others(h) /\ pc[h] = "idle" /\ pc'[h] = "pay_look"
      /\ visit'[h] = v /\ payment'[h] = p
  BY TypedLocal, BeginIs DEF PayBegin, PayPcs
<1>2. /\ UNCHANGED <<status, place, told, recorded, car, board>>
      /\ \A g \in Handlers : ~(pc[g] \in PayPcs /\ visit[g] = v /\ payment[g] = p)
      /\ \A q \in Payments \ {p} : \A g \in Handlers :
           <<v, q>> \notin recorded /\ ~(pc[g] \in PayPcs /\ visit[g] = v /\ payment[g] = q)
  BY DEF PayBegin, Orderly
<1>3. PayRule(h)'
  BY <1>1, <1>2 DEF PayRule, MarkPcs
<1>4. ReadRule(h)' /\ EntryRule(h)' /\ ExitRule(h)'
  BY <1>1 DEF ReadRule, EntryRule, ExitRule, EntryPcs, ExitPcs, LatePcs, OutPcs
<1>5. \A g \in Handlers : pc[g] \in PayPcs => visit[g] # v
  BY <1>2 DEF Typed, HandlerOK
<1>6. ASSUME NEW f \in Handlers, NEW g \in Handlers
      PROVE  Apart(f, g)'
  <2>1. Apart(f, g) /\ \A k \in Handlers : k # h => pc'[k] = pc[k] /\ spot'[k] = spot[k] /\ visit'[k] = visit[k]
    BY <1>1 DEF Calm, Others
  <2> QED
    BY <1>1, <1>2, <1>5, <2>1 DEF Apart, PlateAt, EntryPcs, MarkPcs
<1> QED
  BY <1>1, <1>2, <1>3, <1>4, <1>6, LocalCalm DEF Rules

\* The entry.
LEMMA EntryCreateCalm ==
  ASSUME Typed, Calm, NEW h \in Handlers, Others(h), NEW v \in Visits, EntryCreate(h),
         pc[h] = "entry_create", pc'[h] = "entry_board", spot'[h] = spot[h], visit'[h] = v,
         status[v] = "none", status' = [status EXCEPT ![v] = "active"],
         place' = [place EXCEPT ![v] = spot[h]], ActiveOf(PlateOf(spot[h])) = {}
  PROVE  Calm'
<1>1. UNCHANGED <<recorded, board, told, car>>
  BY DEF EntryCreate, redisVars, histVars, siteVars
<1>2. /\ status'[v] = "active" /\ place'[v] = spot[h] /\ v \notin told
      /\ \A u \in Visits : u # v => status'[u] = status[u] /\ place'[u] = place[u]
  BY DEF Typed, TypeOK
<1>3. \A u \in Visits : /\ Known(u)' <=> Known(u)
                        /\ Known(u) => u # v /\ place'[u] = place[u]
                        /\ Settled(u)' <=> Settled(u)
                        /\ HasOpen(u)' => HasOpen(u) \/ u = v
  BY <1>1, <1>2 DEF Known, Settled, HasOpen
<1>4. \A u \in Visits : HasOpen(u) => PlateAt(u) # PlateOf(spot[h])
  <2>1. \A u \in Visits : status[u] = "active" => PlateAt(u) # PlateOf(spot[h])
    BY DEF ActiveOf, PlateAt
  <2>2. \A u \in Visits : status[u] = "paid" => PlateAt(u) # PlateOf(spot[h])
    BY DEF Calm, Rules, EntryRule, Known
  <2> QED
    BY <2>1, <2>2 DEF HasOpen
<1>5. OneOpen'
  BY <1>2, <1>3, <1>4 DEF Calm, State, OneOpen, PlateAt
<1>6. OnePlace' /\ CarIsIn' /\ OwnRecord'
  BY <1>1, <1>3 DEF Calm, State, OnePlace, CarIsIn, OwnRecord, Own
<1>7. PaidRecorded' /\ PaidBoard'
  <2>1. \A s \in Spots : board[s].status = "paid" => board[s].visit \in Visits
    BY DEF Typed, Shown, HasRow, NoRecord
  <2> QED
    BY <1>1, <1>3, <2>1 DEF Calm, State, PaidRecorded, PaidBoard
<1>8. ASSUME NEW g \in Handlers, g # h
      PROVE  Rules(g)'
  <2>1. /\ pc'[g] = pc[g] /\ spot'[g] = spot[g] /\ visit'[g] = visit[g]
        /\ payment'[g] = payment[g] /\ copy'[g] = copy[g]
    BY <1>8 DEF Others
  <2>2. Rules(g) /\ Apart(h, g) /\ HandlerOK(g)
    BY DEF Calm, Typed
  <2>3. pc[g] \in LatePcs \cup OutPcs \cup PayPcs => visit[g] \in Visits /\ visit[g] # v
    BY <1>2, <2>2 DEF HandlerOK, HasRow, Typed, TypeOK
  <2>4. ReadRule(g)' /\ EntryRule(g)'
    BY <1>1, <1>2, <1>3, <2>1, <2>2, <2>3 DEF Rules, ReadRule, EntryRule, Own, PlateAt
  <2>5. ExitRule(g)'
    BY <1>3, <2>1, <2>2, <2>3 DEF Rules, ExitRule
  <2>6. PayRule(g)'
    <3>1. pc[g] \in MarkPcs => pc[g] \in PayPcs
      BY DEF MarkPcs, PayPcs
    <3>2. pc[g] \in MarkPcs => PlateAt(v)' # PlateAt(visit[g])'
      BY <1>2, <2>1, <2>2, <2>3, <3>1 DEF Apart, PlateAt, EntryPcs
    <3>3. pc[g] \in MarkPcs =>
            \A u \in Visits : HasOpen(u)' /\ PlateAt(u)' = PlateAt(visit[g])' => u = visit[g]
      BY <1>2, <1>3, <2>1, <2>2, <2>3, <3>1, <3>2 DEF Rules, PayRule, PlateAt
    <3> QED
      BY <1>1, <1>2, <1>3, <2>1, <2>2, <2>3, <3>1, <3>3 DEF Rules, PayRule, Own, MarkPcs, PayPcs
  <2> QED
    BY <2>4, <2>5, <2>6 DEF Rules
<1>9. Rules(h)'
  BY <1>1, <1>2 DEF Calm, Rules, ReadRule, EntryRule, ExitRule, PayRule, EntryPcs, LatePcs, OutPcs, MarkPcs
<1>10. \A f, g \in Handlers : Apart(f, g)'
  BY <1>1, <1>2, ApartStep DEF Kept, PayPcs, EntryPcs, MarkPcs
<1> QED
  BY <1>5, <1>6, <1>7, <1>8, <1>9, <1>10 DEF Calm, State

LEMMA EntryBoardCalm ==
  ASSUME Typed, Entries, Calm, NEW h \in Handlers, EntryBoard(h)
  PROVE  Calm'
<1>1. /\ Others(h) /\ pc[h] = "entry_board" /\ pc'[h] = "entry_reg"
      /\ spot'[h] = spot[h] /\ visit'[h] = visit[h]
  BY TypedLocal, GotoIs DEF EntryBoard, EntryPcs
<1>2. PICK s \in Spots, v \in Visits : /\ s = spot[h] /\ v = visit[h] /\ place[v] = s
                                       /\ status[v] = "active" /\ v \notin told
  BY <1>1 DEF Typed, HandlerOK, HasRow, LatePcs, Entries, Calm, Rules, EntryRule
<1>3. /\ UNCHANGED <<status, place, told, recorded, car>>
      /\ board'[s] = [visit |-> v, status |-> "active"]
      /\ \A t \in Spots : t # s => board'[t] = board[t]
  BY <1>2 DEF EntryBoard, dbVars, histVars, siteVars, Typed, TypeOK
<1>4. \A u \in Visits : Known(u) => place[u] # s
  BY <1>2 DEF Calm, State, OneOpen, HasOpen, Known, PlateAt
<1>5. OwnRecord'
  <2>1. \A u \in Visits : Known(u) => place[u] \in Spots
    BY DEF Known, Typed
  <2> QED
    BY <1>3, <1>4, <2>1 DEF Calm, State, OwnRecord, Own, Known
<1>6. PaidBoard'
  BY <1>3 DEF Calm, State, PaidBoard, Settled
<1>7. OnePlace' /\ OneOpen' /\ CarIsIn' /\ PaidRecorded'
  BY <1>3 DEF Calm, State, OnePlace, OneOpen, HasOpen, PlateAt, CarIsIn, Known, PaidRecorded, Settled
<1>8. ASSUME NEW g \in Handlers, g # h
      PROVE  Rules(g)'
  <2>1. /\ pc'[g] = pc[g] /\ spot'[g] = spot[g] /\ visit'[g] = visit[g]
        /\ payment'[g] = payment[g] /\ copy'[g] = copy[g]
    BY <1>1, <1>8 DEF Others
  <2>2. Rules(g) /\ Apart(h, g) /\ HandlerOK(g)
    BY DEF Calm, Typed
  <2>3. pc[g] \in EntryPcs => spot[g] \in Spots /\ spot[g] # s
    BY <1>1, <1>2, <1>8, <2>2, OneReader DEF HandlerOK, EntryPcs
  <2>4. pc[g] \in MarkPcs => place[visit[g]] \in Spots /\ place[visit[g]] # s
    BY <1>1, <1>2, <2>2 DEF Apart, PlateAt, EntryPcs, HandlerOK, MarkPcs, PayPcs, Typed, TypeOK
  <2>5. ReadRule(g)' /\ EntryRule(g)'
    BY <1>3, <2>1, <2>2, <2>3 DEF Rules, ReadRule, EntryRule, Own, PlateAt, Known, EntryPcs, LatePcs
  <2>6. ExitRule(g)' /\ PayRule(g)'
    BY <1>3, <2>1, <2>2, <2>4 DEF Rules, ExitRule, PayRule, Own, PlateAt, Known, HasOpen, Settled
  <2> QED
    BY <2>5, <2>6 DEF Rules
<1>9. Rules(h)'
  <2>1. Own(s, v)'
    BY <1>3 DEF Own
  <2>2. EntryRule(h)'
    BY <1>1, <1>2, <1>3, <2>1 DEF EntryRule, LatePcs
  <2>3. ReadRule(h)' /\ ExitRule(h)' /\ PayRule(h)'
    BY <1>1, <1>3 DEF Calm, Rules, ReadRule, ExitRule, PayRule, EntryPcs, OutPcs, MarkPcs
  <2> QED
    BY <2>2, <2>3 DEF Rules
<1>10. \A f, g \in Handlers : Apart(f, g)'
  BY <1>1, <1>3, ApartStep DEF Kept, PayPcs, EntryPcs, MarkPcs
<1> QED
  BY <1>5, <1>6, <1>7, <1>8, <1>9, <1>10 DEF Calm, State

LEMMA EntryWebhookCalm ==
  ASSUME Typed, Entries, Calm, NEW h \in Handlers, EntryWebhook(h), told' # told
  PROVE  Calm'
<1>1. Others(h) /\ pc[h] = "entry_webhook" /\ pc'[h] = "idle"
  BY TypedLocal, LeaveIs DEF EntryWebhook
<1>2. PICK s \in Spots, v \in Visits : /\ s = spot[h] /\ v = visit[h] /\ place[v] = s
                                       /\ status[v] = "active" /\ Own(s, v) /\ car[s] = h
  BY <1>1 DEF Typed, HandlerOK, HasRow, EntryPcs, LatePcs, Calm, Rules, EntryRule, ReadRule
<1>3. UNCHANGED <<status, place, recorded, car, board>> /\ told' = told \cup {v}
  BY <1>2 DEF EntryWebhook, dbVars, redisVars, siteVars
<1>4. \A u \in Visits : Known(u)' <=> Known(u) \/ u = v
  BY <1>2, <1>3 DEF Known
<1>5. CarIsIn' /\ OwnRecord'
  BY <1>2, <1>3, <1>4, ParkingAssumption DEF Calm, State, CarIsIn, OwnRecord, Own
<1>6. OnePlace' /\ OneOpen' /\ PaidRecorded' /\ PaidBoard'
  BY <1>3 DEF Calm, State, OnePlace, OneOpen, HasOpen, PlateAt, PaidRecorded, PaidBoard, Settled
<1>7. ASSUME NEW g \in Handlers, g # h
      PROVE  Rules(g)'
  <2>1. /\ pc'[g] = pc[g] /\ spot'[g] = spot[g] /\ visit'[g] = visit[g]
        /\ payment'[g] = payment[g] /\ copy'[g] = copy[g]
    BY <1>1, <1>7 DEF Others
  <2>2. Rules(g) /\ HandlerOK(g)
    BY DEF Calm, Typed
  <2>3. pc[g] \in EntryPcs \cup ExitPcs => PlateOf(spot[g]) # PlateOf(s)
    BY <1>1, <1>2, <1>7, OneReader DEF EntryPcs
  <2>4. ReadRule(g)' /\ EntryRule(g)'
    BY <1>2, <1>3, <1>4, <2>1, <2>2, <2>3 DEF Rules, ReadRule, EntryRule, Own, PlateAt, EntryPcs
  <2>5. ExitRule(g)'
    BY <1>2, <1>3, <1>4, <2>1, <2>2, <2>3 DEF Rules, ExitRule, Settled, OutPcs, ExitPcs
  <2>6. PayRule(g)'
    BY <1>3, <2>1, <2>2 DEF Rules, PayRule, Own, PlateAt, HasOpen, Settled
  <2> QED
    BY <2>4, <2>5, <2>6 DEF Rules
<1>8. Rules(h)'
  BY <1>1 DEF Rules, ReadRule, EntryRule, ExitRule, PayRule, EntryPcs, ExitPcs, LatePcs, OutPcs, MarkPcs
<1>9. \A f, g \in Handlers : Apart(f, g)'
  BY <1>1, <1>3, ApartStep DEF Kept, PayPcs, EntryPcs, MarkPcs
<1> QED
  BY <1>5, <1>6, <1>7, <1>8, <1>9 DEF Calm, State

\* The payment notice.
LEMMA PaySaveCalm ==
  ASSUME Typed, Calm, NEW h \in Handlers, PaySave(h), pc'[h] # "idle"
  PROVE  Calm'
<1>1. /\ Others(h) /\ pc[h] = "pay_save" /\ pc'[h] = "pay_mark"
      /\ visit'[h] = visit[h] /\ payment'[h] = payment[h]
  BY TypedLocal, GotoIs, LeaveIs DEF PaySave, PayPcs
<1>2. /\ UNCHANGED <<status, place, told, car, board>>
      /\ recorded' = recorded \cup {<<visit[h], payment[h]>>}
  BY DEF PaySave, redisVars, histVars, siteVars
<1>3. State'
  BY <1>2 DEF Calm, State, OnePlace, OneOpen, HasOpen, PlateAt, CarIsIn, OwnRecord, Known, Own, PaidRecorded,
       PaidBoard, Settled
<1>4. ASSUME NEW g \in Handlers, g # h
      PROVE  Rules(g)'
  <2>1. /\ pc'[g] = pc[g] /\ spot'[g] = spot[g] /\ visit'[g] = visit[g]
        /\ payment'[g] = payment[g] /\ copy'[g] = copy[g]
    BY <1>1, <1>4 DEF Others
  <2>2. Rules(g) /\ Apart(g, h)
    BY DEF Calm
  <2>3. ReadRule(g)' /\ EntryRule(g)' /\ ExitRule(g)'
    BY <1>2, <2>1, <2>2 DEF Rules, ReadRule, EntryRule, ExitRule, Settled, Known, Own, PlateAt
  <2>4. pc[g] \in PayPcs => visit[g] # visit[h]
    BY <1>1, <1>4, <2>2 DEF Apart, PayPcs
  <2>5. PayRule(g)'
    BY <1>2, <2>1, <2>2, <2>4 DEF Rules, PayRule, Settled, HasOpen, Own, PlateAt, PayPcs
  <2> QED
    BY <2>3, <2>5 DEF Rules
<1>5. Rules(h)'
  <2>1. PayRule(h)'
    BY <1>1, <1>2 DEF Calm, Rules, PayRule, MarkPcs, HasOpen, PlateAt, Own
  <2>2. ReadRule(h)' /\ EntryRule(h)' /\ ExitRule(h)'
    BY <1>1 DEF ReadRule, EntryRule, ExitRule, EntryPcs, ExitPcs, LatePcs, OutPcs
  <2> QED
    BY <2>1, <2>2 DEF Rules
<1>6. \A f, g \in Handlers : Apart(f, g)'
  BY <1>1, <1>2, ApartStep DEF Kept, PayPcs, EntryPcs, MarkPcs
<1> QED
  BY <1>3, <1>4, <1>5, <1>6 DEF Calm

LEMMA PayMarkCalm ==
  ASSUME Typed, Entries, Calm, NEW h \in Handlers, PayMark(h)
  PROVE  Calm'
<1>1. /\ Others(h) /\ pc[h] = "pay_mark" /\ pc'[h] = "pay_read"
      /\ visit'[h] = visit[h] /\ payment'[h] = payment[h]
  BY TypedLocal DEF PayMark, LocalTypes, Others
<1>2. PICK v \in Visits : /\ v = visit[h] /\ v \in told /\ status[v] = "active"
                          /\ \E p \in Payments : <<v, p>> \in recorded
  BY <1>1 DEF Typed, TypeOK, HandlerOK, PayPcs, Calm, Rules, PayRule
<1>3. /\ UNCHANGED <<place, told, recorded, car, board>>
      /\ status'[v] = "paid" /\ \A u \in Visits : u # v => status'[u] = status[u]
  BY <1>2 DEF PayMark, MarkPaid, redisVars, histVars, siteVars, Typed, TypeOK
<1>4. \A u \in Visits : /\ Known(u)' <=> Known(u)
                        /\ HasOpen(u)' <=> HasOpen(u)
                        /\ Settled(u)' <=> Settled(u) \/ u = v
  BY <1>2, <1>3 DEF Known, HasOpen, Settled
<1>5. State'
  <2>1. \A s \in Spots : board[s].status = "paid" => board[s].visit \in Visits
    BY DEF Typed, Shown, HasRow, NoRecord
  <2>2. PaidRecorded' /\ PaidBoard'
    BY <1>2, <1>3, <1>4, <2>1 DEF Calm, State, PaidRecorded, PaidBoard
  <2>3. OnePlace' /\ OneOpen' /\ CarIsIn' /\ OwnRecord'
    BY <1>3, <1>4 DEF Calm, State, OnePlace, OneOpen, CarIsIn, OwnRecord, Own, PlateAt
  <2> QED
    BY <2>2, <2>3 DEF State
<1>6. ASSUME NEW g \in Handlers, g # h
      PROVE  Rules(g)'
  <2>1. /\ pc'[g] = pc[g] /\ spot'[g] = spot[g] /\ visit'[g] = visit[g]
        /\ payment'[g] = payment[g] /\ copy'[g] = copy[g]
    BY <1>1, <1>6 DEF Others
  <2>2. Rules(g) /\ Apart(g, h) /\ HandlerOK(g)
    BY DEF Calm, Typed
  <2>3. /\ pc[g] \in LatePcs => visit[g] \in Visits /\ visit[g] # v
        /\ pc[g] \in PayPcs => visit[g] \in Visits /\ visit[g] # v
        /\ pc[g] \in OutPcs => visit[g] \in Visits
    BY <1>1, <1>2, <1>6, <2>2 DEF Entries, Apart, HandlerOK, HasRow, PayPcs, Typed, TypeOK
  <2>4. ReadRule(g)' /\ EntryRule(g)'
    BY <1>3, <1>4, <2>1, <2>2, <2>3 DEF Rules, ReadRule, EntryRule, Own, PlateAt
  <2>5. ExitRule(g)'
    BY <1>3, <1>4, <2>1, <2>2, <2>3 DEF Rules, ExitRule
  <2>6. PayRule(g)'
    BY <1>3, <1>4, <2>1, <2>2, <2>3 DEF Rules, PayRule, Own, PlateAt, MarkPcs, PayPcs
  <2> QED
    BY <2>4, <2>5, <2>6 DEF Rules
<1>7. Rules(h)'
  <2>1. PayRule(h)'
    BY <1>1, <1>2, <1>3, <1>4 DEF Calm, Rules, PayRule, MarkPcs, PlateAt, Own
  <2>2. ReadRule(h)' /\ EntryRule(h)' /\ ExitRule(h)'
    BY <1>1 DEF ReadRule, EntryRule, ExitRule, EntryPcs, ExitPcs, LatePcs, OutPcs
  <2> QED
    BY <2>1, <2>2 DEF Rules
<1>8. \A f, g \in Handlers : Apart(f, g)'
  BY <1>1, <1>2, <1>3, ApartStep DEF Kept, PayPcs, EntryPcs, MarkPcs
<1> QED
  BY <1>5, <1>6, <1>7, <1>8 DEF Calm

LEMMA PayWriteCalm ==
  ASSUME Typed, Calm, NEW h \in Handlers, PayWrite(h)
  PROVE  Calm'
<1>1. Others(h) /\ pc[h] = "pay_write" /\ pc'[h] = "pay_open" /\ visit'[h] = visit[h]
  BY TypedLocal, GotoIs DEF PayWrite, PayPcs
<1>2. PICK s \in Spots, v \in Visits : s = spot[h] /\ v = visit[h] /\ place[v] = s /\ Settled(v) /\ copy[h] = v
  BY <1>1 DEF Typed, HandlerOK, HasRow, Calm, Rules, PayRule, MarkPcs
<1>3. /\ UNCHANGED <<status, place, told, recorded, car>>
      /\ board'[s] = [visit |-> v, status |-> "paid"]
      /\ \A t \in Spots : t # s => board'[t] = board[t]
  BY <1>2 DEF PayWrite, dbVars, histVars, siteVars, Typed, TypeOK
<1>4. \A u \in Visits : Known(u) => place[u] \in Spots /\ (place[u] = s => u = v)
  BY <1>1, <1>2 DEF Calm, Rules, PayRule, MarkPcs, HasOpen, Known, PlateAt, Typed
<1>5. State'
  <2>1. OwnRecord' /\ PaidBoard'
    BY <1>2, <1>3, <1>4 DEF Calm, State, OwnRecord, Own, Known, PaidBoard, Settled
  <2>2. OnePlace' /\ OneOpen' /\ CarIsIn' /\ PaidRecorded'
    BY <1>3 DEF Calm, State, OnePlace, OneOpen, HasOpen, PlateAt, CarIsIn, Known, PaidRecorded, Settled
  <2> QED
    BY <2>1, <2>2 DEF State
<1>6. ASSUME NEW g \in Handlers, g # h
      PROVE  Rules(g)'
  <2>1. /\ pc'[g] = pc[g] /\ spot'[g] = spot[g] /\ visit'[g] = visit[g]
        /\ payment'[g] = payment[g] /\ copy'[g] = copy[g]
    BY <1>1, <1>6 DEF Others
  <2>2. Rules(g) /\ Apart(g, h) /\ HandlerOK(g)
    BY DEF Calm, Typed
  <2>3. pc[g] \in EntryPcs => spot[g] \in Spots /\ spot[g] # s
    BY <1>1, <1>2, <2>2 DEF Apart, PlateAt, HandlerOK, MarkPcs
  <2>4. pc[g] \in MarkPcs => place[visit[g]] \in Spots /\ place[visit[g]] # s
    BY <1>1, <1>2, <1>6, <2>2 DEF Apart, PlateAt, HandlerOK, MarkPcs, PayPcs, Typed, TypeOK
  <2>5. ReadRule(g)' /\ EntryRule(g)'
    BY <1>3, <2>1, <2>2, <2>3 DEF Rules, ReadRule, EntryRule, Own, PlateAt, Known, EntryPcs, LatePcs
  <2>6. ExitRule(g)' /\ PayRule(g)'
    BY <1>3, <2>1, <2>2, <2>4 DEF Rules, ExitRule, PayRule, Own, PlateAt, Known, HasOpen, Settled
  <2> QED
    BY <2>5, <2>6 DEF Rules
<1>7. Rules(h)'
  BY <1>1 DEF Rules, ReadRule, EntryRule, ExitRule, PayRule, EntryPcs, ExitPcs, LatePcs, OutPcs, MarkPcs
<1>8. \A f, g \in Handlers : Apart(f, g)'
  BY <1>1, <1>3, ApartStep DEF Kept, PayPcs, EntryPcs, MarkPcs
<1> QED
  BY <1>5, <1>6, <1>7, <1>8 DEF Calm

\* The exit.
LEMMA ExitMarkCalm ==
  ASSUME Typed, Calm, NEW h \in Handlers, ExitMark(h)
  PROVE  Calm'
<1>1. Others(h) /\ pc[h] = "exit_mark" /\ pc'[h] = "idle"
  BY TypedLocal, LeaveIs DEF ExitMark
<1>2. PICK s \in Spots, v \in Visits :
        /\ s = spot[h] /\ v = visit[h] /\ place[v] = s /\ Settled(v) /\ car[s] = h
        /\ \A u \in Visits : Known(u) /\ place[u] = s => u = v
  <2>1. Rules(h) /\ HandlerOK(h)
    BY DEF Calm, Typed
  <2> QED
    BY <1>1, <2>1 DEF HandlerOK, HasRow, OutPcs, ExitPcs, Rules, ExitRule, ReadRule
<1>3. /\ UNCHANGED <<place, told, recorded, board>>
      /\ status'[v] = "exited" /\ \A u \in Visits : u # v => status'[u] = status[u]
      /\ car'[s] = "opened" /\ \A t \in Spots : t # s => car'[t] = car[t]
  BY <1>2 DEF ExitMark, redisVars, histVars, Typed, TypeOK
<1>4. \A u \in Visits : /\ Known(u)' => Known(u) /\ place[u] # s
                        /\ HasOpen(u)' => HasOpen(u)
                        /\ Settled(u)' <=> Settled(u)
  BY <1>2, <1>3 DEF Known, HasOpen, Settled
<1>5. State'
  <2>1. \A t \in Spots : board[t].status = "paid" => board[t].visit \in Visits
    BY DEF Typed, Shown, HasRow, NoRecord
  <2>2. PaidRecorded' /\ PaidBoard'
    BY <1>3, <1>4, <2>1 DEF Calm, State, PaidRecorded, PaidBoard
  <2>3. OneOpen' /\ OwnRecord'
    BY <1>3, <1>4 DEF Calm, State, OneOpen, OwnRecord, Own, PlateAt
  <2>4. OnePlace'
    BY <1>2, <1>3, ParkingAssumption DEF Calm, State, OnePlace
  <2>5. \A u \in Visits : Known(u) => place[u] \in Spots
    BY DEF Known, Typed
  <2>6. CarIsIn'
    BY <1>3, <1>4, <2>5 DEF Calm, State, CarIsIn
  <2> QED
    BY <2>2, <2>3, <2>4, <2>6 DEF State
<1>6. ASSUME NEW g \in Handlers, g # h
      PROVE  Rules(g)'
  <2>1. /\ pc'[g] = pc[g] /\ spot'[g] = spot[g] /\ visit'[g] = visit[g]
        /\ payment'[g] = payment[g] /\ copy'[g] = copy[g]
    BY <1>1, <1>6 DEF Others
  <2>2. Rules(g) /\ HandlerOK(g)
    BY DEF Calm, Typed
  <2>3. ReadRule(g)'
    BY <1>2, <1>3, <1>6, <2>1, <2>2 DEF Rules, ReadRule, HandlerOK
  <2>4. /\ pc[g] \in LatePcs \cup OutPcs \cup PayPcs => visit[g] \in Visits
        /\ pc[g] \in LatePcs \cup {"pay_save", "pay_mark"} => visit[g] # v
    BY <1>2, <2>2 DEF Rules, EntryRule, PayRule, Settled, HandlerOK, HasRow, Typed, TypeOK
  <2>5. EntryRule(g)' /\ ExitRule(g)'
    BY <1>3, <1>4, <2>1, <2>2, <2>4 DEF Rules, EntryRule, ExitRule, Own, PlateAt
  <2>6. PayRule(g)'
    BY <1>3, <1>4, <2>1, <2>2, <2>4 DEF Rules, PayRule, Own, PlateAt, MarkPcs, PayPcs
  <2> QED
    BY <2>3, <2>5, <2>6 DEF Rules
<1>7. Rules(h)'
  BY <1>1 DEF Rules, ReadRule, EntryRule, ExitRule, PayRule, EntryPcs, ExitPcs, LatePcs, OutPcs, MarkPcs
<1>8. \A f, g \in Handlers : Apart(f, g)'
  BY <1>1, <1>2, <1>3, ApartStep DEF Kept, Settled, PayPcs, EntryPcs, MarkPcs
<1> QED
  BY <1>5, <1>6, <1>7, <1>8 DEF Calm

LEMMA NextCalm == Typed /\ Entries /\ OrderlyCalm /\ [Next]_vars => OrderlyCalm'
<1> SUFFICES ASSUME Typed, Entries, OrderlyCalm, [Next]_vars, Orderly'
             PROVE  Calm'
  BY DEF OrderlyCalm
<1>1. Typed'
  BY NextTyped
<1>2. faults' = faults
  BY DEF Next, vars
<1>3. Orderly /\ Calm
  BY <1>2 DEF Orderly, OrderlyCalm
<1>4. CASE UNCHANGED vars
  BY <1>3, <1>4 DEF vars, parkVars, dbVars, redisVars, histVars, siteVars, Calm, State, OnePlace, OneOpen, CarIsIn,
       OwnRecord, PaidRecorded, PaidBoard, Known, HasOpen, Settled, Own, PlateAt, Rules, ReadRule, EntryRule,
       ExitRule, PayRule, Apart
<1>5. CASE (\E s \in Spots : PreRegister(s) \/ LoseKey(s) \/ DriveOut(s)) \/ GateShuts
  BY <1>3, <1>5, SiteCalm
<1>6. ASSUME NEW h \in Handlers,
             \/ \E s \in Spots : EntryBegin(h, s) \/ ExitBegin(h, s)
             \/ \E v \in Visits, p \in Payments : PayBegin(h, v, p)
      PROVE  Calm'
  BY <1>3, <1>6, EntryBeginCalm, ExitBeginCalm, PayBeginCalm
<1>7. ASSUME NEW h \in Handlers, Proceed(h) \/ Crash(h)
      PROVE  Calm'
  <2>1. Others(h) /\ Trans(h)
    BY <1>7, ProceedTrans
  <2>2. CASE EntryBoard(h)
    BY <1>3, <2>2, EntryBoardCalm
  <2>3. CASE PayMark(h)
    BY <1>3, <2>3, PayMarkCalm
  <2>4. CASE PayWrite(h)
    BY <1>3, <2>4, PayWriteCalm
  <2>5. CASE ExitMark(h)
    BY <1>3, <2>5, ExitMarkCalm
  <2>6. CASE PaySave(h) /\ pc'[h] # "idle"
    BY <1>3, <2>6, PaySaveCalm
  <2>7. CASE EntryWebhook(h) /\ told' # told
    BY <1>3, <2>7, EntryWebhookCalm
  <2>8. CASE EntryCreate(h) /\ pc'[h] # "idle"
    <3>1. /\ pc[h] = "entry_create" /\ pc'[h] = "entry_board" /\ spot'[h] = spot[h]
          /\ visit'[h] \in Visits /\ status[visit'[h]] = "none"
          /\ status' = [status EXCEPT ![visit'[h]] = "active"]
          /\ place' = [place EXCEPT ![visit'[h]] = spot[h]]
          /\ ActiveOf(PlateOf(spot[h])) = {}
      BY <2>1, <2>8 DEF Trans, EntryCreate
    <3>2. PICK v \in Visits : v = visit'[h]
      BY <3>1
    <3> QED
      BY <1>3, <2>1, <2>8, <3>1, <3>2, EntryCreateCalm
  <2>9. CASE /\ ~EntryBoard(h) /\ ~PayMark(h) /\ ~PayWrite(h) /\ ~ExitMark(h)
             /\ ~(PaySave(h) /\ pc'[h] # "idle") /\ ~(EntryWebhook(h) /\ told' # told)
             /\ ~(EntryCreate(h) /\ pc'[h] # "idle")
    <3>1. EntryCreate(h) => UNCHANGED <<status, place>>
      BY <2>9 DEF EntryCreate, Leave, Typed, TypeOK
    <3>2. PaySave(h) => recorded' = recorded
      BY <2>9 DEF PaySave, Leave, Goto, Typed, TypeOK
    <3>3. UNCHANGED <<status, place, told, recorded, car>>
      BY <1>7, <2>9, <3>1, <3>2, ProceedFrame
    <3>4. \A s \in Spots : board'[s] = board[s] \/ board'[s] = NoRecord
      BY <1>7, <2>9, ProceedFrame DEF ExitDelete, Typed, TypeOK
    <3>5. pc'[h] = "idle" \/ pc[h] \notin {"entry_board", "entry_create", "pay_save", "pay_mark", "pay_write"}
      BY <1>7, <2>9, NotElsewhere, LeaveIs, TypedLocal DEF Crash
    <3> QED
      BY <1>1, <1>3, <1>7, <3>3, <3>4, <3>5, PassingCalm
  <2> QED
    BY <2>2, <2>3, <2>4, <2>5, <2>6, <2>7, <2>8, <2>9
<1> QED
  BY <1>4, <1>5, <1>6, <1>7 DEF Next

LEMMA EntriesHold == Spec => []Entries
BY InitEntries, NextEntries, TypedHolds, PTL DEF Spec

LEMMA CalmHolds == Spec => []OrderlyCalm
<1>1. Init => OrderlyCalm
  BY InitCalm DEF OrderlyCalm
<1> QED
  BY <1>1, NextCalm, TypedHolds, EntriesHold, PTL DEF Spec

-----------------------------------------------------------------------------
(* The board and the life of a visit.                                      *)

\* The exit is told "paid" only of a visit that is, in orderly behaviours, and is told
\* "not paid" of a paid visit only while a request is putting that right.
THEOREM BoardTrue == Spec => []BoardIsTrue
<1>1. Typed /\ OrderlyCalm => BoardPaidIsPaid
  <2> SUFFICES ASSUME Typed, Orderly, Calm, NEW s \in Spots, board[s].status = "paid"
               PROVE  status[board[s].visit] \in {"paid", "exited"} /\ place[board[s].visit] = s
    BY DEF OrderlyCalm, BoardPaidIsPaid
  <2>1. Settled(board[s].visit)
    BY DEF Calm, State, PaidBoard
  <2>2. place[board[s].visit] = s
    BY DEF Typed, Shown, HasRow, NoRecord
  <2> QED
    BY <2>1, <2>2 DEF Settled
<1>2. Spec => []BoardCatchesUp
  BY InitCatches, NextCatches, TypedHolds, EntriesHold, PTL DEF Spec
<1>3. Typed /\ BoardCatchesUp => BoardFollows
  BY CatchesFollows
<1>4. Typed /\ OrderlyCalm /\ BoardCatchesUp => BoardIsTrue
  BY <1>1, <1>3 DEF BoardIsTrue
<1> QED
  BY <1>2, <1>4, TypedHolds, CalmHolds, PTL

LEMMA StepLife == Typed /\ OrderlyCalm /\ [Next]_vars => (Orderly => [Lifecycle!Next]_<<status, recorded>>)
<1> SUFFICES ASSUME Typed, Orderly, Calm, [Next]_vars
             PROVE  [Lifecycle!Next]_<<status, recorded>>
  BY DEF OrderlyCalm
<1>1. CASE UNCHANGED vars
  BY <1>1 DEF vars, parkVars, dbVars
<1>2. CASE \/ \E s \in Spots : PreRegister(s) \/ LoseKey(s) \/ DriveOut(s)
           \/ GateShuts
           \/ \E h \in Handlers, s \in Spots : EntryBegin(h, s) \/ ExitBegin(h, s)
           \/ \E h \in Handlers, v \in Visits, p \in Payments : PayBegin(h, v, p)
  BY <1>2, OtherFrame
<1>3. ASSUME NEW h \in Handlers, Proceed(h) \/ Crash(h)
      PROVE  [Lifecycle!Next]_<<status, recorded>>
  <2>1. CASE EntryCreate(h)
    <3>1. recorded' = recorded
      BY <2>1 DEF EntryCreate
    <3>2. status' = status \/ \E v \in Visits : status[v] = "none" /\ status' = [status EXCEPT ![v] = "active"]
      BY <2>1 DEF EntryCreate
    <3> QED
      BY <3>1, <3>2 DEF Lifecycle!Next, Lifecycle!Open, Lifecycle!Move
  <2>2. CASE PaySave(h)
    <3>1. PICK v \in Visits, p \in Payments : v = visit[h] /\ p = payment[h] /\ status[v] # "none"
      BY <2>2 DEF PaySave, Typed, TypeOK, HandlerOK, PayPcs
    <3>2. status' = status /\ recorded' = recorded \cup {<<v, p>>}
      BY <2>2, <3>1 DEF PaySave
    <3> QED
      BY <3>1, <3>2 DEF Lifecycle!Next, Lifecycle!Settle
  <2>3. CASE PayMark(h)
    <3>1. PICK v \in Visits : /\ v = visit[h] /\ status[v] = "active"
                              /\ \E p \in Payments : <<v, p>> \in recorded
      BY <2>3 DEF PayMark, Typed, TypeOK, HandlerOK, PayPcs, Calm, Rules, PayRule
    <3>2. status' = [status EXCEPT ![v] = "paid"] /\ recorded' = recorded
      BY <2>3, <3>1 DEF PayMark, MarkPaid
    <3> QED
      BY <3>1, <3>2 DEF Lifecycle!Next, Lifecycle!Pay, Lifecycle!Move
  <2>4. CASE ExitMark(h)
    <3>1. PICK v \in Visits : v = visit[h] /\ Settled(v)
      BY <2>4 DEF ExitMark, Typed, HandlerOK, HasRow, OutPcs, Calm, Rules, ExitRule
    <3>2. status' = [status EXCEPT ![v] = "exited"] /\ recorded' = recorded
      BY <2>4, <3>1 DEF ExitMark
    <3>3. CASE status[v] = "paid"
      BY <3>2, <3>3 DEF Lifecycle!Next, Lifecycle!Exit, Lifecycle!Move
    <3>4. CASE status[v] = "exited"
      BY <3>2, <3>4 DEF Typed, TypeOK
    <3> QED
      BY <3>1, <3>3, <3>4 DEF Settled
  <2>5. CASE ~EntryCreate(h) /\ ~PaySave(h) /\ ~PayMark(h) /\ ~ExitMark(h)
    BY <1>3, <2>5, ProceedFrame
  <2> QED
    BY <2>1, <2>2, <2>3, <2>4, <2>5
<1> QED
  BY <1>1, <1>2, <1>3 DEF Next

\* In orderly behaviours, whatever dies, is lost or forgotten, a visit is opened, paid and
\* over as ParkingLifecycle says: the PMS implements it.
THEOREM ParkingKeepsLifecycle == Spec => KeepsLifecycle
<1>1. Init => (Orderly => Lifecycle!Init)
  BY DEF Init, Lifecycle!Init
<1>2. Typed /\ OrderlyCalm /\ [Next]_vars => [Orderly => [Lifecycle!Next]_<<status, recorded>>]_<<status, recorded>>
  BY StepLife
<1> QED
  BY <1>1, <1>2, TypedHolds, CalmHolds, PTL DEF Spec, KeepsLifecycle

-----------------------------------------------------------------------------
(* Who the barrier is opened for, when all that may fail is a webhook.     *)

Quiet == faults \subseteq {"webhook"}

\* While a notice is about to open the barrier its plate has no open entry, and no visit
\* that is not paid.
OpenerAlone == \A g, h \in Handlers :
  pc[g] \in EntryPcs /\ pc[h] = "pay_open" => PlateOf(spot[g]) # PlateAt(visit[h])
OpenerPaid == \A h \in Handlers : pc[h] = "pay_open" =>
  /\ Settled(visit[h])
  /\ \A u \in Visits : status[u] = "active" => PlateAt(u) # PlateAt(visit[h])

\* The board has a visit that is not paid, once its entry has written it, and an exit that
\* read the board before it decides has found none.
Entering(u) == \E g \in Handlers : pc[g] = "entry_board" /\ visit[g] = u
ActiveShown == \A u \in Visits : status[u] = "active" => board[place[u]].visit = u \/ Entering(u)
ExitClear == \A h \in Handlers : pc[h] \in OutPcs \cup {"exit_db"} =>
  \A u \in Visits : status[u] = "active" => place[u] # spot[h]

Clear == OpenerAlone /\ OpenerPaid /\ ActiveShown /\ ExitClear
QuietClear == Quiet => Clear

-----------------------------------------------------------------------------
(* What the barrier opens for, step by step.                               *)

LEMMA QuietIs == Quiet => Orderly /\ Unbroken /\ faults \cap {"overlap", "redis", "crash"} = {}
BY DEF Quiet, Orderly, Unbroken

\* A visit has a place once and for all, and only an entry has one that is not paid.
LEMMA NewActive ==
  ASSUME Typed, NEW h \in Handlers, Proceed(h) \/ Crash(h), NEW u \in Visits
  PROVE  /\ status[u] # "none" => place'[u] = place[u]
         /\ status'[u] = "active" =>
              \/ status[u] = "active"
              \/ /\ pc[h] = "entry_create" /\ pc'[h] = "entry_board" /\ board' = board
                 /\ visit'[h] = u /\ spot'[h] = spot[h] /\ place'[u] = spot[h]
<1>1. CASE EntryCreate(h)
  <2>1. Trans(h) /\ pc[h] = "entry_create" /\ board' = board
    BY <1>1, EntryTrans DEF EntryCreate, redisVars
  <2>2. CASE pc'[h] = "idle"
    <3>1. UNCHANGED <<status, place>>
      BY <1>1, <2>2 DEF EntryCreate, Typed, TypeOK
    <3> QED
      BY <3>1
  <2>3. CASE pc'[h] # "idle"
    <3>1. /\ pc'[h] = "entry_board" /\ spot'[h] = spot[h]
          /\ visit'[h] \in Visits /\ status[visit'[h]] = "none"
          /\ status' = [status EXCEPT ![visit'[h]] = "active"]
          /\ place' = [place EXCEPT ![visit'[h]] = spot[h]]
      BY <2>1, <2>3 DEF Trans
    <3> QED
      BY <2>1, <3>1 DEF Typed, TypeOK
  <2> QED
    BY <2>2, <2>3
<1>2. CASE ~EntryCreate(h)
  BY <1>2, ProceedFrame, StatusSteps
<1> QED
  BY <1>1, <1>2

\* A step that begins or ends nothing of the kind.
LEMMA SiteClear ==
  ASSUME Clear, UNCHANGED <<status, place, board, pc, spot, visit>>
  PROVE  Clear'
<1>1. OpenerAlone' /\ OpenerPaid'
  BY DEF Clear, OpenerAlone, OpenerPaid, PlateAt, Settled
<1>2. ActiveShown' /\ ExitClear'
  BY DEF Clear, ActiveShown, Entering, ExitClear
<1> QED
  BY <1>1, <1>2 DEF Clear

\* A car is read, at an entry only when nobody is busy with its plate, or a notice comes.
LEMMA BeginClear ==
  ASSUME Typed, Clear, Quiet, NEW h \in Handlers,
         \/ \E s \in Spots : EntryBegin(h, s) \/ ExitBegin(h, s)
         \/ \E v \in Visits, p \in Payments : PayBegin(h, v, p)
  PROVE  Clear'
<1>1. /\ Others(h) /\ pc[h] = "idle" /\ pc'[h] \in {"entry_look", "exit_look", "pay_look"}
      /\ UNCHANGED <<status, place, board>>
  BY BeginTrans, OtherFrame DEF EntryBegin, ExitBegin, PayBegin, redisVars
<1>2. ASSUME NEW g \in Handlers, pc'[h] = "entry_look", pc[g] = "pay_open"
      PROVE  PlateOf(spot'[h]) # PlateAt(visit[g])
  <2>1. PICK s \in Spots : EntryBegin(h, s)
    <3>1. \A s \in Spots : ExitBegin(h, s) => pc'[h] = "exit_look"
      BY TypedLocal DEF ExitBegin, Begin, LocalTypes
    <3>2. \A v \in Visits, p \in Payments : PayBegin(h, v, p) => pc'[h] = "pay_look"
      BY TypedLocal DEF PayBegin, Begin, LocalTypes
    <3> QED
      BY <1>2, <3>1, <3>2
  <2>2. spot'[h] = s /\ ~Busy(PlateOf(s))
    BY <2>1, QuietIs, BeginIs, TypedLocal DEF EntryBegin, EntryPcs
  <2>3. visit[g] \in Visits
    BY <1>2 DEF Typed, HandlerOK, HasRow
  <2> QED
    BY <2>2, <2>3 DEF Busy, PlateAt
<1>3. \A g \in Handlers : pc'[g] = "pay_open" => g # h /\ pc[g] = "pay_open" /\ visit'[g] = visit[g]
  BY <1>1 DEF Others
<1>4. OpenerAlone'
  BY <1>1, <1>2, <1>3 DEF Clear, OpenerAlone, Others, PlateAt, EntryPcs
<1>5. OpenerPaid'
  BY <1>1, <1>3 DEF Clear, OpenerPaid, PlateAt, Settled
<1>6. ActiveShown'
  BY <1>1 DEF Clear, ActiveShown, Entering, Others
<1>7. ExitClear'
  BY <1>1 DEF Clear, ExitClear, Others, OutPcs
<1> QED
  BY <1>4, <1>5, <1>6, <1>7 DEF Clear

\* A notice that goes on to open the barrier had marked the visit of its plate.
LEMMA OpenerClear ==
  ASSUME Typed, Typed', Calm, Clear, NEW h \in Handlers, Proceed(h) \/ Crash(h)
  PROVE  OpenerAlone' /\ OpenerPaid'
<1>1. Others(h) /\ Trans(h)
  BY ProceedTrans
<1>2. ASSUME NEW g \in Handlers, pc'[g] = "pay_open"
      PROVE  /\ visit'[g] = visit[g] /\ visit[g] \in Visits /\ status[visit[g]] # "none"
             /\ PlateAt(visit[g])' = PlateAt(visit[g])
             /\ Settled(visit[g])
             /\ \A f \in Handlers : pc[f] \in EntryPcs => PlateOf(spot[f]) # PlateAt(visit[g])
             /\ \A u \in Visits : status[u] = "active" => PlateAt(u) # PlateAt(visit[g])
  <2>1. /\ visit'[g] = visit[g]
        /\ pc[g] = "pay_open" \/ pc[g] \in {"pay_read", "pay_write"}
    BY <1>1, <1>2 DEF Others, Trans, Same
  <2>2. HasRow(visit[g], spot[g])
    BY <2>1 DEF Typed, HandlerOK
  <2>3. PlateAt(visit[g])' = PlateAt(visit[g])
    BY <2>1, <2>2, NewActive DEF HasRow, PlateAt
  <2>4. CASE pc[g] = "pay_open"
    BY <2>1, <2>2, <2>3, <2>4 DEF Clear, OpenerAlone, OpenerPaid, HasRow
  <2>5. CASE pc[g] \in {"pay_read", "pay_write"}
    <3>1. Settled(visit[g])
      BY <2>5 DEF Calm, Rules, PayRule
    <3>2. \A u \in Visits : status[u] = "active" => PlateAt(u) # PlateAt(visit[g])
      BY <2>5, <3>1 DEF Calm, Rules, PayRule, MarkPcs, HasOpen, Settled
    <3>3. \A f \in Handlers : pc[f] \in EntryPcs => PlateOf(spot[f]) # PlateAt(visit[g])
      BY <2>5 DEF Calm, Apart, MarkPcs
    <3> QED
      BY <2>1, <2>2, <2>3, <3>1, <3>2, <3>3 DEF HasRow
  <2> QED
    BY <2>1, <2>4, <2>5
<1>3. \A f \in Handlers : pc'[f] \in EntryPcs => pc[f] \in EntryPcs /\ spot'[f] = spot[f]
  BY <1>1 DEF Others, Trans, Same, EntryPcs
<1>4. OpenerAlone'
  BY <1>2, <1>3 DEF OpenerAlone
<1>5. ASSUME NEW g \in Handlers, pc'[g] = "pay_open"
      PROVE  /\ Settled(visit[g])'
             /\ \A u \in Visits : status'[u] = "active" => PlateAt(u)' # PlateAt(visit[g])'
  <2>1. Settled(visit[g])'
    BY <1>2, <1>5, StatusSteps DEF Settled
  <2>2. ASSUME NEW u \in Visits, status'[u] = "active", PlateAt(u)' = PlateAt(visit[g])'
        PROVE  FALSE
    <3>1. CASE status[u] = "active"
      BY <1>2, <1>5, <2>2, <3>1, NewActive DEF PlateAt
    <3>2. CASE status[u] # "active"
      <4>1. pc[h] = "entry_create" /\ place'[u] = spot[h]
        BY <2>2, <3>2, NewActive
      <4> QED
        BY <1>2, <1>5, <2>2, <4>1 DEF PlateAt, EntryPcs
    <3> QED
      BY <3>1, <3>2
  <2> QED
    BY <2>1, <2>2
<1>6. OpenerPaid'
  BY <1>2, <1>5 DEF OpenerPaid
<1> QED
  BY <1>4, <1>6

\* Whoever writes on the board, or deletes from it, is about the visit of the spot.
LEMMA ShownClear ==
  ASSUME Typed, Calm, Clear, NEW h \in Handlers, Proceed(h)
  PROVE  ActiveShown'
<1>1. Others(h) /\ Trans(h)
  BY ProceedTrans
<1> SUFFICES ASSUME NEW u \in Visits, status'[u] = "active"
             PROVE  board'[place'[u]].visit = u \/ Entering(u)'
  BY DEF ActiveShown
<1>2. CASE status[u] # "active"
  BY <1>2, NewActive DEF Entering
<1>3. CASE status[u] = "active" /\ EntryBoard(h)
  <2>1. /\ pc[h] = "entry_board" /\ HasRow(visit[h], spot[h]) /\ status[visit[h]] = "active"
        /\ board' = [board EXCEPT ![spot[h]] = [visit |-> visit[h], status |-> "active"]]
    BY <1>3, NotElsewhere DEF EntryBoard, Goto, Typed, HandlerOK, LatePcs, Calm, Rules, EntryRule
  <2>2. place'[u] = place[u] /\ place[u] \in Spots
    BY <1>3, NewActive DEF Typed
  <2>3. CASE place[u] = spot[h]
    <3>1. u = visit[h]
      BY <1>3, <2>1, <2>3 DEF Calm, State, OneOpen, HasOpen, HasRow, PlateAt
    <3> QED
      BY <2>1, <2>2, <2>3, <3>1 DEF Typed, TypeOK
  <2>4. CASE place[u] # spot[h]
    <3>1. board'[place'[u]] = board[place[u]]
      BY <2>1, <2>2, <2>4 DEF Typed, TypeOK
    <3>2. Entering(u) => visit[h] = u \/ Entering(u)'
      BY <1>1 DEF Entering, Others
    <3>3. visit[h] # u
      BY <2>1, <2>4 DEF HasRow
    <3> QED
      BY <1>3, <3>1, <3>2, <3>3 DEF Clear, ActiveShown
  <2> QED
    BY <2>3, <2>4
<1>4. CASE status[u] = "active" /\ ~EntryBoard(h)
  <2>1. place'[u] = place[u] /\ place[u] \in Spots
    BY <1>4, NewActive DEF Typed
  <2>2. Entering(u) => Entering(u)'
    <3>1. pc[h] # "entry_board"
      BY <1>4, NotElsewhere
    <3> QED
      BY <1>1, <3>1 DEF Entering, Others
  <2>3. CASE PayWrite(h)
    <3>1. /\ pc[h] = "pay_write" /\ HasRow(visit[h], spot[h]) /\ Settled(visit[h])
          /\ board' = [board EXCEPT ![spot[h]] = [visit |-> copy[h], status |-> "paid"]]
      BY <2>3, NotElsewhere DEF PayWrite, Goto, Typed, HandlerOK, Calm, Rules, PayRule
    <3>2. PlateAt(u) # PlateAt(visit[h])
      BY <1>4, <3>1 DEF Calm, Rules, PayRule, MarkPcs, HasOpen, Settled
    <3>3. board'[place'[u]] = board[place[u]]
      BY <2>1, <3>1, <3>2 DEF Typed, TypeOK, HasRow, PlateAt
    <3> QED
      BY <1>4, <2>2, <3>3 DEF Clear, ActiveShown
  <2>4. CASE ExitDelete(h)
    <3>1. pc[h] = "exit_delete" /\ board' = [board EXCEPT ![spot[h]] = NoRecord]
      BY <2>4 DEF ExitDelete, Goto
    <3>2. place[u] # spot[h]
      BY <1>4, <3>1 DEF Clear, ExitClear, OutPcs
    <3>3. board'[place'[u]] = board[place[u]]
      BY <2>1, <3>1, <3>2 DEF Typed, TypeOK
    <3> QED
      BY <1>4, <2>2, <3>3 DEF Clear, ActiveShown
  <2>5. CASE ~PayWrite(h) /\ ~ExitDelete(h)
    <3>1. board' = board
      BY <1>4, <2>5, ProceedFrame
    <3> QED
      BY <1>4, <2>1, <2>2, <3>1 DEF Clear, ActiveShown
  <2> QED
    BY <2>3, <2>4, <2>5
<1> QED
  BY <1>2, <1>3, <1>4

\* The exit reads the board, and its car is not at an entry meanwhile.
LEMMA ExitIsClear ==
  ASSUME Typed, Typed', Calm, Clear, NEW h \in Handlers, Proceed(h) \/ Crash(h)
  PROVE  ExitClear'
<1>1. Others(h) /\ Trans(h)
  BY ProceedTrans
<1> DEFINE P == OutPcs \cup {"exit_db"}
<1>2. ASSUME NEW g \in Handlers, pc'[g] \in P
      PROVE  spot'[g] = spot[g] /\ (pc[g] \in P \/ (g = h /\ pc[h] = "exit_look"))
  BY <1>1, <1>2 DEF Others, Trans, Same, OutPcs
<1>3. ASSUME pc[h] = "exit_look", pc'[h] \in P, NEW u \in Visits, status[u] = "active", place[u] = spot[h]
      PROVE  FALSE
  <2>1. spot[h] \in Spots /\ car[spot[h]] = h
    BY <1>3 DEF Typed, HandlerOK, Calm, Rules, ReadRule, ExitPcs
  <2>2. board[spot[h]].visit # u
    <3>1. CASE ExitLook(h)
      <4>1. board[spot[h]] = NoRecord \/ board[spot[h]].status = "paid"
        BY <1>3, <3>1, LeaveIs, TypedLocal DEF ExitLook, Opens, OutPcs
      <4>2. board[spot[h]].status = "paid" => Settled(board[spot[h]].visit)
        BY <2>1 DEF Calm, State, PaidBoard
      <4> QED
        BY <1>3, <4>1, <4>2, ParkingAssumption DEF Settled, NoRecord
    <3>2. CASE ~ExitLook(h)
      BY <1>1, <1>3, <3>2, LeaveIs, TypedLocal
         DEF Proceed, Crash, EntryLook, EntryCreate, EntryBoard, EntryReg, EntryConsume, EntryWebhook,
             PayLook, PaySave, PayMark, PayRead, PayWrite, PayOpen, ExitDb, ExitOpen, ExitDelete, ExitMark,
             Goto, OutPcs
    <3> QED
      BY <3>1, <3>2
  <2>3. PICK g \in Handlers : pc[g] = "entry_board" /\ visit[g] = u
    BY <1>3, <2>2 DEF Clear, ActiveShown, Entering
  <2>4. spot[g] = spot[h]
    BY <1>3, <2>3 DEF Typed, HandlerOK, HasRow, LatePcs
  <2>5. car[spot[g]] = g
    BY <2>3 DEF Calm, Rules, ReadRule, EntryPcs
  <2> QED
    BY <1>3, <2>1, <2>3, <2>4, <2>5
<1> SUFFICES ASSUME NEW g \in Handlers, pc'[g] \in P, NEW u \in Visits, status'[u] = "active",
                    place'[u] = spot'[g]
             PROVE  FALSE
  BY DEF ExitClear
<1>4. spot'[g] = spot[g]
  BY <1>2
<1>5. CASE status[u] = "active"
  <2>1. place[u] = spot[g]
    BY <1>4, <1>5, NewActive
  <2> QED
    BY <1>2, <1>3, <1>5, <2>1 DEF Clear, ExitClear
<1>6. CASE status[u] # "active"
  <2>1. pc[h] = "entry_create" /\ pc'[h] = "entry_board" /\ place'[u] = spot[h]
    BY <1>6, NewActive
  <2>2. g # h /\ pc[g] \in ExitPcs
    BY <1>2, <2>1 DEF OutPcs, ExitPcs
  <2>3. spot[g] = spot[h]
    BY <1>4, <2>1
  <2>4. car[spot[g]] = g /\ car[spot[h]] = h
    BY <2>1, <2>2 DEF Calm, Rules, ReadRule, EntryPcs
  <2> QED
    BY <2>2, <2>3, <2>4
<1> QED
  BY <1>5, <1>6

LEMMA NextClear == Typed /\ Typed' /\ OrderlyCalm /\ QuietClear /\ [Next]_vars => QuietClear'
<1> SUFFICES ASSUME Typed, Typed', OrderlyCalm, QuietClear, [Next]_vars, Quiet'
             PROVE  Clear'
  BY DEF QuietClear
<1>1. Quiet /\ Calm /\ Clear
  BY QuietIs DEF OrderlyCalm, QuietClear, Quiet, Next, vars
<1>2. CASE UNCHANGED vars
  BY <1>1, <1>2, SiteClear DEF vars, parkVars, dbVars, redisVars
<1>3. CASE \/ \E s \in Spots : PreRegister(s) \/ LoseKey(s) \/ DriveOut(s)
           \/ GateShuts
  <2>1. UNCHANGED board
    BY <1>1, <1>3, QuietIs DEF PreRegister, LoseKey, DriveOut, GateShuts, redisVars
  <2> QED
    BY <1>1, <1>3, <2>1, SiteFrame, OtherFrame, SiteClear
<1>4. ASSUME NEW h \in Handlers,
             \/ \E s \in Spots : EntryBegin(h, s) \/ ExitBegin(h, s)
             \/ \E v \in Visits, p \in Payments : PayBegin(h, v, p)
      PROVE  Clear'
  BY <1>1, <1>4, BeginClear
<1>5. ASSUME NEW h \in Handlers, Proceed(h) \/ Crash(h)
      PROVE  Clear'
  <2>1. Proceed(h)
    BY <1>1, <1>5, QuietIs DEF Crash
  <2> QED
    BY <1>1, <2>1, OpenerClear, ShownClear, ExitIsClear DEF Clear
<1> QED
  BY <1>2, <1>3, <1>4, <1>5 DEF Next

\* The barrier changes in no other steps.
LEMMA GateSteps ==
  ASSUME [Next]_vars, NEW v \in gate' \ gate
  PROVE  \E h \in Handlers : visit[h] = v /\ (PayOpen(h) \/ ExitOpen(h))
<1> USE DEF siteVars
<1>1. CASE UNCHANGED gate
  BY <1>1
<1>2. ASSUME NEW h \in Handlers, Proceed(h) \/ Crash(h)
      PROVE  UNCHANGED gate \/ PayOpen(h) \/ ExitOpen(h)
  BY <1>2 DEF Proceed, Crash, EntryLook, EntryCreate, EntryBoard, EntryReg, EntryConsume, EntryWebhook,
              PayLook, PaySave, PayMark, PayRead, PayWrite, ExitLook, ExitDb, ExitDelete, ExitMark
<1>3. ASSUME NEW h \in Handlers, PayOpen(h) \/ ExitOpen(h)
      PROVE  visit[h] = v
  BY <1>3 DEF PayOpen, ExitOpen
<1>4. \/ \E s \in Spots : PreRegister(s) \/ LoseKey(s) \/ DriveOut(s)
      \/ \E h \in Handlers, s \in Spots : EntryBegin(h, s) \/ ExitBegin(h, s)
      \/ \E h \in Handlers, u \in Visits, p \in Payments : PayBegin(h, u, p)
      => UNCHANGED gate
  BY DEF PreRegister, LoseKey, DriveOut, EntryBegin, ExitBegin, PayBegin
<1>5. ~GateShuts
  BY DEF GateShuts
<1> QED
  BY <1>1, <1>2, <1>3, <1>4, <1>5 DEF Next, vars, parkVars

\* The exit barrier is opened only for a visit that is paid, and while the spot has none
\* that is not: record_payment_complete and handle_lpr_exit open it for the right car,
\* when a webhook is the most that fails.
THEOREM OpensOnlyForPaid == Spec => OpensForPaid
<1>1. Init => QuietClear
  BY DEF Init, QuietClear, Clear, OpenerAlone, OpenerPaid, ActiveShown, ExitClear, OutPcs
<1>2. Spec => []QuietClear
  BY <1>1, NextClear, TypedHolds, CalmHolds, PTL DEF Spec
<1>3. Typed /\ OrderlyCalm /\ QuietClear /\ [Next]_vars =>
        [faults \subseteq {"webhook"} => \A v \in gate' \ gate :
           /\ status[v] \in {"paid", "exited"}
           /\ \A u \in Visits : place[u] = place[v] => status[u] # "active"]_gate
  <2> SUFFICES ASSUME Typed, OrderlyCalm, QuietClear, [Next]_vars, Quiet, NEW v \in gate' \ gate
               PROVE  /\ Settled(v)
                      /\ \A u \in Visits : place[u] = place[v] => status[u] # "active"
    BY DEF Quiet, Settled
  <2>1. Calm /\ Clear
    BY QuietIs DEF OrderlyCalm, QuietClear
  <2>2. PICK h \in Handlers : visit[h] = v /\ (PayOpen(h) \/ ExitOpen(h))
    BY GateSteps
  <2>3. CASE PayOpen(h)
    BY <2>1, <2>2, <2>3 DEF PayOpen, Clear, OpenerPaid, PlateAt
  <2>4. CASE ExitOpen(h)
    <3>1. pc[h] \in OutPcs
      BY <2>4 DEF ExitOpen, Goto, OutPcs
    <3>2. place[v] = spot[h]
      BY <2>2, <3>1 DEF Typed, HandlerOK, HasRow
    <3>3. Settled(v)
      BY <2>1, <2>2, <3>1 DEF Calm, Rules, ExitRule
    <3> QED
      BY <2>1, <3>1, <3>2, <3>3 DEF Clear, ExitClear
  <2> QED
    BY <2>2, <2>3, <2>4
<1> QED
  BY <1>2, <1>3, TypedHolds, CalmHolds, PTL DEF Spec, OpensForPaid
=============================================================================
