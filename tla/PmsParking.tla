----------------------------- MODULE PmsParking -----------------------------
(***************************************************************************)
(* The PMS of a car park: LPR entry, payment notices from the back end and *)
(* LPR exit, over its database (parking_sessions, payment_requests) and    *)
(* the live board in Redis (parking_session:{lot}:{plate}, pre_reg:...).   *)
(*                                                                         *)
(* Four processes serve requests, so handlers interleave at every access   *)
(* to the database or to Redis.  A spot is a pair lot, plate: the board    *)
(* has one record per spot, not per visit.  The cars and the exit barrier  *)
(* are external, as the Webots controllers play them: a car is read at the *)
(* entry once per visit and at the exit until it is told "opened", and     *)
(* then leaves, whether or not it sees the barrier up.                     *)
(***************************************************************************)
EXTENDS Naturals, FiniteSets

CONSTANTS
  Lots, Plates,
  Visits,     \* the pms_session_ids that may be drawn
  Payments,   \* the payments (idempotency keys) a visit may receive
  Handlers,   \* request handlers
  Scenarios   \* the sets of faults a behaviour may be exposed to

\* A request dies; Redis loses a record; a webhook is lost; a notice is sent
\* again while it is being handled; a visit is paid for twice; a car is read at an
\* entry while requests about its plate are running; a car gives up on a request.
FaultKinds == {"crash", "redis", "webhook", "duplicate", "second", "overlap", "timeout"}

VARIABLES
  faults,    \* what may go wrong in this behaviour, fixed from the start
  status,    \* parking_sessions.status, "none" without a row
  place,     \* parking_sessions.lot_id, plate
  board,     \* the board: the visit and status on record, NoRecord without one
  preReg,    \* the spots pre-registered
  recorded,  \* payment_requests, as pairs visit, payment
  told,      \* history: the visits the back end got an entry webhook for
  acked,     \* history: the notices the back end got a "success" for
  car,       \* a spot's car: away, let out, or in, and the handler it asked last
  gate,      \* the visits the exit barrier is open for
  pc,        \* where a handler is
  spot,      \* the spot a handler is about
  visit,     \* the visit a handler is about
  payment,   \* the payment a handler is about
  copy       \* the visit in the board record update_status has read

dbVars    == <<status, place, recorded>>
redisVars == <<board, preReg>>
histVars  == <<told, acked>>
siteVars  == <<car, gate>>
parkVars  == <<dbVars, redisVars, histVars, siteVars, pc, spot, visit, payment, copy>>
vars      == <<faults, parkVars>>

Spots    == Lots \X Plates
Keys     == Visits \X Payments
PlateOf(s) == s[2]
NoSpot   == <<>>
NoVisit  == "no visit"
NoPayment == "no payment"
NoRecord == [visit |-> NoVisit, status |-> "none"]
Record   == [visit : Visits \cup {NoVisit}, status : {"none", "active", "paid"}]

ASSUME ParkingAssumption ==
  /\ Scenarios \subseteq SUBSET FaultKinds
  /\ NoVisit \notin Visits
  /\ {"away", "opened"} \cap Handlers = {}

EntryPcs == {"entry_look", "entry_create", "entry_board", "entry_reg",
             "entry_consume", "entry_webhook"}
PayPcs   == {"pay_look", "pay_save", "pay_mark", "pay_read", "pay_write", "pay_open"}
ExitPcs  == {"exit_look", "exit_db", "exit_open", "exit_open_db", "exit_delete", "exit_mark"}

TypeOK ==
  /\ faults \in Scenarios
  /\ status \in [Visits -> {"none", "active", "paid", "exited"}]
  /\ place \in [Visits -> Spots \cup {NoSpot}]
  /\ board \in [Spots -> Record]
  /\ preReg \subseteq Spots
  /\ recorded \subseteq Keys
  /\ told \subseteq Visits
  /\ acked \subseteq Keys
  /\ car \in [Spots -> {"away", "opened"} \cup Handlers]
  /\ gate \subseteq Visits
  /\ pc \in [Handlers -> {"idle"} \cup EntryPcs \cup PayPcs \cup ExitPcs]
  /\ spot \in [Handlers -> Spots \cup {NoSpot}]
  /\ visit \in [Handlers -> Visits \cup {NoVisit}]
  /\ payment \in [Handlers -> Payments \cup {NoPayment}]
  /\ copy \in [Handlers -> Visits \cup {NoVisit}]

Init ==
  /\ faults \in Scenarios
  /\ status = [v \in Visits |-> "none"]
  /\ place = [v \in Visits |-> NoSpot]
  /\ board = [s \in Spots |-> NoRecord]
  /\ preReg = {}
  /\ recorded = {}
  /\ told = {}
  /\ acked = {}
  /\ car = [s \in Spots |-> "away"]
  /\ gate = {}
  /\ pc = [h \in Handlers |-> "idle"]
  /\ spot = [h \in Handlers |-> NoSpot]
  /\ visit = [h \in Handlers |-> NoVisit]
  /\ payment = [h \in Handlers |-> NoPayment]
  /\ copy = [h \in Handlers |-> NoVisit]

\* The handler goes on from `from` to `to` with what it has in hand.
Goto(h, from, to) ==
  /\ pc[h] = from
  /\ pc' = [pc EXCEPT ![h] = to]
  /\ UNCHANGED <<spot, visit, payment, copy>>

Begin(h, to, s, v, p) ==
  /\ pc[h] = "idle"
  /\ pc' = [pc EXCEPT ![h] = to]
  /\ spot' = [spot EXCEPT ![h] = s]
  /\ visit' = [visit EXCEPT ![h] = v]
  /\ payment' = [payment EXCEPT ![h] = p]
  /\ UNCHANGED copy

Leave(h) ==
  /\ pc' = [pc EXCEPT ![h] = "idle"]
  /\ spot' = [spot EXCEPT ![h] = NoSpot]
  /\ visit' = [visit EXCEPT ![h] = NoVisit]
  /\ payment' = [payment EXCEPT ![h] = NoPayment]
  /\ copy' = [copy EXCEPT ![h] = NoVisit]

-----------------------------------------------------------------------------
(* POST /parking/pre-register, and the site.                               *)

PreRegister(s) ==
  /\ preReg' = preReg \cup {s}
  /\ UNCHANGED <<dbVars, board, histVars, siteVars, pc, spot, visit, payment, copy>>

\* A key expires or Redis restarts.
LoseKey(s) ==
  /\ \/ s \in preReg /\ preReg' = preReg \ {s} /\ UNCHANGED board
     \/ /\ "redis" \in faults
        /\ board[s] # NoRecord
        /\ board' = [board EXCEPT ![s] = NoRecord]
        /\ UNCHANGED preReg
  /\ UNCHANGED <<dbVars, histVars, siteVars, pc, spot, visit, payment, copy>>

\* A car that was told "opened" drives out.
DriveOut(s) ==
  /\ car[s] = "opened"
  /\ car' = [car EXCEPT ![s] = "away"]
  /\ UNCHANGED <<dbVars, redisVars, histVars, gate, pc, spot, visit, payment, copy>>

GateShuts ==
  /\ gate # {}
  /\ gate' = {}
  /\ UNCHANGED <<dbVars, redisVars, histVars, car, pc, spot, visit, payment, copy>>

-----------------------------------------------------------------------------
(* POST /lpr/entry.  The entry barrier opens at once, whoever comes.       *)

\* Some request about the plate is still running.
Busy(plate) ==
  \E h \in Handlers :
    \/ spot[h] \in Spots /\ PlateOf(spot[h]) = plate
    \/ visit[h] \in Visits /\ PlateOf(place[visit[h]]) = plate

\* Unless readings may overlap, a car is read at an entry once per visit, and
\* not before the requests about its last visit are done.
EntryBegin(h, s) ==
  /\ "overlap" \in faults \/
     /\ \A t \in Spots : PlateOf(t) = PlateOf(s) => car[t] = "away"
     /\ ~Busy(PlateOf(s))
  /\ Begin(h, "entry_look", s, NoVisit, NoPayment)
  /\ car' = [car EXCEPT ![s] = h]
  /\ UNCHANGED <<dbVars, redisVars, histVars, gate>>

ActiveOf(plate) == {v \in Visits : status[v] = "active" /\ PlateOf(place[v]) = plate}

\* A plate with an active session keeps it, in whatever lot that was.
EntryLook(h) ==
  /\ pc[h] = "entry_look"
  /\ IF ActiveOf(PlateOf(spot[h])) # {} THEN Leave(h) ELSE Goto(h, "entry_look", "entry_create")
  /\ UNCHANGED <<dbVars, redisVars, histVars, siteVars>>

\* uniq_active_pms_session_per_plate: a second active session raises.
EntryCreate(h) ==
  /\ pc[h] = "entry_create"
  /\ \/ /\ ActiveOf(PlateOf(spot[h])) = {}
        /\ \E v \in Visits :
             /\ status[v] = "none"
             /\ status' = [status EXCEPT ![v] = "active"]
             /\ place' = [place EXCEPT ![v] = spot[h]]
             /\ visit' = [visit EXCEPT ![h] = v]
        /\ pc' = [pc EXCEPT ![h] = "entry_board"]
        /\ UNCHANGED <<spot, payment, copy>>
     \/ /\ ActiveOf(PlateOf(spot[h])) # {}
        /\ Leave(h)
        /\ UNCHANGED <<status, place>>
  /\ UNCHANGED <<recorded, redisVars, histVars, siteVars>>

EntryBoard(h) ==
  /\ Goto(h, "entry_board", "entry_reg")
  /\ board' = [board EXCEPT ![spot[h]] = [visit |-> visit[h], status |-> "active"]]
  /\ UNCHANGED <<dbVars, preReg, histVars, siteVars>>

EntryReg(h) ==
  /\ pc[h] = "entry_reg"
  /\ IF spot[h] \in preReg THEN Goto(h, "entry_reg", "entry_consume") ELSE Leave(h)
  /\ UNCHANGED <<dbVars, redisVars, histVars, siteVars>>

EntryConsume(h) ==
  /\ Goto(h, "entry_consume", "entry_webhook")
  /\ preReg' = preReg \ {spot[h]}
  /\ UNCHANGED <<dbVars, board, histVars, siteVars>>

\* A webhook that fails is logged and never sent again; the back end may have
\* got it all the same.
EntryWebhook(h) ==
  /\ pc[h] = "entry_webhook"
  /\ \/ told' = told \cup {visit[h]}
     \/ "webhook" \in faults /\ UNCHANGED told
  /\ Leave(h)
  /\ UNCHANGED <<dbVars, redisVars, acked, siteVars>>

-----------------------------------------------------------------------------
(* POST /payment/complete.  The back end repeats a notice until it hears   *)
(* "success"; unless "duplicate" may happen, one at a time.                *)

PayBegin(h, v, p) ==
  /\ v \in told
  /\ <<v, p>> \notin acked
  /\ "duplicate" \in faults \/
     \A g \in Handlers : ~(pc[g] \in PayPcs /\ visit[g] = v /\ payment[g] = p)
  /\ "second" \in faults \/
     \A q \in Payments \ {p} : \A g \in Handlers :
       <<v, q>> \notin recorded /\ ~(pc[g] \in PayPcs /\ visit[g] = v /\ payment[g] = q)
  /\ Begin(h, "pay_look", NoSpot, v, p)
  /\ UNCHANGED <<dbVars, redisVars, histVars, siteVars>>

\* A recorded key is answered at once, whatever became of it.
PayLook(h) ==
  LET k == <<visit[h], payment[h]>> IN
  /\ pc[h] = "pay_look"
  /\ \/ /\ k \in recorded
        /\ acked' = acked \cup {k}
        /\ Leave(h)
     \/ /\ k \notin recorded
        /\ Goto(h, "pay_look", "pay_save")
        /\ UNCHANGED acked
  /\ UNCHANGED <<dbVars, redisVars, told, siteVars>>

\* save_payment_request looks again; a row it finds then does not stop the
\* handler, one that comes up before its own insert does.
PaySave(h) ==
  LET k == <<visit[h], payment[h]>> IN
  /\ pc[h] = "pay_save"
  /\ recorded' = recorded \cup {k}
  /\ \/ Goto(h, "pay_save", "pay_mark")
     \/ k \in recorded /\ Leave(h)
  /\ UNCHANGED <<status, place, redisVars, histVars, siteVars>>

\* Mutants: the database left to the exit, and the back end's word for it.
MarkPaidNot(v)   == v \in Visits /\ UNCHANGED status
MarkCompleted(v) == status' = [status EXCEPT ![v] = "completed"]

\* mark_paid: whatever the session has become meanwhile.
MarkPaid(v) == status' = [status EXCEPT ![v] = "paid"]

PayMark(h) ==
  LET v == visit[h] IN
  /\ pc[h] = "pay_mark"
  /\ MarkPaid(v)
  /\ pc' = [pc EXCEPT ![h] = "pay_read"]
  /\ spot' = [spot EXCEPT ![h] = place[v]]
  /\ UNCHANGED <<visit, payment, copy, place, recorded, redisVars, histVars, siteVars>>

\* Mutant: a board that is never updated.
AfterReadNothing(found) == IF found \in Visits THEN "pay_open" ELSE "pay_open"

AfterRead(found) == IF found = NoVisit THEN "pay_open" ELSE "pay_write"

\* update_status reads the record of the spot, whichever visit it is about ...
PayRead(h) ==
  LET found == board[spot[h]].visit IN
  /\ pc[h] = "pay_read"
  /\ pc' = [pc EXCEPT ![h] = AfterRead(found)]
  /\ copy' = [copy EXCEPT ![h] = found]
  /\ UNCHANGED <<spot, visit, payment, dbVars, redisVars, histVars, siteVars>>

\* ... and writes it back as paid.
PayWrite(h) ==
  /\ Goto(h, "pay_write", "pay_open")
  /\ board' = [board EXCEPT ![spot[h]] = [visit |-> copy[h], status |-> "paid"]]
  /\ UNCHANGED <<dbVars, preReg, histVars, siteVars>>

\* The exit barrier is opened here too; its failure is swallowed.
PayOpen(h) ==
  /\ pc[h] = "pay_open"
  /\ gate' \in {gate, gate \cup {visit[h]}}
  /\ acked' = acked \cup {<<visit[h], payment[h]>>}
  /\ Leave(h)
  /\ UNCHANGED <<dbVars, redisVars, told, car>>

-----------------------------------------------------------------------------
(* POST /lpr/exit.                                                         *)

\* The car's last reading is still being answered.
Waiting(s) ==
  \E h \in Handlers : car[s] = h /\ pc[h] \in EntryPcs \cup ExitPcs /\ spot[h] = s

\* The car is read once its entry is answered, again after any answer but
\* "opened", and after 10 s without one.
ExitBegin(h, s) ==
  /\ car[s] \notin {"away", "opened"}
  /\ "timeout" \in faults \/ ~Waiting(s)
  /\ Begin(h, "exit_look", s, NoVisit, NoPayment)
  /\ car' = [car EXCEPT ![s] = h]
  /\ UNCHANGED <<dbVars, redisVars, histVars, gate>>

\* Mutant: any record opens.
OpensUnpaid(rec) == rec.status \in {"active", "paid"}

Opens(rec) == rec.status = "paid"

\* Redis first: a record that is not paid ends the matter.
ExitLook(h) ==
  LET rec == board[spot[h]] IN
  /\ pc[h] = "exit_look"
  /\ \/ /\ Opens(rec)
        /\ pc' = [pc EXCEPT ![h] = "exit_open"]
        /\ visit' = [visit EXCEPT ![h] = rec.visit]
        /\ UNCHANGED <<spot, payment, copy>>
     \/ rec # NoRecord /\ ~Opens(rec) /\ Leave(h)
     \/ rec = NoRecord /\ Goto(h, "exit_look", "exit_db")
  /\ UNCHANGED <<dbVars, redisVars, histVars, siteVars>>

PaidAt(s) == {v \in Visits : status[v] = "paid" /\ place[v] = s}

\* Without a record the database decides, by any paid session of the spot.
ExitDb(h) ==
  /\ pc[h] = "exit_db"
  /\ \/ \E v \in PaidAt(spot[h]) :
          /\ pc' = [pc EXCEPT ![h] = "exit_open_db"]
          /\ visit' = [visit EXCEPT ![h] = v]
          /\ UNCHANGED <<spot, payment, copy>>
     \/ PaidAt(spot[h]) = {} /\ Leave(h)
  /\ UNCHANGED <<dbVars, redisVars, histVars, siteVars>>

ExitOpen(h) ==
  /\ \/ Goto(h, "exit_open", "exit_delete")
     \/ Goto(h, "exit_open_db", "exit_mark")
  /\ gate' \in {gate, gate \cup {visit[h]}}
  /\ UNCHANGED <<dbVars, redisVars, histVars, car>>

\* The delete is by spot too.
ExitDelete(h) ==
  /\ Goto(h, "exit_delete", "exit_mark")
  /\ board' = [board EXCEPT ![spot[h]] = NoRecord]
  /\ UNCHANGED <<dbVars, preReg, histVars, siteVars>>

\* The answer is "opened", if the car is still waiting for it.
ExitMark(h) ==
  /\ pc[h] = "exit_mark"
  /\ status' = [status EXCEPT ![visit[h]] = "exited"]
  /\ car' = [car EXCEPT ![spot[h]] = IF @ = h THEN "opened" ELSE @]
  /\ Leave(h)
  /\ UNCHANGED <<place, recorded, redisVars, histVars, gate>>

\* The process dies, or an access to the database or to Redis raises.
Crash(h) ==
  /\ "crash" \in faults
  /\ pc[h] # "idle"
  /\ Leave(h)
  /\ UNCHANGED <<dbVars, redisVars, histVars, siteVars>>

-----------------------------------------------------------------------------
Proceed(h) ==
  \/ EntryLook(h) \/ EntryCreate(h) \/ EntryBoard(h)
  \/ EntryReg(h) \/ EntryConsume(h) \/ EntryWebhook(h)
  \/ PayLook(h) \/ PaySave(h) \/ PayMark(h) \/ PayRead(h) \/ PayWrite(h) \/ PayOpen(h)
  \/ ExitLook(h) \/ ExitDb(h) \/ ExitOpen(h) \/ ExitDelete(h) \/ ExitMark(h)

Next ==
  /\ \/ \E s \in Spots : PreRegister(s) \/ LoseKey(s) \/ DriveOut(s)
     \/ GateShuts
     \/ \E h \in Handlers :
          \/ \E s \in Spots : EntryBegin(h, s) \/ ExitBegin(h, s)
          \/ \E v \in Visits, p \in Payments : PayBegin(h, v, p)
          \/ Proceed(h) \/ Crash(h)
  /\ UNCHANGED faults

Spec == Init /\ [][Next]_vars

\* Handlers go on, a car inside is read at the exit again and again, and a car
\* that was told "opened" drives out.
FairSpec ==
  /\ Spec
  /\ \A h \in Handlers : WF_parkVars(Proceed(h))
  /\ \A s \in Spots :
       /\ SF_parkVars(\E h \in Handlers : ExitBegin(h, s))
       /\ WF_parkVars(DriveOut(s))

-----------------------------------------------------------------------------
(* With one payment per visit and one request per notice at a time, no car  *)
(* back too early, and none let out before its entry is done.               *)

Orderly == faults \cap {"duplicate", "second", "overlap", "timeout"} = {}

Lifecycle == INSTANCE ParkingLifecycle WITH stage <- status, settled <- recorded

\* Whatever the handlers of entry, payment and exit do to each other, and
\* wherever they die: a session is paid after its payment was recorded, exited
\* after it was paid, and never goes back (mark_paid, mark_exited).
KeepsLifecycle ==
  /\ Orderly => Lifecycle!Init
  /\ [][Orderly => [Lifecycle!Next]_<<status, recorded>>]_<<status, recorded>>

\* The board opens the exit only for a visit the database holds paid, although
\* update_status rewrites whatever record its spot has.
BoardPaidIsPaid ==
  Orderly => \A s \in Spots : board[s].status = "paid" =>
    /\ status[board[s].visit] \in {"paid", "exited"}
    /\ place[board[s].visit] = s

-----------------------------------------------------------------------------
(* With no request dying and no record lost.                               *)

Unbroken == faults \cap {"crash", "redis"} = {}

Handling(v, pcs) == \E h \in Handlers : visit[h] = v /\ pc[h] \in pcs

\* A notice the back end was told "success" for was carried out, or is being
\* carried out by an earlier request: the early answer for a recorded key hides
\* no payment that was dropped (record_payment_complete).
AckedIsPaid ==
  Unbroken => \A k \in acked :
    status[k[1]] \in {"paid", "exited"} \/ Handling(k[1], {"pay_mark"})

\* The barrier is opened, by a notice or at the exit, only for a visit that is
\* paid, and while the spot has no visit that is not: no car gets out on a record
\* that an earlier visit left behind, if no answer to a car is late (open_exit).
OpensForPaid ==
  [][faults \subseteq {"webhook"} => \A v \in gate' \ gate :
       /\ status[v] \in {"paid", "exited"}
       /\ \A u \in Visits : place[u] = place[v] => status[u] # "active"]_gate

\* The exit, which believes the board first, is not told "not paid" of a paid
\* visit for longer than a running request takes (handle_lpr_exit).
BoardFollows ==
  Unbroken => \A s \in Spots :
    (board[s].status = "active" /\ status[board[s].visit] = "paid")
      => Handling(board[s].visit, {"pay_read", "pay_write"})

\* What the exit reads first is right both ways, as far as each can be.
BoardIsTrue == BoardPaidIsPaid /\ BoardFollows

\* A paid visit's car gets out, whatever the board loses, if no request dies, is
\* given up on or comes twice.
PaidGetsOut ==
  faults \subseteq {"redis", "webhook"} =>
    \A v \in Visits, s \in Spots :
      (status[v] = "paid" /\ place[v] = s /\ car[s] # "away") ~> (car[s] = "away")

-----------------------------------------------------------------------------
(* Claims of the documentation that the code does not keep.                *)

\* docs/use-cases/06-mock-services.md: a payment notice makes the session paid.
NoticeMarksPaid == \A k \in acked : status[k[1]] \in {"paid", "exited"}

\* docs/use-cases/06-mock-services.md: a repeated request with the same key does
\* not change the session.  With one payment per visit, only a repeat can meet
\* an exited session.
RepeatChangesNothing ==
  [][\A v \in Visits : status[v] = "exited" => status'[v] = "exited"]_vars
=============================================================================
