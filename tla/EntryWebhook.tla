---------------------------- MODULE EntryWebhook ----------------------------
(***************************************************************************)
(* The entry of a car as the back end sees it: the pre-notify of the app   *)
(* (POST /parking/navigate), the webhook of the PMS about the car read at  *)
(* an entry (POST /webhook/entry), and the announcement of the parking     *)
(* session to the app, with the entry half of NotifyRetryWorker.           *)
(*                                                                         *)
(* A spot is a pair lot, car: a plate belongs to one car.  The webhook is  *)
(* handled on the event loop of a back-end process, one at a time; the     *)
(* requests of the app and the worker run in threads of their own.  The    *)
(* handlers of the PMS are modelled in detail in PmsParking: here a        *)
(* reading at an entry is one handler, and a visit is paid and over when   *)
(* the back end's session is completed (PmsParking, ProcessPayment).       *)
(***************************************************************************)
EXTENDS Naturals, FiniteSets

CONSTANTS
  Lots,
  Cars,       \* cars with a plate and an active billing key: others are refused
  Visits,     \* the pms_session_ids that may be drawn
  Loops,      \* event loops of back-end processes: two during a deployment
  Scenarios   \* the sets of faults a behaviour may be exposed to

\* A request or the worker dies; Redis fails a command; a record's lifetime ends;
\* the broker refuses a message, or takes it and the caller hears nothing; the PMS
\* does not answer a pre-registration; a webhook is lost, or comes again; the app
\* asks for navigation while its car is being read or parked; a paid car is read
\* at an entry before its exit; the app is not connected; the notice of a payment
\* outlasts the visit.
FaultKinds == {"crash", "redis", "expiry", "broker", "ack", "pms", "webhook",
               "duplicate", "again", "overlap", "offline", "late"}

VARIABLES
  faults,     \* what may go wrong in this behaviour, fixed from the start
  nav,        \* per car: the navigation request of its app, [pc, lot]
  preNotify,  \* back end's Redis: the spots with a parking_pre_notify record
  preReg,     \* PMS's Redis: the spots with a pre_reg record
  visit,      \* per visit: where its reading and stay are
  spotOf,     \* per visit: its spot
  session,    \* parking_sessions of the back end, by pms_session_id
  loop,       \* per event loop: the webhook it handles, [pc, visit]
  retry,      \* the visits with an entry_notify_retry record
  worker,     \* NotifyRetryWorker: the record in hand, [pc, visit]
  app,        \* per car: the visit its app shows as parked
  notice,     \* the payments whose payment/complete notice is still to come
  announced,  \* history: the visits whose announcement reached the broker
  confirmed   \* history: the visits whose webhook was answered "confirmed"

redisVars == <<preNotify, preReg, retry>>
pmsVars   == <<visit, spotOf>>
appVars   == <<app, notice>>
histVars  == <<announced, confirmed>>
entryVars == <<nav, redisVars, pmsVars, session, loop, worker, appVars, histVars>>
vars      == <<faults, entryVars>>

Spots   == Lots \X Cars
NoSpot  == <<>>
NoLot   == "no lot"
NoVisit == "no visit"
CarOf(v) == IF spotOf[v] \in Spots THEN spotOf[v][2] ELSE NoVisit

ASSUME EntryAssumption == Scenarios \subseteq SUBSET FaultKinds /\ NoVisit \notin Visits

NavIdle  == [pc |-> "idle", lot |-> NoLot]
LoopIdle == [pc |-> "idle", visit |-> NoVisit]

LoopPcs   == {"look", "pre_notify", "active", "create", "delete", "publish",
              "clear", "record"}
VisitPcs  == {"none", "created", "registered", "sent", "inside", "told", "exited"}

TypeOK ==
  /\ faults \in Scenarios
  /\ nav \in [Cars -> {NavIdle} \cup [pc : {"save", "call"}, lot : Lots]]
  /\ preNotify \subseteq Spots
  /\ preReg \subseteq Spots
  /\ visit \in [Visits -> VisitPcs]
  /\ spotOf \in [Visits -> Spots \cup {NoSpot}]
  /\ session \in [Visits -> {"none", "active", "completed"}]
  /\ loop \in [Loops -> {LoopIdle} \cup [pc : LoopPcs, visit : Visits]]
  /\ retry \subseteq Visits
  /\ worker \in {LoopIdle} \cup [pc : {"publish", "delete"}, visit : Visits]
  /\ app \in [Cars -> Visits \cup {NoVisit}]
  /\ notice \subseteq Visits
  /\ announced \subseteq Visits
  /\ confirmed \subseteq Visits

Init ==
  /\ faults \in Scenarios
  /\ nav = [c \in Cars |-> NavIdle]
  /\ preNotify = {}
  /\ preReg = {}
  /\ visit = [v \in Visits |-> "none"]
  /\ spotOf = [v \in Visits |-> NoSpot]
  /\ session = [v \in Visits |-> "none"]
  /\ loop = [h \in Loops |-> LoopIdle]
  /\ retry = {}
  /\ worker = LoopIdle
  /\ app = [c \in Cars |-> NoVisit]
  /\ notice = {}
  /\ announced = {}
  /\ confirmed = {}

VisitsOf(c) == {v \in Visits : spotOf[v] \in Spots /\ CarOf(v) = c}

-----------------------------------------------------------------------------
(* POST /parking/navigate.                                                 *)

\* Unless "again" may happen, the app asks only while its car is away, and has
\* its answer before the car is read.
Navigate(c, l) ==
  /\ nav[c] = NavIdle
  /\ "again" \in faults \/ \A v \in VisitsOf(c) : visit[v] = "exited"
  /\ nav' = [nav EXCEPT ![c] = [pc |-> "save", lot |-> l]]
  /\ UNCHANGED <<faults, redisVars, pmsVars, session, loop, worker, appVars, histVars>>

\* Mutant: the PMS is asked before the record of the back end is written.
SavesAfter(s) == preNotify' = preNotify /\ preReg' = preReg \cup {s}

SaveIncoming(s) == preNotify' = preNotify \cup {s} /\ UNCHANGED preReg

SavePreNotify(c) ==
  /\ nav[c].pc = "save"
  /\ \/ /\ SaveIncoming(<<nav[c].lot, c>>)
        /\ nav' = [nav EXCEPT ![c].pc = "call"]
     \/ /\ "redis" \in faults
        /\ nav' = [nav EXCEPT ![c] = NavIdle]
        /\ UNCHANGED <<preNotify, preReg>>
  /\ UNCHANGED <<faults, retry, pmsVars, session, loop, worker, appVars, histVars>>

\* The PMS registers the plate.  When no answer comes the app is told of an
\* error and nothing is undone, whether the plate was registered or not.
PreRegisterPlate(c) ==
  /\ nav[c].pc = "call"
  /\ preReg' \in {preReg \cup {<<nav[c].lot, c>>}}
               \cup {P \in {preReg} : "pms" \in faults}
  /\ nav' = [nav EXCEPT ![c] = NavIdle]
  /\ UNCHANGED <<faults, preNotify, retry, pmsVars, session, loop, worker, appVars, histVars>>

-----------------------------------------------------------------------------
(* The PMS: POST /lpr/entry, and the end of a visit.                       *)

\* Mutant: no unique index on the active session of a plate.
SettledAtPmsNot(u) == u \in Visits

\* uniq_active_pms_session_per_plate: the plate's sessions are all paid, which
\* the PMS learns once the back end's session is completed.
SettledAtPms(u) == session[u] = "completed"

LprEntry(v, s) ==
  /\ visit[v] = "none"
  /\ \A u \in VisitsOf(s[2]) :
       SettledAtPms(u) /\ ("overlap" \in faults \/ visit[u] = "exited")
  /\ "again" \in faults \/ nav[s[2]] = NavIdle
  /\ visit' = [visit EXCEPT ![v] = "created"]
  /\ spotOf' = [spotOf EXCEPT ![v] = s]
  /\ UNCHANGED <<faults, nav, redisVars, session, loop, worker, appVars, histVars>>

FindRegistration(v) ==
  /\ visit[v] = "created"
  /\ visit' = [visit EXCEPT ![v] = IF spotOf[v] \in preReg THEN "registered" ELSE "inside"]
  /\ UNCHANGED <<faults, nav, redisVars, spotOf, session, loop, worker, appVars, histVars>>

ConsumeRegistration(v) ==
  /\ visit[v] = "registered"
  /\ visit' = [visit EXCEPT ![v] = "sent"]
  /\ preReg' = preReg \ {spotOf[v]}
  /\ UNCHANGED <<faults, nav, preNotify, retry, spotOf, session, loop, worker, appVars, histVars>>

\* A webhook that fails is logged and never sent again.
LoseWebhook(v) ==
  /\ "webhook" \in faults
  /\ visit[v] = "sent"
  /\ visit' = [visit EXCEPT ![v] = "inside"]
  /\ UNCHANGED <<faults, nav, redisVars, spotOf, session, loop, worker, appVars, histVars>>

\* The car leaves once the visit is paid; unless "late" may happen, not before
\* the app has heard of the payment.
LprExit(v) ==
  /\ visit[v] = "told"
  /\ session[v] = "completed"
  /\ "late" \in faults \/ v \notin notice
  /\ visit' = [visit EXCEPT ![v] = "exited"]
  /\ UNCHANGED <<faults, nav, redisVars, spotOf, session, loop, worker, appVars, histVars>>

-----------------------------------------------------------------------------
(* POST /webhook/entry: HandleEntryWebhookService, on an event loop.       *)

ToLoop(h, to) == loop' = [loop EXCEPT ![h].pc = to]
EndLoop(h)    == loop' = [loop EXCEPT ![h] = LoopIdle]
At(h, from)   == loop[h].pc = from

\* The app is told of the visit and shows it, whatever it showed before.
Shown(v) ==
  \/ app' = [app EXCEPT ![CarOf(v)] = v]
  \/ "offline" \in faults /\ UNCHANGED app

WebhookArrives(h, v) ==
  /\ loop[h] = LoopIdle
  /\ visit[v] = "sent" \/ ("duplicate" \in faults /\ visit[v] = "told")
  /\ visit' = [visit EXCEPT ![v] = "told"]
  /\ loop' = [loop EXCEPT ![h] = [pc |-> "look", visit |-> v]]
  /\ UNCHANGED <<faults, nav, redisVars, spotOf, session, worker, appVars, histVars>>

Confirm(h) == confirmed' = confirmed \cup {loop[h].visit} /\ EndLoop(h)

\* A visit whose session exists is confirmed again, without an announcement.
LookUpVisit(h) ==
  /\ At(h, "look")
  /\ IF session[loop[h].visit] # "none"
     THEN Confirm(h)
     ELSE ToLoop(h, "pre_notify") /\ UNCHANGED confirmed
  /\ UNCHANGED <<faults, nav, redisVars, pmsVars, session, worker, appVars, announced>>

\* "not_registered" without a pre-notify.
GetPreNotify(h) ==
  /\ At(h, "pre_notify")
  /\ IF spotOf[loop[h].visit] \in preNotify THEN ToLoop(h, "active") ELSE EndLoop(h)
  /\ UNCHANGED <<faults, nav, redisVars, pmsVars, session, worker, appVars, histVars>>

ActiveOf(c) == {u \in VisitsOf(c) : session[u] = "active"}

\* A car with an active session is confirmed with that one: the new visit gets
\* none, and the pre-notify stays.
LookUpActive(h) ==
  /\ At(h, "active")
  /\ IF ActiveOf(CarOf(loop[h].visit)) # {}
     THEN Confirm(h)
     ELSE ToLoop(h, "create") /\ UNCHANGED confirmed
  /\ UNCHANGED <<faults, nav, redisVars, pmsVars, session, worker, appVars, announced>>

\* Mutant: a table without unique indexes.
InsertableNot(v) == v \in Visits

\* uniq_parking_sessions_lot_pms, uniq_active_session_per_car.
Insertable(v) == session[v] = "none" /\ ActiveOf(CarOf(v)) = {}

CreateSession(h) ==
  LET v == loop[h].visit IN
  /\ At(h, "create")
  /\ IF Insertable(v)
     THEN session' = [session EXCEPT ![v] = "active"] /\ ToLoop(h, "delete")
     ELSE EndLoop(h) /\ UNCHANGED session
  /\ UNCHANGED <<faults, nav, redisVars, pmsVars, worker, appVars, histVars>>

\* When Redis fails here the request fails, with the session created and nobody
\* told: the delete is not within the try.
DeletePreNotify(h) ==
  /\ At(h, "delete")
  /\ \/ preNotify' = preNotify \ {spotOf[loop[h].visit]} /\ ToLoop(h, "publish")
     \/ "redis" \in faults /\ EndLoop(h) /\ UNCHANGED preNotify
  /\ UNCHANGED <<faults, nav, preReg, retry, pmsVars, session, worker, appVars, histVars>>

\* Mutant: a failed announcement is only logged.
AfterFailureNothing(h) == IF h \in Loops THEN "clear" ELSE "clear"

AfterFailure(h) == IF h \in Loops THEN "record" ELSE "idle"

PublishEntry(h) ==
  LET v == loop[h].visit IN
  /\ At(h, "publish")
  /\ \/ Shown(v) /\ announced' = announced \cup {v} /\ ToLoop(h, "clear")
     \/ "ack" \in faults /\ Shown(v) /\ announced' = announced \cup {v} /\ ToLoop(h, AfterFailure(h))
     \/ "broker" \in faults /\ ToLoop(h, AfterFailure(h)) /\ UNCHANGED <<app, announced>>
  /\ UNCHANGED <<faults, nav, redisVars, pmsVars, session, worker, notice, confirmed>>

\* Mutant: a retry event is left in Redis once its message got through.
ForgottenNot(v) == IF v \in Visits THEN retry ELSE {}

Forgotten(v) == retry \ {v}

\* The clear is within the try: when it fails, the event is recorded.
ClearRetryEvent(h) ==
  /\ At(h, "clear")
  /\ \/ retry' = Forgotten(loop[h].visit) /\ Confirm(h)
     \/ "redis" \in faults /\ ToLoop(h, "record") /\ UNCHANGED <<retry, confirmed>>
  /\ UNCHANGED <<faults, nav, preNotify, preReg, pmsVars, session, worker, appVars, announced>>

RecordRetryEvent(h) ==
  /\ At(h, "record")
  /\ \/ retry' = retry \cup {loop[h].visit} /\ Confirm(h)
     \/ "redis" \in faults /\ EndLoop(h) /\ UNCHANGED <<retry, confirmed>>
  /\ UNCHANGED <<faults, nav, preNotify, preReg, pmsVars, session, worker, appVars, announced>>

-----------------------------------------------------------------------------
(* NotifyRetryWorker, entry events.  Every record is tried in each round,  *)
(* every 60 s.                                                             *)

RetryEntry(v) ==
  /\ worker = LoopIdle
  /\ v \in retry
  /\ worker' = [pc |-> "publish", visit |-> v]
  /\ UNCHANGED <<faults, nav, redisVars, pmsVars, session, loop, appVars, histVars>>

\* Mutant: the worker lets a record go half way.
LetsGo == worker' = [worker EXCEPT !.pc = "idle"]

LetGo == worker' = LoopIdle

\* The session is not looked at: it may be over.
RetryPublish ==
  LET v == worker.visit IN
  /\ worker.pc = "publish"
  /\ \/ /\ Shown(v)
        /\ announced' = announced \cup {v}
        /\ \/ worker' = [worker EXCEPT !.pc = "delete"]
           \/ "ack" \in faults /\ LetGo
     \/ "broker" \in faults /\ LetGo /\ UNCHANGED <<app, announced>>
  /\ UNCHANGED <<faults, nav, redisVars, pmsVars, session, loop, notice, confirmed>>

RetryDelete ==
  /\ worker.pc = "delete"
  /\ \/ retry' = Forgotten(worker.visit)
     \/ "redis" \in faults /\ UNCHANGED retry
  /\ LetGo
  /\ UNCHANGED <<faults, nav, preNotify, preReg, pmsVars, session, loop, appVars, histVars>>

-----------------------------------------------------------------------------
(* The app, and what else may happen.                                      *)

\* The app pays the session it shows.  Its own answer may be lost; the notice
\* of the payment follows through the outbox.
Pay(v) ==
  /\ session[v] = "active"
  /\ app[CarOf(v)] = v
  /\ session' = [session EXCEPT ![v] = "completed"]
  /\ app' \in {app, [app EXCEPT ![CarOf(v)] = NoVisit]}
  /\ notice' = notice \cup {v}
  /\ UNCHANGED <<faults, nav, redisVars, pmsVars, loop, worker, histVars>>

\* Whichever visit the notice is about, the app is not parked any more.
PaymentNotice(v) ==
  /\ v \in notice
  /\ notice' = notice \ {v}
  /\ \/ app' = [app EXCEPT ![CarOf(v)] = NoVisit]
     \/ "offline" \in faults /\ UNCHANGED app
  /\ UNCHANGED <<faults, nav, redisVars, pmsVars, session, loop, worker, histVars>>

\* The lifetime of a record (one hour) ends.
Expire ==
  /\ "expiry" \in faults
  /\ \/ \E s \in preNotify : preNotify' = preNotify \ {s} /\ UNCHANGED <<preReg, retry>>
     \/ \E s \in preReg : preReg' = preReg \ {s} /\ UNCHANGED <<preNotify, retry>>
     \/ \E v \in retry : retry' = retry \ {v} /\ UNCHANGED <<preNotify, preReg>>
  /\ UNCHANGED <<faults, nav, pmsVars, session, loop, worker, appVars, histVars>>

Crash ==
  /\ "crash" \in faults
  /\ \/ \E h \in Loops : EndLoop(h) /\ UNCHANGED <<nav, worker>>
     \/ \E c \in Cars : nav' = [nav EXCEPT ![c] = NavIdle] /\ UNCHANGED <<loop, worker>>
     \/ worker' = LoopIdle /\ UNCHANGED <<loop, nav>>
  /\ UNCHANGED <<faults, redisVars, pmsVars, session, appVars, histVars>>

Handle(h) ==
  \/ LookUpVisit(h) \/ GetPreNotify(h) \/ LookUpActive(h) \/ CreateSession(h)
  \/ DeletePreNotify(h) \/ PublishEntry(h) \/ ClearRetryEvent(h) \/ RecordRetryEvent(h)

Next ==
  \/ \E c \in Cars : SavePreNotify(c) \/ PreRegisterPlate(c) \/ \E l \in Lots : Navigate(c, l)
  \/ \E v \in Visits, s \in Spots : LprEntry(v, s)
  \/ \E v \in Visits : FindRegistration(v) \/ ConsumeRegistration(v) \/ LoseWebhook(v) \/ LprExit(v)
  \/ \E h \in Loops, v \in Visits : WebhookArrives(h, v)
  \/ \E h \in Loops : Handle(h)
  \/ \E v \in Visits : RetryEntry(v) \/ Pay(v) \/ PaymentNotice(v)
  \/ RetryPublish \/ RetryDelete \/ Expire \/ Crash

Spec == Init /\ [][Next]_vars

RetrySucceeds == RetryPublish /\ worker'.pc = "delete"

\* Handlers go on, each round of the worker tries every record, and a broker
\* that is asked again and again takes a message in the end.
FairSpec ==
  /\ Spec
  /\ \A v \in Visits :
       /\ WF_entryVars(ConsumeRegistration(v))
       /\ SF_entryVars(\E h \in Loops : visit[v] = "sent" /\ WebhookArrives(h, v))
       /\ SF_entryVars(RetryEntry(v))
       /\ SF_entryVars(worker.visit = v /\ RetrySucceeds)
  /\ \A h \in Loops : WF_entryVars(Handle(h))
  /\ WF_entryVars(RetryPublish \/ RetryDelete)

-----------------------------------------------------------------------------
(* Properties.                                                             *)

\* The car of a visit that has a session.
OpenedFor == [v \in Visits |-> IF session[v] = "none" THEN NoVisit ELSE CarOf(v)]

Opening == INSTANCE SessionOpening WITH carOf <- OpenedFor, NoCar <- NoVisit

\* Whatever dies, fails or comes twice: a visit's session is opened once, one
\* at a time per car, announced only after it exists and paid only after it was
\* announced (HandleEntryWebhookService, the unique indexes of parking_sessions).
KeepsOpening == Opening!Init /\ [][Opening!Next]_<<session, OpenedFor, announced>>

Announcing(v) ==
  \E h \in Loops : loop[h].visit = v /\ loop[h].pc \in {"delete", "publish", "record"}

\* If nothing dies, Redis works and no record's lifetime ends, an app that was
\* not told of a session will be: it is being told, or a retry event is kept
\* (the except branch of HandleEntryWebhookService, NotifyRetryWorker).
AnnouncedOrRemembered ==
  faults \cap {"crash", "redis", "expiry"} = {} =>
    \A v \in Visits : session[v] # "none" =>
      v \in announced \/ Announcing(v) \/ v \in retry

\* A visit whose webhook was answered "confirmed" has a session of its own, and
\* not the one of an earlier visit: the stale session that the look-up by car
\* would answer with cannot be there, because the PMS opens a plate's next visit
\* only after the last one is paid.
ConfirmedHasSession == \A v \in confirmed : session[v] # "none"

\* A plate the PMS knows is known to the back end, so a car that is read will
\* not be refused as "not_registered", if the app does not ask while its car is
\* read or parked and no record's lifetime ends (RegisterPreNotifyService saves
\* its own record first; the webhook deletes it).
RegistrationsAgree ==
  faults \cap {"again", "expiry"} = {} => preReg \subseteq preNotify

\* An app that was told of a session that is not paid shows that session, if it
\* is connected and no notice of a payment outlasts its visit: a notice makes the
\* app forget whatever it shows (onPaymentComplete).  A retry event kept after its
\* message got through (an answer or a delete that failed, a death) comes between
\* too: _retry_entry does not look at the session.
AppShowsSession ==
  faults \cap {"offline", "late", "overlap", "crash", "redis", "ack"} = {} =>
    \A v \in announced : session[v] = "active" => app[CarOf(v)] = v

\* An app shows a session that is not paid, or will hear of the payment: no late
\* retry tells it of a session that is over, if nothing dies or fails and the
\* broker's answers arrive.
AppNotMisled ==
  faults \cap {"crash", "redis", "ack", "offline"} = {} =>
    \A c \in Cars : app[c] # NoVisit =>
      session[app[c]] = "active" \/ app[c] \in notice

\* What the app shows follows the sessions of its car (onEntryConfirm,
\* onPaymentComplete, _retry_entry).
AppFollows == AppShowsSession /\ AppNotMisled

\* A visit found registered at the PMS is announced to the app, though the broker
\* may refuse any number of times, if nothing else goes wrong.
RegisteredIsAnnounced ==
  faults \subseteq {"broker", "pms"} =>
    \A v \in Visits : (visit[v] = "registered") ~> (v \in announced)
=============================================================================
